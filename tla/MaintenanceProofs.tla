------------------------- MODULE MaintenanceProofs --------------------------
(***************************************************************************)
(* Proofs about the queues and the notifications: type correctness, what   *)
(* becomes of dead letters, how often a job is carried out, the orderly    *)
(* exit, that the queues implement the safety part of module Delivery, and *)
(* what requests on notifications keep while the sweeps run.               *)
(***************************************************************************)
EXTENDS Maintenance, TLAPS

USE JobsConstants

(* How often job j may have been carried out by its attempts so far. *)
Counted(j) ==
  job[j].made + job[j].stalls
    + (IF job[j].state \in {"acted", "stalled", "completed"} THEN 1 ELSE 0)

(* Each job on its own: where it stands in the queue, in failed_jobs and   *)
(* in the hands of the listener.                                           *)
JobOK(j) ==
  /\ j \in api.open => job[j].state = "none"
  /\ letters[j] <= 1
  /\ j \in handling \cup lost \cup pruned \/ letters[j] = 1 => job[j].state = "failed"
  /\ j \in handling \/ letters[j] = 1 => job[j].made >= Attempts
  /\ j \in handling => letters[j] = 0 /\ j \notin lost \cup pruned
  /\ job[j].state = "failed" => letters[j] = 1 \/ j \in handling \cup lost \cup pruned
  /\ job[j].stalls <= MaxStalled
  /\ job[j].made <= Attempts
  /\ job[j].state # "failed" => job[j].made < Attempts
  /\ done[j] <= Counted(j)
  /\ job[j].state \in {"acted", "completed"} => done[j] >= 1

IndInv == TypeOK /\ \A j \in Jobs : JobOK(j)

(* What an action that is not about job k leaves as it is. *)
Frame(k) ==
  /\ job'[k] = job[k] /\ done'[k] = done[k] /\ letters'[k] = letters[k]
  /\ k \in api'.open => k \in api.open
  /\ k \in handling' <=> k \in handling
  /\ k \in lost' <=> k \in lost
  /\ k \in pruned' <=> k \in pruned

(* A job keeps its invariant in a step that is not about it. *)
LEMMA FrameJob ==
  ASSUME NEW k \in Jobs, JobOK(k), Frame(k)
  PROVE  JobOK(k)'
BY DEF JobOK, Counted, Frame

(* The fields of a job are of their types. *)
LEMMA JobFields ==
  ASSUME TypeOK, NEW k \in Jobs
  PROVE  /\ job[k] \in Job /\ job[k].made \in Nat /\ job[k].stalls \in Nat
         /\ done[k] \in Nat /\ letters[k] \in Nat
BY DEF TypeOK, Job

(* A job that has not failed has an attempt left and no trace of failure. *)
LEMMA AliveJob ==
  ASSUME IndInv, NEW k \in Jobs, job[k].state # "failed"
  PROVE  job[k].made + 1 <= Attempts /\ k \notin handling \cup lost \cup pruned /\ letters[k] = 0
<1>1. JobOK(k) /\ job[k].made \in Nat /\ letters[k] \in Nat
  BY JobFields DEF IndInv
<1> QED
  BY <1>1 DEF JobOK

-----------------------------------------------------------------------------
(* The invariant holds at first. *)
LEMMA InitInv == Init => IndInv
<1> SUFFICES ASSUME Init PROVE IndInv
  OBVIOUS
<1>1. TypeOK
  BY DEF Init, TypeOK, Job, NoJob, Process, Stage, Worker, Api, AllWorkers
<1>2. ASSUME NEW k \in Jobs PROVE JobOK(k)
  BY DEF Init, JobOK, Counted, NoJob
<1> QED
  BY <1>1, <1>2 DEF IndInv

(* Steps of the API process: only the enqueueing touches a job. *)
LEMMA ApiInv == IndInv /\ ApiNext => IndInv'
<1> SUFFICES ASSUME IndInv, ApiNext PROVE IndInv'
  OBVIOUS
<1> USE DEF IndInv
<1>1. ASSUME NEW j \in EmailJobs, Commit(j) PROVE IndInv'
  <2>1. TypeOK'
    BY <1>1 DEF Commit, apiOthers, TypeOK, Api
  <2>2. ASSUME NEW k \in Jobs PROVE JobOK(k)'
    <3>1. k \in api'.open => job[k].state = "none"
      BY <1>1 DEF Commit, TypeOK, Api, JobOK
    <3> QED
      BY <1>1, <3>1 DEF Commit, apiOthers, JobOK, Counted
  <2> QED BY <2>1, <2>2
<1>2. ASSUME NEW j \in EmailJobs, enqueueEmail(j) PROVE IndInv'
  <2>1. TypeOK'
    BY <1>2 DEF enqueueEmail, apiOthers, TypeOK, Api, Job, Jobs
  <2>2. JobOK(j)'
    BY <1>2, JobFields DEF enqueueEmail, apiOthers, JobOK, Counted, TypeOK, Api, Job, Jobs
  <2>3. ASSUME NEW k \in Jobs, k # j PROVE JobOK(k)'
    BY <1>2, <2>3, FrameJob DEF enqueueEmail, apiOthers, Frame, TypeOK, Api
  <2> QED BY <2>1, <2>2, <2>3
<1>3. ASSUME \/ \E j \in EmailJobs : EnqueueFails(j)
             \/ ServerShutdown \/ ServerClosed \/ ServerExit \/ ServerForceExit \/ ServerStart
      PROVE  IndInv'
  <2>1. api' \in Api /\ api'.open \subseteq api.open
    BY <1>3 DEF EnqueueFails, ServerShutdown, ServerClosed, ServerExit, ServerForceExit,
       ServerStart, TypeOK, Api
  <2>2. UNCHANGED <<apiOthers, job>>
    BY <1>3 DEF EnqueueFails, ServerShutdown, ServerClosed, ServerExit, ServerForceExit,
       ServerStart
  <2>3. TypeOK'
    BY <2>1, <2>2 DEF apiOthers, TypeOK
  <2>4. ASSUME NEW k \in Jobs PROVE JobOK(k)'
    BY <2>1, <2>2, FrameJob DEF apiOthers, Frame
  <2> QED BY <2>3, <2>4
<1> QED
  BY <1>1, <1>2, <1>3 DEF ApiNext

(* Steps of the worker process, its end excepted, touch no job. *)
LEMMA ProcessInv ==
  ASSUME IndInv,
         \/ startWorkers \/ scheduleCleanups \/ ShutDownOnce \/ closeRedisConnection
         \/ Disconnect \/ ShutdownRejects
         \/ \E q \in QUEUE_NAMES : stopWorker(q) \/ StopWorkerFails(q)
  PROVE  IndInv'
<1> USE DEF IndInv
<1>1. proc' \in Process /\ scheduled' \in BOOLEAN
  <2> USE DEF others, TypeOK, Process, Stage, Worker, AllWorkers
  <2>1. CASE startWorkers \/ scheduleCleanups
    <3>1. AllWorkers("open") \in [QUEUE_NAMES -> Worker]
      OBVIOUS
    <3>2. CASE startWorkers
      BY <3>1, <3>2 DEF startWorkers
    <3>3. CASE scheduleCleanups
      BY <3>3 DEF scheduleCleanups
    <3> QED BY <2>1, <3>2, <3>3
  <2>4. CASE ShutDownOnce
    <3>1. AllWorkers("closing") \in [QUEUE_NAMES -> Worker]
      OBVIOUS
    <3> QED BY <2>4, <3>1 DEF ShutDownOnce, shutdown
  <2>2. CASE closeRedisConnection \/ Disconnect \/ ShutdownRejects
    BY <2>2 DEF closeRedisConnection, Disconnect, ShutdownRejects
  <2>3. ASSUME NEW q \in QUEUE_NAMES, stopWorker(q) \/ StopWorkerFails(q)
        PROVE  proc' \in Process /\ scheduled' \in BOOLEAN
    BY <2>3 DEF stopWorker, StopWorkerFails
  <2> QED BY <2>1, <2>2, <2>3, <2>4
<1>2. UNCHANGED <<job, done, api, handling, letters, pruned, lost, exits>>
  BY DEF startWorkers, scheduleCleanups, ShutDownOnce, shutdown, closeRedisConnection, Disconnect,
     ShutdownRejects, stopWorker, StopWorkerFails, others
<1>3. TypeOK'
  BY <1>1, <1>2 DEF TypeOK
<1>4. ASSUME NEW k \in Jobs PROVE JobOK(k)'
  BY <1>2, FrameJob DEF Frame
<1> QED BY <1>3, <1>4

(* The end of the process: running jobs stall, and what was being handled  *)
(* is lost.                                                                *)
LEMMA EndedInv ==
  ASSUME IndInv, NEW code \in {"ok", "forced"}, Ended(code)
  PROVE  IndInv'
<1> USE DEF IndInv
<1>1. TypeOK'
  <2>1. job' \in [Jobs -> Job]
    BY DEF Ended, TypeOK, Job
  <2> QED
    BY <2>1 DEF Ended, others, TypeOK, Process, Stage, Worker, AllWorkers
<1>2. ASSUME NEW k \in Jobs PROVE JobOK(k)'
  <2>1. /\ job'[k].made = job[k].made /\ job'[k].stalls = job[k].stalls
        /\ job'[k].state = IF job[k].state \in Running THEN "stalled" ELSE job[k].state
    BY JobFields DEF Ended, Job
  <2>2. /\ api' = api /\ letters' = letters /\ pruned' = pruned /\ done' = done
        /\ handling' = {} /\ lost' = lost \cup handling
    BY DEF Ended, others
  <2>3. JobOK(k) /\ job[k].made \in Nat /\ job[k].stalls \in Nat /\ done[k] \in Nat
    BY JobFields
  <2>4. CASE job[k].state \in Running
    BY <2>1, <2>2, <2>3, <2>4 DEF JobOK, Counted, Running
  <2>5. CASE job[k].state \notin Running
    BY <2>1, <2>2, <2>3, <2>5 DEF JobOK, Counted
  <2> QED BY <2>4, <2>5
<1> QED BY <1>1, <1>2

(* Steps of one job. *)
LEMMA QueueInv ==
  ASSUME IndInv, NEW j \in Jobs,
         \/ CronTick(j) /\ j \in MaintenanceJobs
         \/ Take(j) \/ Complete(j) \/ Recover(j) \/ processEmailJob(j)
  PROVE  IndInv'
<1> USE DEF IndInv
<1>1. UNCHANGED <<proc, api, handling, letters, pruned, lost, exits>> /\ scheduled' = scheduled
  BY DEF CronTick, Take, Complete, Recover, processEmailJob
<1>2. /\ job' \in [Jobs -> Job] /\ done' \in [Jobs -> Nat]
      /\ \A k \in Jobs : k # j => job'[k] = job[k] /\ done'[k] = done[k]
  BY DEF CronTick, Take, Complete, Recover, processEmailJob, TypeOK, Job
<1>3. JobOK(j)'
  <2> USE JobFields, <1>1 DEF JobOK, Counted
  <2>1. CASE CronTick(j) /\ j \in MaintenanceJobs
    <3>1. j \notin api.open
      BY <2>1 DEF TypeOK, Api
    <3> QED BY <2>1, <3>1 DEF CronTick, TypeOK, Job
  <2>2. CASE Take(j)
    BY <2>2 DEF Take, TypeOK, Job
  <2>3. CASE Complete(j)
    BY <2>3 DEF Complete, TypeOK, Job
  <2>4. CASE Recover(j)
    <3>1. job'[j].state = "waiting" /\ job'[j].made = job[j].made
          /\ job'[j].stalls = job[j].stalls + 1 /\ job[j].state = "stalled"
          /\ job[j].stalls < MaxStalled /\ done' = done
      BY <2>4 DEF Recover, TypeOK, Job
    <3>2. JobOK(j) /\ job[j].made \in Nat /\ job[j].stalls \in Nat /\ done[j] \in Nat
      BY JobFields
    <3> QED BY <3>1, <3>2
  <2>5. CASE processEmailJob(j)
    BY <2>5 DEF processEmailJob, TypeOK, Job
  <2> QED BY <2>1, <2>2, <2>3, <2>4, <2>5
<1>4. TypeOK'
  BY <1>1, <1>2 DEF TypeOK
<1>5. ASSUME NEW k \in Jobs, k # j PROVE JobOK(k)'
  BY <1>1, <1>2, <1>5, FrameJob DEF Frame
<1> QED BY <1>3, <1>4, <1>5

(* A sweep also removes rows of jobs that have failed. *)
LEMMA SweepInv ==
  ASSUME IndInv, NEW j \in Jobs, processMaintenanceJob(j)
  PROVE  IndInv'
<1> USE DEF IndInv
<1>1. PICK old \in SUBSET {k \in Jobs : letters[k] > 0} :
        /\ letters' = [k \in Jobs |-> IF k \in old THEN 0 ELSE letters[k]]
        /\ pruned' = pruned \cup old
  BY DEF processMaintenanceJob
<1>2. /\ UNCHANGED <<scheduled, proc, api, handling, lost, exits>>
      /\ job[j].state = "active"
      /\ job' = [job EXCEPT ![j].state = "acted"] /\ done' = [done EXCEPT ![j] = @ + 1]
  BY DEF processMaintenanceJob
<1>3. TypeOK'
  BY <1>1, <1>2 DEF TypeOK, Job
<1>4. JobOK(j)'
  <2>1. letters[j] = 0 /\ j \notin old
    BY AliveJob, <1>1, <1>2
  <2> QED
    BY <2>1, <1>1, <1>2, JobFields DEF JobOK, Counted, TypeOK, Job
<1>5. ASSUME NEW k \in Jobs, k # j PROVE JobOK(k)'
  <2>1. job'[k] = job[k] /\ done'[k] = done[k]
    BY <1>2, <1>5 DEF TypeOK
  <2>2. CASE k \in old
    <3>1. letters[k] = 1 /\ letters'[k] = 0 /\ k \in pruned'
      <4>1. letters[k] > 0 /\ letters[k] \in Nat /\ letters[k] <= 1
        BY <1>1, <2>2, JobFields DEF JobOK
      <4> QED BY <1>1, <2>2, <4>1
    <3> QED
      BY <3>1, <2>1, <1>2, JobFields DEF JobOK, Counted
  <2>3. CASE k \notin old
    BY <2>1, <2>3, <1>1, <1>2, FrameJob DEF Frame
  <2> QED BY <2>2, <2>3
<1> QED BY <1>3, <1>4, <1>5

(* The two ways in which BullMQ reports a failure. *)
LEMMA FailInv ==
  ASSUME IndInv, NEW j \in Jobs, FailAttempt(j) \/ GiveUpStalled(j)
  PROVE  IndInv'
<1> USE DEF IndInv
<1>1. job[j].made + 1 <= Attempts /\ j \notin handling \cup lost \cup pruned /\ letters[j] = 0
  <2>1. job[j].state # "failed"
    BY DEF FailAttempt, GiveUpStalled
  <2> QED
    BY <2>1, AliveJob
<1>2. handling' = IF job[j].made + 1 >= Attempts THEN handling \cup {j} ELSE handling
  BY DEF FailAttempt, GiveUpStalled, handleJobFailure, exhausted
<1>3. CASE FailAttempt(j)
  <2>1. PICK n \in {0, 1} : done' = [done EXCEPT ![j] = @ + n]
    BY <1>3 DEF FailAttempt
  <2>2. TypeOK'
    BY <1>2, <1>3, <2>1 DEF FailAttempt, TypeOK, Job
  <2>3. JobOK(j)'
    BY <1>1, <1>2, <1>3, <2>1, JobFields DEF FailAttempt, JobOK, Counted, TypeOK, Job
  <2>4. ASSUME NEW k \in Jobs, k # j PROVE JobOK(k)'
    BY <1>2, <1>3, <2>1, <2>4, FrameJob DEF FailAttempt, Frame, TypeOK
  <2> QED BY <2>2, <2>3, <2>4
<1>4. CASE GiveUpStalled(j)
  <2>1. TypeOK'
    BY <1>2, <1>4 DEF GiveUpStalled, TypeOK, Job
  <2>2. JobOK(j)'
    BY <1>1, <1>2, <1>4, JobFields DEF GiveUpStalled, JobOK, Counted, TypeOK, Job
  <2>3. ASSUME NEW k \in Jobs, k # j PROVE JobOK(k)'
    BY <1>2, <1>4, <2>3, FrameJob DEF GiveUpStalled, Frame, TypeOK
  <2> QED BY <2>1, <2>2, <2>3
<1> QED BY <1>3, <1>4

(* The row of a dead letter is written, or its write fails. *)
LEMMA LetterInv ==
  ASSUME IndInv, NEW j \in Jobs, WriteLetter(j) \/ WriteLetterFails(j)
  PROVE  IndInv'
<1> USE DEF IndInv
<1>1. j \in handling /\ handling' = handling \ {j}
  BY DEF WriteLetter, WriteLetterFails
<1>2. TypeOK'
  BY DEF WriteLetter, WriteLetterFails, TypeOK
<1>3. JobOK(j)'
  BY <1>1, JobFields DEF WriteLetter, WriteLetterFails, JobOK, Counted, TypeOK
<1>4. ASSUME NEW k \in Jobs, k # j PROVE JobOK(k)'
  BY <1>1, <1>4, FrameJob DEF WriteLetter, WriteLetterFails, Frame, TypeOK
<1> QED BY <1>2, <1>3, <1>4

(* Every step keeps the invariant. *)
LEMMA NextInv == IndInv /\ [Next]_vars => IndInv'
<1> SUFFICES ASSUME IndInv, [Next]_vars PROVE IndInv'
  OBVIOUS
<1>1. CASE ApiNext
  BY <1>1, ApiInv
<1>2. CASE WorkerNext
  BY <1>2, ProcessInv, EndedInv DEF WorkerNext, Exit, forceExit, Crash
<1>3. ASSUME NEW j \in Jobs, JobNext(j) PROVE IndInv'
  BY <1>3, QueueInv, FailInv, LetterInv DEF JobNext
<1>4. ASSUME NEW j \in EmailJobs, processEmailJob(j) PROVE IndInv'
  BY <1>4, QueueInv DEF Jobs
<1>5. ASSUME NEW j \in MaintenanceJobs, CronTick(j) \/ processMaintenanceJob(j) PROVE IndInv'
  BY <1>5, QueueInv, SweepInv DEF Jobs
<1>6. CASE UNCHANGED vars
  <2>1. TypeOK'
    BY <1>6 DEF IndInv, vars, TypeOK
  <2>2. ASSUME NEW k \in Jobs PROVE JobOK(k)'
    BY <1>6, FrameJob DEF IndInv, vars, Frame
  <2> QED BY <2>1, <2>2 DEF IndInv
<1> QED
  BY <1>1, <1>2, <1>3, <1>4, <1>5, <1>6 DEF Next, QueueNext

LEMMA Invariance == Spec => []IndInv
BY InitInv, NextInv, PTL DEF Spec

-----------------------------------------------------------------------------
(* The variables of the queues, the two processes and failed_jobs keep     *)
(* their types.                                                            *)
THEOREM TypeCorrect == Spec => []TypeOK
<1>1. IndInv => TypeOK
  BY DEF IndInv
<1> QED
  BY <1>1, Invariance, PTL

(* Every job that BullMQ gives up is in failed_jobs, once, unless it is    *)
(* among the lost or was swept, and no job that may yet run is             *)
(* (deadLetter.js).                                                        *)
THEOREM DeadLettersHold == Spec => []DeadLetters
<1>1. IndInv => DeadLetters
  BY DEF IndInv, JobOK, DeadLetters
<1> QED
  BY <1>1, Invariance, PTL

(* No job is completed without its work, and none is carried out more      *)
(* often than its attempts and recoveries (email.worker.js, queues.js).    *)
THEOREM CarriedOutHolds == Spec => []CarriedOut
<1>1. ASSUME IndInv PROVE CarriedOut
  <2>1. ASSUME NEW j \in Jobs
        PROVE  /\ job[j].state = "completed" => done[j] >= 1
               /\ done[j] <= Attempts + MaxStalled
    <3>1. JobOK(j) /\ job[j].made \in Nat /\ job[j].stalls \in Nat /\ done[j] \in Nat
      BY <1>1, JobFields DEF IndInv
    <3> QED
      BY <3>1 DEF JobOK, Counted
  <2> QED BY <2>1 DEF CarriedOut
<1> QED
  BY <1>1, Invariance, PTL

-----------------------------------------------------------------------------
(* The queues implement Delivery: what a step does to the status of each   *)
(* job and to the set of jobs that were carried out.                       *)

StatusOf(k) ==
  IF job[k].state = "none" THEN "none"
  ELSE IF job[k].state = "completed" THEN "done"
  ELSE IF letters[k] > 0 \/ k \in pruned THEN "dead"
  ELSE IF k \in lost THEN "lost"
  ELSE "pending"

LEMMA StatusIs == /\ status = [k \in Jobs |-> StatusOf(k)]
                  /\ status' = [k \in Jobs |-> StatusOf(k)']
BY DEF status, StatusOf

(* In a step that is not about it a job keeps its status. *)
LEMMA FrameStatus ==
  ASSUME NEW k \in Jobs, Frame(k)
  PROVE  StatusOf(k)' = StatusOf(k) /\ (k \in effect' <=> k \in effect)
BY DEF Frame, StatusOf, effect

(* A job at work, or whose failure is being handled, is pending. *)
LEMMA Pending ==
  ASSUME IndInv, NEW k \in Jobs,
         job[k].state \in {"waiting", "active", "acted", "stalled"} \/ k \in handling
  PROVE  StatusOf(k) = "pending"
<1>1. JobOK(k) /\ letters[k] \in Nat
  BY JobFields DEF IndInv
<1> QED
  BY <1>1 DEF JobOK, StatusOf

(* Steps that change nothing that Delivery sees. *)
LEMMA Stutter ==
  ASSUME \A k \in Jobs : StatusOf(k)' = StatusOf(k) /\ (k \in effect' <=> k \in effect)
  PROVE  UNCHANGED Promise!vars
<1>1. status' = status
  BY StatusIs
<1>2. effect' = effect
  BY DEF effect
<1> QED
  BY <1>1, <1>2 DEF Promise!vars

(* A step in which one job alone changes its status. *)
LEMMA OneStatus ==
  ASSUME NEW j \in Jobs, NEW s,
         StatusOf(j)' = s, effect' = effect,
         \A k \in Jobs : k # j => StatusOf(k)' = StatusOf(k)
  PROVE  status' = [status EXCEPT ![j] = s]
BY StatusIs

LEMMA RefInit == Init => Promise!Init
<1> SUFFICES ASSUME Init PROVE Promise!Init
  OBVIOUS
<1>1. status = [j \in Jobs |-> "none"]
  BY DEF Init, status, NoJob
<1>2. effect = {}
  BY DEF Init, effect
<1> QED
  BY <1>1, <1>2 DEF Promise!Init

(* A step of a job that is not carried out in it. *)
LEMMA RefSettle ==
  ASSUME IndInv, NEW j \in Jobs, StatusOf(j) = "pending", effect' = effect,
         \A k \in Jobs : k # j => StatusOf(k)' = StatusOf(k),
         NEW s \in Promise!Settled, StatusOf(j)' = s, s = "done" => j \in effect
  PROVE  Promise!Next
<1>1. status[j] = "pending"
  BY StatusIs
<1>2. status' = [status EXCEPT ![j] = s]
  BY OneStatus
<1>3. Promise!Settle(j)
  BY <1>1, <1>2 DEF Promise!Settle
<1> QED
  BY <1>3 DEF Promise!Next

(* A pending job that stays pending is carried out in the step, or not. *)
LEMMA RefCarryOut ==
  ASSUME NEW j \in Jobs, StatusOf(j) = "pending", effect' \in {effect, effect \cup {j}},
         \A k \in Jobs : StatusOf(k)' = StatusOf(k)
  PROVE  [Promise!Next]_(Promise!vars)
<1>1. status' = status /\ status[j] = "pending"
  BY StatusIs
<1>2. CASE effect' = effect
  BY <1>1, <1>2 DEF Promise!vars
<1>3. CASE effect' = effect \cup {j}
  <2>1. Promise!CarryOut(j)
    BY <1>1, <1>3 DEF Promise!CarryOut
  <2> QED BY <2>1 DEF Promise!Next
<1> QED BY <1>2, <1>3

(* A job that nobody had handed over is accepted. *)
LEMMA RefAccept ==
  ASSUME NEW j \in Jobs, StatusOf(j) = "none", effect' = effect, StatusOf(j)' = "pending",
         \A k \in Jobs : k # j => StatusOf(k)' = StatusOf(k)
  PROVE  Promise!Next
<1>1. status[j] = "none"
  BY StatusIs
<1>2. status' = [status EXCEPT ![j] = "pending"]
  BY OneStatus
<1>3. Promise!Accept(j)
  BY <1>1, <1>2 DEF Promise!Accept
<1> QED
  BY <1>3 DEF Promise!Next

(* What ends with the worker process is what it was handling. *)
LEMMA RefEnded ==
  ASSUME IndInv, NEW code, Ended(code)
  PROVE  Promise!Next
<1>1. ASSUME NEW k \in Jobs
      PROVE  StatusOf(k)' = IF k \in handling THEN "lost" ELSE StatusOf(k)
  <2>1. letters' = letters /\ pruned' = pruned /\ lost' = lost \cup handling
    BY DEF Ended, others
  <2>2. job'[k].state = IF job[k].state \in Running THEN "stalled" ELSE job[k].state
    BY JobFields DEF Ended, IndInv, Job
  <2>3. JobOK(k) /\ letters[k] \in Nat
    BY JobFields DEF IndInv
  <2> QED
    BY <2>1, <2>2, <2>3 DEF StatusOf, Running, JobOK
<1>2. status' = [j \in Jobs |-> IF j \in handling THEN "lost" ELSE status[j]]
  BY <1>1, StatusIs
<1>3. handling \in SUBSET {j \in Jobs : status[j] = "pending"}
  BY Pending, StatusIs DEF IndInv, TypeOK
<1>4. effect' = effect
  BY DEF Ended, others, effect
<1>5. Promise!LoseSome
  BY <1>2, <1>3, <1>4 DEF Promise!LoseSome
<1> QED
  BY <1>5 DEF Promise!Next

(* The status of a job that has not failed follows its state. *)
LEMMA AliveStatus ==
  ASSUME IndInv, NEW k \in Jobs, job[k].state # "failed"
  PROVE  StatusOf(k) = IF job[k].state = "none" THEN "none"
                       ELSE IF job[k].state = "completed" THEN "done" ELSE "pending"
BY AliveJob DEF StatusOf

(* Steps of one job in the queue. *)
LEMMA RefQueue ==
  ASSUME IndInv, IndInv', NEW j \in Jobs,
         \/ CronTick(j) /\ j \in MaintenanceJobs
         \/ Take(j) \/ Complete(j) \/ Recover(j) \/ processEmailJob(j)
  PROVE  [Promise!Next]_(Promise!vars)
<1>1. UNCHANGED <<api, handling, letters, pruned, lost>>
  BY DEF CronTick, Take, Complete, Recover, processEmailJob
<1>2. \A k \in Jobs : k # j => job'[k] = job[k] /\ done'[k] = done[k]
  BY DEF CronTick, Take, Complete, Recover, processEmailJob, IndInv, TypeOK, Job
<1>3. ASSUME NEW k \in Jobs, k # j
      PROVE  StatusOf(k)' = StatusOf(k) /\ (k \in effect' <=> k \in effect)
  BY <1>1, <1>2, <1>3, FrameStatus DEF Frame
<1>4. /\ StatusOf(j) = IF job[j].state = "none" THEN "none" ELSE "pending"
      /\ letters[j] = 0 /\ j \notin pruned \cup lost
  <2>1. job[j].state \notin {"failed", "completed"}
    BY DEF CronTick, Take, Complete, Recover, processEmailJob
  <2> QED
    BY <2>1, AliveStatus, AliveJob
<1>5. CASE CronTick(j) /\ j \in MaintenanceJobs
  <2>1. job[j].state = "none" /\ job'[j].state = "waiting" /\ done' = done
    BY <1>5 DEF CronTick, IndInv, TypeOK, Job
  <2>2. StatusOf(j)' = "pending" /\ effect' = effect
    BY <1>1, <1>4, <2>1 DEF StatusOf, effect
  <2> QED
    BY <1>3, <1>4, <2>1, <2>2, RefAccept
<1>6. CASE Take(j) \/ Recover(j)
  <2>1. job'[j].state \in {"waiting", "active"}
    BY <1>6 DEF Take, Recover, IndInv, TypeOK, Job
  <2>2. job[j].state # "none" /\ done' = done
    BY <1>6 DEF Take, Recover
  <2>3. StatusOf(j)' = "pending" /\ effect' = effect
    BY <1>1, <1>4, <2>1, <2>2 DEF StatusOf, effect
  <2>4. \A k \in Jobs : StatusOf(k)' = StatusOf(k) /\ (k \in effect' <=> k \in effect)
    BY <1>3, <1>4, <2>2, <2>3
  <2> QED BY <2>4, Stutter
<1>7. CASE Complete(j)
  <2>1. job[j].state = "acted" /\ job'[j].state = "completed" /\ done' = done
    BY <1>7 DEF Complete, IndInv, TypeOK, Job
  <2>2. StatusOf(j)' = "done" /\ effect' = effect
    BY <2>1 DEF StatusOf, effect
  <2>3. j \in effect
    <3>1. done[j] >= 1 /\ done[j] \in Nat
      BY <2>1, JobFields DEF IndInv, JobOK
    <3> QED BY <3>1 DEF effect
  <2>4. "done" \in Promise!Settled
    BY DEF Promise!Settled
  <2>5. StatusOf(j) = "pending"
    BY <1>4, <2>1
  <2>6. Promise!Next
    BY <1>3, <2>2, <2>3, <2>4, <2>5, RefSettle
  <2> QED BY <2>6
<1>8. CASE processEmailJob(j)
  <2>1. job[j].state = "active" /\ job'[j].state = "acted" /\ done' = [done EXCEPT ![j] = @ + 1]
    BY <1>8 DEF processEmailJob, IndInv, TypeOK, Job
  <2>2. StatusOf(j)' = "pending" /\ StatusOf(j) = "pending"
    BY <1>1, <1>4, <2>1 DEF StatusOf
  <2>3. effect' = effect \cup {j}
    BY <2>1, JobFields DEF effect, IndInv, TypeOK
  <2> QED
    BY <1>3, <2>2, <2>3, RefCarryOut
<1> QED BY <1>5, <1>6, <1>7, <1>8

(* A sweep: the rows it removes stay dead. *)
LEMMA RefSweep ==
  ASSUME IndInv, NEW j \in Jobs, processMaintenanceJob(j)
  PROVE  [Promise!Next]_(Promise!vars)
<1>1. PICK old \in SUBSET {k \in Jobs : letters[k] > 0} :
        /\ letters' = [k \in Jobs |-> IF k \in old THEN 0 ELSE letters[k]]
        /\ pruned' = pruned \cup old
  BY DEF processMaintenanceJob
<1>2. /\ lost' = lost /\ job[j].state = "active"
      /\ job' = [job EXCEPT ![j].state = "acted"] /\ done' = [done EXCEPT ![j] = @ + 1]
  BY DEF processMaintenanceJob
<1>3. StatusOf(j) = "pending" /\ letters[j] = 0 /\ j \notin pruned \cup lost
  BY <1>2, AliveStatus, AliveJob
<1>4. ASSUME NEW k \in Jobs PROVE StatusOf(k)' = StatusOf(k)
  <2>1. CASE k = j
    <3>1. job'[k].state = "acted" /\ letters'[k] = 0 /\ k \notin pruned'
      BY <1>1, <1>2, <1>3, <2>1 DEF IndInv, TypeOK, Job
    <3> QED BY <1>2, <1>3, <2>1, <3>1 DEF StatusOf
  <2>2. CASE k # j
    <3>1. job'[k] = job[k]
      BY <1>2, <2>2 DEF IndInv, TypeOK
    <3>2. letters'[k] > 0 \/ k \in pruned' <=> letters[k] > 0 \/ k \in pruned
      BY <1>1
    <3> QED BY <1>2, <3>1, <3>2 DEF StatusOf
  <2> QED BY <2>1, <2>2
<1>5. effect' = effect \cup {j}
  BY <1>2, JobFields DEF effect, IndInv, TypeOK
<1> QED
  BY <1>3, <1>4, <1>5, RefCarryOut

(* A failed attempt may have done its work; a job that is given up is      *)
(* lost, or pending until its dead letter is written.                      *)
LEMMA RefFail ==
  ASSUME IndInv, NEW j \in Jobs, FailAttempt(j) \/ GiveUpStalled(j)
  PROVE  [Promise!Next]_(Promise!vars)
<1>1. StatusOf(j) = "pending" /\ letters[j] = 0 /\ j \notin pruned \cup lost
  <2>1. job[j].state \in {"active", "stalled"}
    BY DEF FailAttempt, GiveUpStalled
  <2> QED BY <2>1, AliveStatus, AliveJob
<1>2. /\ letters' = letters /\ pruned' = pruned
      /\ job'[j].state \in {"failed", "waiting"}
      /\ \A k \in Jobs : k # j => job'[k] = job[k]
  BY DEF FailAttempt, GiveUpStalled, IndInv, TypeOK, Job
<1>3. ASSUME NEW k \in Jobs, k # j, k \in lost' <=> k \in lost
      PROVE  StatusOf(k)' = StatusOf(k)
  BY <1>2, <1>3 DEF StatusOf
<1>4. CASE FailAttempt(j)
  <2>1. PICK n \in {0, 1} : done' = [done EXCEPT ![j] = @ + n]
    BY <1>4 DEF FailAttempt
  <2>2. lost' = lost
    BY <1>4 DEF FailAttempt
  <2>3. StatusOf(j)' = "pending"
    BY <1>1, <1>2, <2>2 DEF StatusOf
  <2>4. effect' \in {effect, effect \cup {j}}
    BY <2>1, JobFields DEF effect, IndInv, TypeOK
  <2> QED BY <1>1, <1>3, <2>2, <2>3, <2>4, RefCarryOut
<1>5. CASE GiveUpStalled(j)
  <2>1. effect' = effect
    BY <1>5 DEF GiveUpStalled, effect
  <2>2. lost' \in {lost, lost \cup {j}}
    BY <1>5 DEF GiveUpStalled
  <2>3. StatusOf(j)' = IF j \in lost' THEN "lost" ELSE "pending"
    BY <1>1, <1>2 DEF StatusOf
  <2>4. CASE j \in lost'
    <3>1. "lost" \in Promise!Settled
      BY DEF Promise!Settled
    <3> QED BY <1>1, <1>3, <2>1, <2>2, <2>3, <2>4, <3>1, RefSettle
  <2>5. CASE j \notin lost'
    BY <1>1, <1>3, <2>1, <2>2, <2>3, <2>5, Stutter
  <2> QED BY <2>4, <2>5
<1> QED BY <1>4, <1>5

(* The dead letter settles its job, written or not. *)
LEMMA RefLetter ==
  ASSUME IndInv, NEW j \in Jobs, WriteLetter(j) \/ WriteLetterFails(j)
  PROVE  Promise!Next
<1>1. /\ StatusOf(j) = "pending" /\ j \notin lost \cup pruned
      /\ job[j].state = "failed" /\ letters[j] = 0
  BY Pending DEF WriteLetter, WriteLetterFails, IndInv, JobOK
<1>2. job' = job /\ effect' = effect /\ pruned' = pruned
  BY DEF WriteLetter, WriteLetterFails, effect
<1>3. ASSUME NEW k \in Jobs, k # j PROVE StatusOf(k)' = StatusOf(k)
  BY <1>2, <1>3 DEF WriteLetter, WriteLetterFails, StatusOf, IndInv, TypeOK
<1>4. StatusOf(j)' \in {"dead", "lost"}
  BY <1>1, <1>2 DEF WriteLetter, WriteLetterFails, StatusOf, IndInv, TypeOK
<1>5. StatusOf(j)' \in Promise!Settled /\ StatusOf(j)' # "done"
  BY <1>4 DEF Promise!Settled
<1> QED
  BY <1>1, <1>2, <1>3, <1>5, RefSettle

(* Every step of the queues is one of Delivery, or changes nothing of it. *)
LEMMA RefNext ==
  ASSUME IndInv, IndInv', [Next]_vars
  PROVE  [Promise!Next]_(Promise!vars)
<1>1. ASSUME UNCHANGED <<job, done, letters, pruned, lost>>
      PROVE  UNCHANGED Promise!vars
  BY <1>1, Stutter DEF StatusOf, effect
<1>2. CASE ApiNext
  <2>1. ASSUME NEW j \in EmailJobs, enqueueEmail(j)
        PROVE  Promise!Next
    <3>1. j \in Jobs /\ job[j].state = "none"
      BY <2>1 DEF enqueueEmail, IndInv, JobOK, Jobs
    <3>2. letters[j] = 0 /\ j \notin pruned \cup lost /\ StatusOf(j) = "none"
      BY <3>1, AliveJob, AliveStatus
    <3>3. UNCHANGED <<done, letters, pruned, lost>> /\ job' = [job EXCEPT ![j].state = "waiting"]
      BY <2>1 DEF enqueueEmail, apiOthers
    <3>4. job'[j].state = "waiting" /\ \A k \in Jobs : k # j => job'[k] = job[k]
      BY <3>1, <3>3 DEF IndInv, TypeOK, Job
    <3>5. StatusOf(j)' = "pending" /\ effect' = effect
      BY <3>2, <3>3, <3>4 DEF StatusOf, effect
    <3>6. \A k \in Jobs : k # j => StatusOf(k)' = StatusOf(k)
      BY <3>3, <3>4 DEF StatusOf
    <3> QED BY <3>1, <3>2, <3>5, <3>6, RefAccept
  <2>2. ASSUME \/ \E j \in EmailJobs : Commit(j) \/ EnqueueFails(j)
               \/ ServerShutdown \/ ServerClosed \/ ServerExit \/ ServerForceExit \/ ServerStart
        PROVE  UNCHANGED <<job, done, letters, pruned, lost>>
    BY <2>2 DEF Commit, EnqueueFails, ServerShutdown, ServerClosed, ServerExit, ServerForceExit,
       ServerStart, apiOthers
  <2> QED BY <1>1, <1>2, <2>1, <2>2 DEF ApiNext
<1>3. CASE WorkerNext
  <2>1. ASSUME Exit \/ forceExit \/ Crash
        PROVE  Promise!Next
    BY <2>1, RefEnded DEF Exit, forceExit, Crash
  <2>2. ASSUME \/ startWorkers \/ scheduleCleanups \/ ShutDownOnce \/ closeRedisConnection
               \/ Disconnect \/ ShutdownRejects
               \/ \E q \in QUEUE_NAMES : stopWorker(q) \/ StopWorkerFails(q)
        PROVE  UNCHANGED <<job, done, letters, pruned, lost>>
    BY <2>2 DEF startWorkers, scheduleCleanups, ShutDownOnce, shutdown, closeRedisConnection,
       Disconnect, ShutdownRejects, stopWorker, StopWorkerFails, others
  <2> QED BY <1>1, <1>3, <2>1, <2>2 DEF WorkerNext
<1>4. ASSUME NEW j \in Jobs, JobNext(j)
      PROVE  [Promise!Next]_(Promise!vars)
  BY <1>4, RefQueue, RefFail, RefLetter DEF JobNext
<1>5. ASSUME NEW j \in EmailJobs, processEmailJob(j)
      PROVE  [Promise!Next]_(Promise!vars)
  BY <1>5, RefQueue DEF Jobs
<1>6. ASSUME NEW j \in MaintenanceJobs, CronTick(j) \/ processMaintenanceJob(j)
      PROVE  [Promise!Next]_(Promise!vars)
  BY <1>6, RefQueue, RefSweep DEF Jobs
<1>7. CASE UNCHANGED vars
  BY <1>1, <1>7 DEF vars
<1> QED
  BY <1>2, <1>3, <1>4, <1>5, <1>6, <1>7 DEF Next, QueueNext

(* Whatever workers, retries, crashes and shutdowns do, a job that was     *)
(* accepted is pending until it is settled once and for good: done only    *)
(* after its work was carried out, dead with a row in failed_jobs, or      *)
(* lost.  That it is settled at all is checked by TLC.                     *)
THEOREM SafeDelivery == Spec => Promise!Safe
<1>1. IndInv /\ IndInv' /\ [Next]_vars => [Promise!Next]_(Promise!vars)
  BY RefNext
<1> QED
  BY <1>1, RefInit, Invariance, PTL DEF Spec, Promise!Safe

(* What follows for the code that hands a job over: once it is settled,    *)
(* nothing that queues, workers or restarts do changes what became of it,  *)
(* and work that was carried out is not taken back.                        *)
SettledStays ==
  \A j \in Jobs : /\ status[j] \in Promise!Settled => status'[j] = status[j]
                  /\ status[j] # "none" => status'[j] # "none"
                  /\ status[j] # "done" /\ status'[j] = "done" => j \in effect

THEOREM SettledForGood == Spec => [][SettledStays /\ effect \subseteq effect']_(Promise!vars)
<1>1. ASSUME Promise!Next PROVE SettledStays /\ effect \subseteq effect'
  <2>1. status = [k \in Jobs |-> status[k]]
    BY DEF status
  <2>2. ASSUME NEW j \in Jobs, Promise!Accept(j) \/ Promise!CarryOut(j)
        PROVE  SettledStays /\ effect \subseteq effect'
    BY <2>1, <2>2 DEF Promise!Accept, Promise!CarryOut, Promise!Settled, SettledStays
  <2>3. ASSUME NEW j \in Jobs, Promise!Settle(j)
        PROVE  SettledStays /\ effect \subseteq effect'
    BY <2>1, <2>3 DEF Promise!Settle, Promise!Settled, SettledStays
  <2>4. ASSUME Promise!LoseSome
        PROVE  SettledStays /\ effect \subseteq effect'
    BY <2>4 DEF Promise!LoseSome, Promise!Settled, SettledStays
  <2> QED BY <1>1, <2>2, <2>3, <2>4 DEF Promise!Next
<1>2. [Promise!Next]_(Promise!vars) => [SettledStays /\ effect \subseteq effect']_(Promise!vars)
  BY <1>1
<1> QED
  BY <1>2, SafeDelivery, PTL DEF Promise!Safe

-----------------------------------------------------------------------------
(* The orderly end: what is closed runs nothing, and the last stages are   *)
(* reached with every worker closed or broken and no endpoint open.        *)

ExitInv ==
  /\ proc.stage \in {"redisClosed", "disconnected"} =>
       \A q \in QUEUE_NAMES : proc.worker[q] \in {"closed", "broken"}
  /\ \A j \in Jobs : job[j].state \in Running => proc.worker[Queue(j)] # "closed"
  /\ api.stage = "drained" => api.open = {}

LEMMA QueueType == \A j \in Jobs : Queue(j) \in QUEUE_NAMES
BY DEF Queue, QUEUE_NAMES

(* Steps that leave the worker process alone: a job begins to run only     *)
(* where a worker is open.                                                 *)
LEMMA ExitJobs ==
  ASSUME TypeOK, ExitInv, proc' = proc, ApiNext \/ api' = api,
         \A k \in Jobs : job'[k].state \in Running =>
                          job[k].state \in Running \/ proc.worker[Queue(k)] = "open"
  PROVE  ExitInv'
<1>1. api'.stage = "drained" => api'.open = {}
  <2>1. CASE ApiNext
    BY <2>1 DEF ApiNext, Commit, enqueueEmail, EnqueueFails, ServerShutdown, ServerClosed,
       ServerExit, ServerForceExit, ServerStart, ExitInv, TypeOK, Api
  <2> QED BY <2>1 DEF ExitInv
<1> QED
  BY <1>1 DEF ExitInv

LEMMA ExitOthers ==
  ASSUME TypeOK, ExitInv,
         \/ ApiNext \/ scheduleCleanups
         \/ \E j \in Jobs : \/ JobNext(j) \/ processEmailJob(j) \/ CronTick(j)
                             \/ processMaintenanceJob(j)
  PROVE  ExitInv'
<1>1. CASE ApiNext
  <2>1. proc' = proc
    BY <1>1 DEF ApiNext, Commit, enqueueEmail, EnqueueFails, ServerShutdown, ServerClosed,
       ServerExit, ServerForceExit, ServerStart, apiOthers
  <2>2. \A k \in Jobs : job'[k].state \in Running => job[k].state \in Running
    BY <1>1 DEF ApiNext, Commit, enqueueEmail, EnqueueFails, ServerShutdown, ServerClosed,
       ServerExit, ServerForceExit, ServerStart, TypeOK, Job, Running
  <2> QED BY <1>1, <2>1, <2>2, ExitJobs
<1>2. CASE scheduleCleanups
  BY <1>2, ExitJobs DEF scheduleCleanups
<1>3. ASSUME NEW j \in Jobs,
             JobNext(j) \/ processEmailJob(j) \/ CronTick(j) \/ processMaintenanceJob(j)
      PROVE  ExitInv'
  <2>1. proc' = proc /\ api' = api
    BY <1>3 DEF JobNext, Take, Complete, FailAttempt, Recover, GiveUpStalled, WriteLetter,
       WriteLetterFails, processEmailJob, CronTick, processMaintenanceJob
  <2>2. \A k \in Jobs : job'[k].state \in Running =>
                         job[k].state \in Running \/ proc.worker[Queue(k)] = "open"
    <3> USE DEF TypeOK, Job, Running
    <3>1. CASE JobNext(j)
      BY <3>1 DEF JobNext, Take, Complete, FailAttempt, Recover, GiveUpStalled, WriteLetter,
         WriteLetterFails
    <3>2. CASE processEmailJob(j) \/ CronTick(j) \/ processMaintenanceJob(j)
      BY <3>2 DEF processEmailJob, CronTick, processMaintenanceJob
    <3> QED BY <1>3, <3>1, <3>2
  <2> QED BY <2>1, <2>2, ExitJobs
<1> QED BY <1>1, <1>2, <1>3

LEMMA ExitWorker ==
  ASSUME TypeOK, ExitInv, WorkerNext
  PROVE  ExitInv'
<1> USE QueueType DEF ExitInv, TypeOK, Process, AllWorkers
<1>1. CASE startWorkers
  BY <1>1 DEF startWorkers
<1>2. CASE scheduleCleanups
  BY <1>2, ExitOthers
<1>3. CASE ShutDownOnce
  BY <1>3 DEF ShutDownOnce, shutdown, others
<1>4. CASE closeRedisConnection \/ Disconnect \/ ShutdownRejects
  BY <1>4 DEF closeRedisConnection, Disconnect, ShutdownRejects, others
<1>5. CASE Exit \/ forceExit \/ Crash
  BY <1>5 DEF Exit, forceExit, Crash, Ended, others, Job, Running
<1>6. ASSUME NEW q \in QUEUE_NAMES, stopWorker(q) \/ StopWorkerFails(q)
      PROVE  ExitInv'
  <2>1. /\ proc.stage = "stopping" /\ proc'.stage = proc.stage /\ job' = job /\ api' = api
        /\ proc'.worker \in {[proc.worker EXCEPT ![q] = "closed"], [proc.worker EXCEPT ![q] = "broken"]}
        /\ proc'.worker[q] = "closed" => \A j \in Jobs : Queue(j) = q => job[j].state \notin Running
    BY <1>6 DEF stopWorker, StopWorkerFails, others
  <2> QED BY <2>1
<1> QED
  BY <1>1, <1>2, <1>3, <1>4, <1>5, <1>6 DEF WorkerNext

LEMMA ExitInvariance == Spec => [](TypeOK /\ ExitInv)
<1>1. Init => ExitInv
  BY DEF Init, ExitInv, NoJob, Running
<1>2. TypeOK /\ ExitInv /\ [Next]_vars => ExitInv'
  <2>1. TypeOK /\ ExitInv /\ Next => ExitInv'
    BY ExitWorker, ExitOthers DEF Next, QueueNext, Jobs
  <2>2. ExitInv /\ UNCHANGED vars => ExitInv'
    BY DEF ExitInv, vars
  <2> QED BY <2>1, <2>2
<1> QED
  BY <1>1, <1>2, TypeCorrect, PTL DEF Spec

(* An exit with code 0 loses no running job of a worker that could be      *)
(* closed, and no endpoint of the API between its row and its job          *)
(* (worker.js, server.js).                                                 *)
THEOREM OrderlyExitHolds == Spec => OrderlyExit
<1>1. TypeOK /\ ExitInv /\ [Next]_vars =>
        [/\ proc'.code = "ok" /\ proc.code # "ok" =>
               \A j \in Jobs : job[j].state \in Running => proc.worker[Queue(j)] = "broken"
         /\ api'.code = "ok" /\ api.code # "ok" => api.open = {}]_vars
  <2> SUFFICES ASSUME TypeOK, ExitInv, Next
               PROVE  /\ proc'.code = "ok" /\ proc.code # "ok" =>
                            \A j \in Jobs : job[j].state \in Running => proc.worker[Queue(j)] = "broken"
                      /\ api'.code = "ok" /\ api.code # "ok" => api.open = {}
    OBVIOUS
  <2>1. ASSUME proc'.code = "ok", proc.code # "ok" PROVE proc.stage = "disconnected"
    <3>1. \/ proc' = proc \/ startWorkers \/ proc'.code = proc.code \/ Exit \/ Ended("forced")
      BY DEF Next, QueueNext, ApiNext, WorkerNext, JobNext, Commit, enqueueEmail, EnqueueFails,
         ServerShutdown, ServerClosed, ServerExit, ServerForceExit, ServerStart, apiOthers,
         scheduleCleanups, ShutDownOnce, shutdown, closeRedisConnection, Disconnect,
         ShutdownRejects, stopWorker, StopWorkerFails, forceExit, Crash, CronTick, Take, Complete,
         FailAttempt, Recover, GiveUpStalled, WriteLetter, WriteLetterFails, processEmailJob,
         processMaintenanceJob, TypeOK, Process
    <3> QED BY <2>1, <3>1 DEF startWorkers, Exit, Ended
  <2>2. ASSUME api'.code = "ok", api.code # "ok" PROVE api.stage = "drained"
    <3>1. api' = api \/ ApiNext
      BY DEF Next, QueueNext, WorkerNext, JobNext, startWorkers, scheduleCleanups, ShutDownOnce,
         shutdown, closeRedisConnection, Disconnect, ShutdownRejects, stopWorker, StopWorkerFails,
         Exit, forceExit, Crash, Ended, others, CronTick, Take, Complete, FailAttempt, Recover,
         GiveUpStalled, WriteLetter, WriteLetterFails, processEmailJob, processMaintenanceJob
    <3> QED
      BY <2>2, <3>1 DEF ApiNext, Commit, enqueueEmail, EnqueueFails, ServerShutdown, ServerClosed,
         ServerExit, ServerForceExit, ServerStart, TypeOK, Api
  <2> QED BY <2>1, <2>2, QueueType DEF ExitInv
<1> QED
  BY <1>1, ExitInvariance, PTL DEF Spec, OrderlyExit

-----------------------------------------------------------------------------
(* Notifications under the sweeps of the worker *)

(* The worker over the tables it sweeps is a worker: what holds of module  *)
(* Jobs holds of the composition (maintenance.worker.js).                  *)
THEOREM Composition == MSpec => Spec
<1>1. MInit => Init
  BY DEF MInit
<1>2. [MNext]_<<vars, nvars>> => [Next]_vars
  BY DEF MNext, Next, Sweep, vars
<1> QED
  BY <1>1, <1>2, PTL DEF MSpec, Spec

(* Preferences that do not exist were never chosen; a call that may create *)
(* a notification now was allowed to at some moment.                       *)
NInv ==
  /\ NTypeOK
  /\ \A u \in Users : /\ pref[u].set = chosen[u]
                      /\ ~pref[u].exists => pref[u].set = Defaults
  /\ \A c \in Calls :
       /\ call[c].op = "create" /\ call[c].pc = "read" /\ Delivered(pref[call[c].user], call[c].type)
            => call[c].allowed
       /\ call[c].pc = "create" => call[c].allowed

LEMMA Chosen ==
  ASSUME NEW S, S # {}
  PROVE  (CHOOSE x \in S : TRUE) \in S
OBVIOUS

LEMMA IdleType ==
  /\ Idle \in Call /\ Idle.user \in Users /\ Idle.type \in Types
  /\ Idle.pc = "idle" /\ Idle.op = "none"
<1>1. /\ (CHOOSE u \in Users : TRUE) \in Users /\ (CHOOSE t \in Types : TRUE) \in Types
      /\ (CHOOSE n \in Notes : TRUE) \in Notes
  BY Chosen, NotificationsConstants
<1> QED
  BY <1>1 DEF Idle, Call

(* Sorted by what they touch: the calls, the notifications, the settings.  *)
LEMMA CallSteps ==
  ASSUME NInv, NEW c \in Calls,
         \/ createNotification(c) \/ markAsRead(c) \/ deleteNotification(c) \/ getPreferences(c)
         \/ \E u \in Users, t \in Types, n \in Notes, op \in {"create", "mark", "delete", "get"} :
              Begin(c, op, u, t, n)
  PROVE  NInv'
<1>1. UNCHANGED <<note, pref, chosen>>
  BY DEF createNotification, markAsRead, deleteNotification, getPreferences, Begin
<1>2. PICK new \in Call :
        /\ call' = [call EXCEPT ![c] = new]
        /\ new.op = "create" /\ new.pc = "read" /\ Delivered(pref[new.user], new.type) => new.allowed
        /\ new.pc = "create" => new.allowed
  <2> DEFINE Good(new) ==
        /\ call' = [call EXCEPT ![c] = new]
        /\ new.op = "create" /\ new.pc = "read" /\ Delivered(pref[new.user], new.type) => new.allowed
        /\ new.pc = "create" => new.allowed
  <2>1. CASE Answered(c)
    <3>1. Good(Idle)
      BY <2>1, IdleType DEF Answered
    <3> QED BY <3>1, IdleType
  <2>2. ASSUME NEW pc \in {"create", "mark", "delete", "prefCreate"}, Goes(c, pc),
               pc = "create" => call[c].allowed
        PROVE  \E new \in Call : Good(new)
    <3>1. [call[c] EXCEPT !.pc = pc] \in Call
      BY DEF NInv, NTypeOK, Call
    <3>2. Good([call[c] EXCEPT !.pc = pc])
      <4>1. /\ call[c] \in Call
            /\ call' = [call EXCEPT ![c] = [call[c] EXCEPT !.pc = pc]]
        BY <2>2 DEF Goes, NInv, NTypeOK
      <4>2. /\ [call[c] EXCEPT !.pc = pc].pc = pc
            /\ [call[c] EXCEPT !.pc = pc].allowed = call[c].allowed
        BY <4>1 DEF Call
      <4> QED BY <2>2, <4>1, <4>2
    <3> QED BY <3>1, <3>2
  <2>3. CASE createNotification(c)
    <3>1. \/ Answered(c)
          \/ Goes(c, "create") /\ call[c].allowed
      BY <2>3 DEF createNotification, NInv
    <3> QED BY <2>1, <2>2, <3>1
  <2>4. CASE markAsRead(c) \/ deleteNotification(c) \/ getPreferences(c)
    <3>1. Answered(c) \/ \E pc \in {"mark", "delete", "prefCreate"} : Goes(c, pc)
      BY <2>4 DEF markAsRead, deleteNotification, getPreferences
    <3> QED BY <2>1, <2>2, <3>1
  <2>5. ASSUME NEW u \in Users, NEW t \in Types, NEW n \in Notes,
               NEW op \in {"create", "mark", "delete", "get"}, Begin(c, op, u, t, n)
        PROVE  \E new \in Call : Good(new)
    <3> DEFINE new == [pc |-> "read", op |-> op, user |-> u, type |-> t, note |-> n,
                       allowed |-> Delivered(pref[u], t)]
    <3>1. Delivered(pref[u], t) \in BOOLEAN
      BY DEF Delivered
    <3>2. new \in Call
      BY <3>1 DEF Call
    <3>3. Good(new)
      BY <2>5, <3>1 DEF Begin
    <3> QED BY <3>2, <3>3
  <2> QED BY <2>1, <2>2, <2>3, <2>4, <2>5
<1>3. ASSUME NEW d \in Calls PROVE call'[d] = IF d = c THEN new ELSE call[d]
  BY <1>2 DEF NInv, NTypeOK
<1>4. NTypeOK'
  BY <1>1, <1>2 DEF NInv, NTypeOK
<1> QED
  BY <1>1, <1>2, <1>3, <1>4 DEF NInv, Delivered

LEMMA RowSteps ==
  ASSUME NInv,
         \/ \E c \in Calls : CreateNotification(c) \/ MarkAsRead(c) \/ DeleteNotification(c)
         \/ \E u \in Users : markAllAsRead(u)
         \/ cleanupNotifications
  PROVE  NInv'
<1>1. UNCHANGED <<pref, chosen>>
  BY DEF CreateNotification, MarkAsRead, DeleteNotification, markAllAsRead, cleanupNotifications
<1>2. note' \in [Notes -> Note]
  <2> USE DEF NInv, NTypeOK, Note
  <2>1. ASSUME NEW c \in Calls, CreateNotification(c) PROVE note' \in [Notes -> Note]
    BY <2>1 DEF CreateNotification, Call
  <2>2. ASSUME NEW c \in Calls, MarkAsRead(c) \/ DeleteNotification(c) PROVE note' \in [Notes -> Note]
    <3>1. note[call[c].note] \in Note /\ call[c].note \in Notes
      BY DEF Call
    <3>2. CASE MarkAsRead(c)
      <4>1. [note[call[c].note] EXCEPT !.reads = @ + 1] \in Note
        BY <3>1
      <4>2. \/ note' = note
            \/ note' = [note EXCEPT ![call[c].note] = [note[call[c].note] EXCEPT !.reads = @ + 1]]
        BY <3>1, <3>2 DEF MarkAsRead
      <4> QED BY <4>1, <4>2
    <3>3. CASE DeleteNotification(c)
      BY <3>1, <3>3 DEF DeleteNotification
    <3> QED BY <2>2, <3>2, <3>3
  <2>3. ASSUME NEW u \in Users, markAllAsRead(u) PROVE note' \in [Notes -> Note]
    BY <2>3 DEF markAllAsRead
  <2>4. CASE cleanupNotifications
    BY <2>4 DEF cleanupNotifications
  <2> QED BY <2>1, <2>2, <2>3, <2>4
<1>3. call' = call \/ \E c \in Calls : call' = [call EXCEPT ![c] = Idle]
  BY DEF CreateNotification, MarkAsRead, DeleteNotification, markAllAsRead, cleanupNotifications,
     Answered
<1>4. call' \in [Calls -> Call] /\ \A d \in Calls : call'[d] = call[d] \/ call'[d] = Idle
  BY <1>3, IdleType DEF NInv, NTypeOK
<1>5. NTypeOK'
  BY <1>1, <1>2, <1>4 DEF NInv, NTypeOK
<1> QED
  BY <1>1, <1>4, <1>5, IdleType DEF NInv, Delivered

LEMMA CreatePreferencesStep ==
  ASSUME NInv, NEW c \in Calls, CreatePreferences(c)
  PROVE  NInv'
<1> DEFINE u == call[c].user
<1>1. Defaults \in Settings
  BY DEF Defaults, Settings
<1>2. u \in Users
  BY DEF NInv, NTypeOK, Call
<1>3. /\ pref' \in [Users -> Pref]
      /\ \A v \in Users : /\ pref'[v].set = pref[v].set
                          /\ ~pref'[v].exists => ~pref[v].exists
                          /\ \A t \in Types : Delivered(pref'[v], t) => Delivered(pref[v], t)
  <2>1. CASE pref[u].exists
    BY <2>1 DEF CreatePreferences, NInv, NTypeOK
  <2>2. CASE ~pref[u].exists
    <3>1. pref' = [pref EXCEPT ![u] = [exists |-> TRUE, set |-> Defaults]]
      BY <2>2 DEF CreatePreferences
    <3>2. pref[u].set = Defaults
      BY <1>2, <2>2 DEF NInv
    <3> QED
      BY <1>1, <1>2, <2>2, <3>1, <3>2 DEF NInv, NTypeOK, Pref, Delivered
  <2> QED BY <2>1, <2>2
<1>4. call' \in [Calls -> Call] /\ \A d \in Calls : call'[d] = call[d] \/ call'[d] = Idle
  BY IdleType DEF CreatePreferences, Answered, NInv, NTypeOK
<1>5. UNCHANGED <<note, chosen>>
  BY DEF CreatePreferences
<1>6. NTypeOK'
  BY <1>3, <1>4, <1>5 DEF NInv, NTypeOK
<1>7. \A d \in Calls : call[d].user \in Users /\ call[d].type \in Types
  BY DEF NInv, NTypeOK, Call
<1> QED
  BY <1>3, <1>4, <1>5, <1>6, <1>7, IdleType DEF NInv

LEMMA UpdatePreferencesStep ==
  ASSUME NInv, NEW u \in Users, NEW inApp \in Optional(BOOLEAN),
         NEW muted \in Optional(SUBSET Types), updatePreferences(u, inApp, muted)
  PROVE  NInv'
<1> DEFINE new == [inApp |-> IF inApp = {} THEN pref[u].set.inApp ELSE CHOOSE b \in inApp : TRUE,
                   muted |-> IF muted = {} THEN pref[u].set.muted ELSE CHOOSE m \in muted : TRUE]
           p == [exists |-> TRUE, set |-> new]
<1>1. pref[u].set \in Settings /\ chosen[u] = pref[u].set
  BY DEF NInv, NTypeOK, Pref
<1>2. new \in Settings
  <2>1. inApp # {} => (CHOOSE b \in inApp : TRUE) \in BOOLEAN
    BY Chosen DEF Optional
  <2>2. muted # {} => (CHOOSE m \in muted : TRUE) \in SUBSET Types
    BY Chosen DEF Optional
  <2> QED BY <1>1, <2>1, <2>2 DEF Settings
<1>3. /\ pref' = [pref EXCEPT ![u] = p]
      /\ chosen' = [chosen EXCEPT ![u] = new]
      /\ note' = note
  <2>1. pref' = [pref EXCEPT ![u] = p] /\ note' = note
    BY DEF updatePreferences
  <2>2. chosen' = [chosen EXCEPT ![u] =
                  [inApp |-> IF inApp = {} THEN @.inApp ELSE new.inApp,
                   muted |-> IF muted = {} THEN @.muted ELSE new.muted]]
    BY DEF updatePreferences
  <2>3. [inApp |-> IF inApp = {} THEN chosen[u].inApp ELSE new.inApp,
         muted |-> IF muted = {} THEN chosen[u].muted ELSE new.muted] = new
    BY <1>1
  <2> QED BY <2>1, <2>2, <2>3
<1>4. call' = [c \in Calls |-> IF call[c].pc # "idle" /\ call[c].user = u
                              THEN [call[c] EXCEPT !.allowed = @ \/ Delivered(p, call[c].type)]
                              ELSE call[c]]
  BY DEF updatePreferences
<1>5. ASSUME NEW c \in Calls
      PROVE  /\ call'[c] \in Call /\ call'[c].pc = call[c].pc /\ call'[c].op = call[c].op
             /\ call'[c].user = call[c].user /\ call'[c].type = call[c].type
             /\ call[c].allowed => call'[c].allowed
             /\ call[c].pc # "idle" /\ call[c].user = u /\ Delivered(p, call[c].type)
                  => call'[c].allowed
  <2>1. call[c] \in Call
    BY DEF NInv, NTypeOK
  <2>2. Delivered(p, call[c].type) \in BOOLEAN
    BY DEF Delivered
  <2>3. CASE call[c].pc # "idle" /\ call[c].user = u
    <3>1. call'[c] = [call[c] EXCEPT !.allowed = call[c].allowed \/ Delivered(p, call[c].type)]
      BY <1>4, <2>3
    <3> HIDE DEF p, new
    <3> QED BY <2>1, <2>2, <3>1 DEF Call
  <2>4. CASE ~(call[c].pc # "idle" /\ call[c].user = u)
    BY <1>4, <2>1, <2>4
  <2> QED BY <2>3, <2>4
<1>6. NTypeOK'
  <2>1. pref' \in [Users -> Pref] /\ chosen' \in [Users -> Settings]
    BY <1>2, <1>3 DEF NInv, NTypeOK, Pref
  <2>2. call' \in [Calls -> Call]
    BY <1>4, <1>5
  <2> QED BY <1>3, <2>1, <2>2 DEF NInv, NTypeOK
<1>7. \A v \in Users : /\ pref'[v].set = chosen'[v]
                       /\ ~pref'[v].exists => pref'[v].set = Defaults
  BY <1>3 DEF NInv, NTypeOK
<1>8. ASSUME NEW c \in Calls
      PROVE  /\ call'[c].op = "create" /\ call'[c].pc = "read"
                /\ Delivered(pref'[call'[c].user], call'[c].type) => call'[c].allowed
             /\ call'[c].pc = "create" => call'[c].allowed
  <2>1. call[c].user \in Users
    BY DEF NInv, NTypeOK, Call
  <2>2. pref'[call[c].user] = IF call[c].user = u THEN p ELSE pref[call[c].user]
    BY <1>3, <2>1 DEF NInv, NTypeOK
  <2> HIDE DEF p, new
  <2> QED BY <1>5, <2>1, <2>2 DEF NInv
<1>9. \A c \in Calls :
       /\ call'[c].op = "create" /\ call'[c].pc = "read"
            /\ Delivered(pref[call[c].user], call[c].type)' => call'[c].allowed
       /\ call'[c].pc = "create" => call'[c].allowed
  <2> HIDE DEF p, new
  <2> QED BY <1>8 DEF Delivered
<1> HIDE DEF p, new
<1> QED
  BY <1>6, <1>7, <1>9 DEF NInv, Defaults

LEMMA NotificationsInvariance == MSpec => []NInv
<1>1. MInit => NInv
  <2> SUFFICES ASSUME NInit PROVE NInv
    BY DEF MInit
  <2>1. Defaults \in Settings
    BY DEF Defaults, Settings
  <2> QED
    BY <2>1, IdleType DEF NInit, NInv, NTypeOK, Note, Pref
<1>2. NInv /\ [MNext]_<<vars, nvars>> => NInv'
  <2>1. ASSUME NInv, NNext PROVE NInv'
    BY <2>1, CallSteps, RowSteps, CreatePreferencesStep, UpdatePreferencesStep DEF NNext
  <2>2. ASSUME NInv, cleanupNotifications PROVE NInv'
    BY <2>2, RowSteps
  <2>3. ASSUME NInv, UNCHANGED nvars PROVE NInv'
    BY <2>3 DEF nvars, NInv, NTypeOK, Delivered
  <2> QED BY <2>1, <2>2, <2>3 DEF MNext, Sweep
<1> QED
  BY <1>1, <1>2, PTL DEF MSpec

(* No notification is created that the preferences held back all through   *)
(* its call (notification.service.js, createNotification).                 *)
THEOREM MutedRespectedHolds == MSpec => []MutedRespected
<1>1. NInv => MutedRespected
  BY DEF NInv, MutedRespected
<1> QED
  BY <1>1, NotificationsInvariance, PTL

(* The stored preferences are those the user set last, whatever reads of   *)
(* missing preferences overlap (notification.service.js, getPreferences).  *)
THEOREM PreferencesKeptHolds == MSpec => []PreferencesKept
<1>1. NInv => PreferencesKept
  BY DEF NInv, PreferencesKept
<1> QED
  BY <1>1, NotificationsInvariance, PTL
=============================================================================
