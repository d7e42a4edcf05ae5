-------------------------------- MODULE Jobs --------------------------------
(***************************************************************************)
(* The queues, the worker process that drains them, the dead letters and   *)
(* the orderly end of the worker and of the API process.                   *)
(*                                                                         *)
(* BullMQ, which keeps the jobs in Redis, is external: it hands a waiting  *)
(* job to a worker, retries a failed attempt, puts a job whose worker died *)
(* back once its lock expired (stalled), and emits "failed" to the worker. *)
(* Resend, which sends the mails, is external too.  Jobs of the email      *)
(* queue are mails to send; a job of the maintenance queue is one          *)
(* occurrence of a retention sweep.                                        *)
(***************************************************************************)
EXTENDS Naturals, FiniteSets

CONSTANTS
  EmailJobs, MaintenanceJobs,
  Attempts,     \* defaultJobOptions.attempts
  MaxStalled,   \* external: how often BullMQ recovers a stalled job
  Concurrency,  \* jobs a worker runs at the same time, per queue
  MaxExits      \* bound: ends of the worker process

Jobs == EmailJobs \cup MaintenanceJobs
QUEUE_NAMES == {"email", "maintenance"}

ASSUME JobsConstants ==
  /\ EmailJobs \cap MaintenanceJobs = {}
  /\ Attempts \in Nat \ {0} /\ MaxStalled \in Nat /\ MaxExits \in Nat
  /\ Concurrency \in [QUEUE_NAMES -> Nat \ {0}]

VARIABLES
  job,        \* external: the jobs in Redis
  done,       \* external: how often each job's work was carried out
  scheduled,  \* external: the repeat jobs are registered
  proc,       \* the worker process
  api,        \* the API process
  handling,   \* jobs whose failed_jobs row is being written
  letters,    \* failed_jobs rows per job
  pruned,     \* jobs whose row the retention sweep removed
  lost,       \* history: failed jobs that got no row
  exits       \* history: ends of the worker process

vars == <<job, done, scheduled, proc, api, handling, letters, pruned, lost, exits>>

-----------------------------------------------------------------------------
(* Types *)

Queue(j) == IF j \in EmailJobs THEN "email" ELSE "maintenance"

(* made: attemptsMade.  "acted": the work is done, the job not completed.  *)
Job == [state : {"none", "waiting", "active", "acted", "stalled", "completed", "failed"},
        made : Nat, stalls : Nat]
NoJob == [state |-> "none", made |-> 0, stalls |-> 0]

Running == {"active", "acted"}

(* worker: the module variables of the two worker files; "broken" when     *)
(* worker.close() rejected.  "hung": shutdown itself rejected.             *)
Worker == {"none", "open", "closing", "closed", "broken"}
Stage == {"down", "running", "stopping", "redisClosed", "disconnected", "hung"}
Process == [stage : Stage, worker : [QUEUE_NAMES -> Worker], code : {"none", "ok", "forced"}]

(* open: endpoints that wrote their row and have a job yet to enqueue. *)
Api == [stage : {"down", "up", "draining", "drained"}, open : SUBSET EmailJobs,
        code : {"none", "ok", "forced"}]

TypeOK ==
  /\ job \in [Jobs -> Job]
  /\ done \in [Jobs -> Nat]
  /\ scheduled \in BOOLEAN
  /\ proc \in Process
  /\ api \in Api
  /\ handling \subseteq Jobs
  /\ letters \in [Jobs -> Nat]
  /\ pruned \subseteq Jobs /\ lost \subseteq Jobs
  /\ exits \in Nat

AllWorkers(w) == [q \in QUEUE_NAMES |-> w]

Init ==
  /\ job = [j \in Jobs |-> NoJob]
  /\ done = [j \in Jobs |-> 0]
  /\ scheduled = FALSE
  /\ proc = [stage |-> "down", worker |-> AllWorkers("none"), code |-> "none"]
  /\ api = [stage |-> "up", open |-> {}, code |-> "none"]
  /\ handling = {}
  /\ letters = [j \in Jobs |-> 0]
  /\ pruned = {} /\ lost = {}
  /\ exits = 0

-----------------------------------------------------------------------------
(* The API process: producers, and the end of the server *)

apiOthers == <<done, scheduled, proc, handling, letters, pruned, lost, exits>>

(* An endpoint commits its row; the mail is enqueued after it. *)
Commit(j) ==
  /\ api.stage = "up" /\ job[j].state = "none"
  /\ api' = [api EXCEPT !.open = @ \cup {j}]
  /\ UNCHANGED <<apiOthers, job>>

enqueueEmail(j) ==
  /\ api.stage \in {"up", "draining"} /\ j \in api.open
  /\ api' = [api EXCEPT !.open = @ \ {j}]
  /\ job' = [job EXCEPT ![j].state = "waiting"]
  /\ UNCHANGED apiOthers

(* queue.add rejects: the endpoint answers with an error, the row stays. *)
EnqueueFails(j) ==
  /\ api.stage \in {"up", "draining"} /\ j \in api.open
  /\ api' = [api EXCEPT !.open = @ \ {j}]
  /\ UNCHANGED <<apiOthers, job>>

(* SIGTERM, SIGINT, an unhandled rejection or exception; later ones find   *)
(* shuttingDown set and return.                                            *)
ServerShutdown ==
  /\ api.stage = "up"
  /\ api' = [api EXCEPT !.stage = "draining"]
  /\ UNCHANGED <<apiOthers, job>>

(* server.close calls back once no connection is left. *)
ServerClosed ==
  /\ api.stage = "draining" /\ api.open = {}
  /\ api' = [api EXCEPT !.stage = "drained"]
  /\ UNCHANGED <<apiOthers, job>>

ServerExit ==
  /\ api.stage = "drained"
  /\ api' = [stage |-> "down", open |-> {}, code |-> "ok"]
  /\ UNCHANGED <<apiOthers, job>>

ServerForceExit ==
  /\ api.stage \in {"draining", "drained"}
  /\ api' = [stage |-> "down", open |-> {}, code |-> "forced"]
  /\ UNCHANGED <<apiOthers, job>>

ServerStart ==
  /\ api.stage = "down"
  /\ api' = [stage |-> "up", open |-> {}, code |-> "none"]
  /\ UNCHANGED <<apiOthers, job>>

-----------------------------------------------------------------------------
(* The worker process: start, schedule, jobs *)

startWorkers ==
  /\ proc.stage = "down"
  /\ proc' = [stage |-> "running", worker |-> AllWorkers("open"), code |-> "none"]
  /\ UNCHANGED <<job, done, scheduled, api, handling, letters, pruned, lost, exits>>

(* Repeat jobs have stable ids, so that a restart registers nothing new;   *)
(* a failure is logged and the process goes on.                            *)
scheduleCleanups ==
  /\ proc.stage = "running" /\ ~scheduled
  /\ scheduled' = TRUE
  /\ UNCHANGED <<job, done, proc, api, handling, letters, pruned, lost, exits>>

(* external: the cron pattern of a registered repeat job is due. *)
CronTick(j) ==
  /\ scheduled /\ job[j].state = "none"
  /\ job' = [job EXCEPT ![j].state = "waiting"]
  /\ UNCHANGED <<done, scheduled, proc, api, handling, letters, pruned, lost, exits>>

RedisUp == proc.stage \in {"running", "stopping"}

Take(j) ==
  /\ RedisUp /\ proc.worker[Queue(j)] = "open"
  /\ job[j].state = "waiting"
  /\ Cardinality({k \in Jobs : Queue(k) = Queue(j) /\ job[k].state \in Running})
       < Concurrency[Queue(j)]
  /\ job' = [job EXCEPT ![j].state = "active"]
  /\ UNCHANGED <<done, scheduled, proc, api, handling, letters, pruned, lost, exits>>

(* Mutant: the switch has no case for the job's name and falls through.    *)
processEmailJobUnknown(j) ==
  /\ job[j].state = "active" /\ proc.stage # "down"
  /\ job' = [job EXCEPT ![j].state = "acted"]
  /\ UNCHANGED <<done, scheduled, proc, api, handling, letters, pruned, lost, exits>>

(* processEmailJob sends the mail of the job's name.                       *)
processEmailJob(j) ==
  /\ job[j].state = "active" /\ proc.stage # "down"
  /\ job' = [job EXCEPT ![j].state = "acted"]
  /\ done' = [done EXCEPT ![j] = @ + 1]
  /\ UNCHANGED <<scheduled, proc, api, handling, letters, pruned, lost, exits>>

(* cleanupFailedJobs removes the rows older than the retention period; the *)
(* other sweeps concern tables of other modules.                           *)
processMaintenanceJob(j) ==
  /\ job[j].state = "active" /\ proc.stage # "down"
  /\ job' = [job EXCEPT ![j].state = "acted"]
  /\ done' = [done EXCEPT ![j] = @ + 1]
  /\ \E old \in SUBSET {k \in Jobs : letters[k] > 0} :
       /\ letters' = [k \in Jobs |-> IF k \in old THEN 0 ELSE letters[k]]
       /\ pruned' = pruned \cup old
  /\ UNCHANGED <<scheduled, proc, api, handling, lost, exits>>

Complete(j) ==
  /\ job[j].state = "acted" /\ RedisUp
  /\ job' = [job EXCEPT ![j].state = "completed"]
  /\ UNCHANGED <<done, scheduled, proc, api, handling, letters, pruned, lost, exits>>

(* Mutant: only a job with more attempts than it may have is exhausted. *)
exhaustedStrict(made) == made > Attempts

(* Mutant: every failed attempt is a permanent failure. *)
exhaustedAlways(made) == TRUE

exhausted(made) == made >= Attempts

(* The "failed" listener.  A job with attempts left is not recorded; the   *)
(* row of another is written, and nobody awaits it.                        *)
handleJobFailure(j, made) ==
  handling' = IF exhausted(made) THEN handling \cup {j} ELSE handling

(* The attempt throws: Resend answered with an error, or its answer was    *)
(* lost after it took the mail.  BullMQ retries or gives up, and emits     *)
(* "failed" in both cases.                                                 *)
FailAttempt(j) ==
  LET made == job[j].made + 1 IN
  /\ job[j].state = "active" /\ RedisUp
  /\ job' = [job EXCEPT ![j].made = made,
                        ![j].state = IF made >= Attempts THEN "failed" ELSE "waiting"]
  /\ \E n \in {0, 1} : done' = [done EXCEPT ![j] = @ + n]
  /\ handleJobFailure(j, made)
  /\ UNCHANGED <<scheduled, proc, api, letters, pruned, lost, exits>>

(* external: a worker finds the lock of a job expired and puts it back.    *)
Recover(j) ==
  /\ job[j].state = "stalled" /\ proc.stage = "running" /\ job[j].stalls < MaxStalled
  /\ job' = [job EXCEPT ![j].state = "waiting", ![j].stalls = @ + 1]
  /\ UNCHANGED <<done, scheduled, proc, api, handling, letters, pruned, lost, exits>>

(* external: beyond the limit BullMQ gives the job up, whatever attempts   *)
(* it has left; a job that has some is not recorded.                       *)
GiveUpStalled(j) ==
  LET made == job[j].made + 1 IN
  /\ job[j].state = "stalled" /\ proc.stage = "running" /\ job[j].stalls >= MaxStalled
  /\ job' = [job EXCEPT ![j].state = "failed", ![j].made = made]
  /\ handleJobFailure(j, made)
  /\ lost' = IF made < Attempts THEN lost \cup {j} ELSE lost
  /\ UNCHANGED <<done, scheduled, proc, api, letters, pruned, exits>>

-----------------------------------------------------------------------------
(* The dead letter of a job: prisma.failedJob.create *)

WriteLetter(j) ==
  /\ j \in handling
  /\ handling' = handling \ {j}
  /\ letters' = [letters EXCEPT ![j] = @ + 1]
  /\ UNCHANGED <<job, done, scheduled, proc, api, pruned, lost, exits>>

(* The error is logged: the job is gone from the queue all the same. *)
WriteLetterFails(j) ==
  /\ j \in handling
  /\ handling' = handling \ {j}
  /\ lost' = lost \cup {j}
  /\ UNCHANGED <<job, done, scheduled, proc, api, letters, pruned, exits>>

-----------------------------------------------------------------------------
(* The end of the worker process *)

others == <<done, scheduled, api, letters, pruned>>

shutdown ==
  /\ proc.stage = "running"
  /\ proc' = [proc EXCEPT !.stage = "stopping", !.worker = AllWorkers("closing")]
  /\ UNCHANGED <<others, job, handling, lost, exits>>

(* Mutant: close is called and not awaited. *)
stopWorkerNow(q) ==
  /\ proc.stage = "stopping" /\ proc.worker[q] = "closing"
  /\ proc' = [proc EXCEPT !.worker[q] = "closed"]
  /\ UNCHANGED <<others, job, handling, lost, exits>>

(* worker.close() takes no new job and waits for the running ones. *)
stopWorker(q) ==
  /\ proc.stage = "stopping" /\ proc.worker[q] = "closing"
  /\ \A j \in Jobs : Queue(j) = q => job[j].state \notin Running
  /\ proc' = [proc EXCEPT !.worker[q] = "closed"]
  /\ UNCHANGED <<others, job, handling, lost, exits>>

StopWorkerFails(q) ==
  /\ proc.stage = "stopping" /\ proc.worker[q] = "closing"
  /\ proc' = [proc EXCEPT !.worker[q] = "broken"]
  /\ UNCHANGED <<others, job, handling, lost, exits>>

closeRedisConnection ==
  /\ proc.stage = "stopping"
  /\ \A q \in QUEUE_NAMES : proc.worker[q] \in {"closed", "broken"}
  /\ proc' = [proc EXCEPT !.stage = "redisClosed"]
  /\ UNCHANGED <<others, job, handling, lost, exits>>

Disconnect ==
  /\ proc.stage = "redisClosed"
  /\ proc' = [proc EXCEPT !.stage = "disconnected"]
  /\ UNCHANGED <<others, job, handling, lost, exits>>

(* quit() or $disconnect() rejects: shutdown ends there, and the listener  *)
(* for unhandled rejections calls a shutdown that returns at once.         *)
ShutdownRejects ==
  /\ \/ proc.stage = "stopping" /\ \A q \in QUEUE_NAMES : proc.worker[q] \in {"closed", "broken"}
     \/ proc.stage = "redisClosed"
  /\ proc' = [proc EXCEPT !.stage = "hung"]
  /\ UNCHANGED <<others, job, handling, lost, exits>>

(* What the process leaves behind: its running jobs keep their locks until *)
(* they expire, and the failures it was handling are forgotten.            *)
Ended(code) ==
  /\ proc' = [stage |-> "down", worker |-> AllWorkers("none"), code |-> code]
  /\ job' = [j \in Jobs |-> IF job[j].state \in Running
                            THEN [job[j] EXCEPT !.state = "stalled"] ELSE job[j]]
  /\ handling' = {}
  /\ lost' = lost \cup handling
  /\ exits' = exits + 1
  /\ UNCHANGED others

Exit == proc.stage = "disconnected" /\ Ended("ok")

(* Mutant: the timer is cleared as soon as the workers are closed. *)
forceExitCleared == proc.stage = "stopping" /\ Ended("forced")

(* The ten seconds of forceExit are over. *)
forceExit == proc.stage \notin {"down", "running"} /\ Ended("forced")

(* The process is killed. *)
Crash == proc.stage # "down" /\ exits < MaxExits /\ Ended("forced")

-----------------------------------------------------------------------------

ShutDownOnce == shutdown /\ exits < MaxExits

WorkerNext ==
  \/ startWorkers \/ scheduleCleanups
  \/ ShutDownOnce \/ closeRedisConnection \/ Disconnect \/ ShutdownRejects
  \/ Exit \/ forceExit \/ Crash
  \/ \E q \in QUEUE_NAMES : stopWorker(q) \/ StopWorkerFails(q)

JobNext(j) ==
  \/ Take(j) \/ Complete(j) \/ FailAttempt(j) \/ Recover(j) \/ GiveUpStalled(j)
  \/ WriteLetter(j) \/ WriteLetterFails(j)

ApiNext ==
  \/ ServerShutdown \/ ServerClosed \/ ServerExit \/ ServerForceExit \/ ServerStart
  \/ \E j \in EmailJobs : Commit(j) \/ enqueueEmail(j) \/ EnqueueFails(j)

(* All steps but the sweeps, which module Maintenance composes with the    *)
(* tables they sweep.                                                      *)
QueueNext ==
  \/ ApiNext \/ WorkerNext
  \/ \E j \in Jobs : JobNext(j)
  \/ \E j \in EmailJobs : processEmailJob(j)
  \/ \E j \in MaintenanceJobs : CronTick(j)

Next == QueueNext \/ \E j \in MaintenanceJobs : processMaintenanceJob(j)

(* The worker process is supervised and the event loop serves every        *)
(* callback; nothing is assumed of clients, cron, signals and failures.    *)
Fairness ==
  /\ WF_vars(startWorkers) /\ WF_vars(forceExit) /\ WF_vars(ServerForceExit)
  /\ \A j \in Jobs :
       /\ WF_vars(Take(j)) /\ WF_vars(Complete(j)) /\ WF_vars(Recover(j) \/ GiveUpStalled(j))
       /\ WF_vars(WriteLetter(j) \/ WriteLetterFails(j))
  /\ \A j \in EmailJobs : WF_vars(processEmailJob(j) \/ FailAttempt(j))
  /\ \A j \in MaintenanceJobs : WF_vars(processMaintenanceJob(j) \/ FailAttempt(j))

Spec == Init /\ [][Next]_vars
FairSpec == Spec /\ Fairness

-----------------------------------------------------------------------------
(* Properties *)

(* A job that was given up has its row in failed_jobs, or the row is being *)
(* written, or was removed by its retention sweep, or is one of the lost:  *)
(* the write failed, the process ended before it, or the job was given up  *)
(* for stalling.  No job has two rows, and none has one while it may yet   *)
(* run (deadLetter.js).                                                    *)
DeadLetters ==
  \A j \in Jobs :
    /\ job[j].state = "failed" => letters[j] = 1 \/ j \in handling \cup pruned \cup lost
    /\ letters[j] <= 1
    /\ letters[j] = 1 \/ j \in handling => job[j].state = "failed" /\ job[j].made >= Attempts

(* A job that is completed was carried out, and retries and recoveries     *)
(* together carry no job out more often than the attempts and the          *)
(* recoveries a job may have (email.worker.js, queues.js).                 *)
CarriedOut ==
  \A j \in Jobs :
    /\ job[j].state = "completed" => done[j] >= 1
    /\ done[j] <= Attempts + MaxStalled

(* An exit with code 0 leaves no job behind that its process was running,  *)
(* unless a worker could not be closed (worker.js); the API leaves no      *)
(* endpoint between its row and its job (server.js).                       *)
OrderlyExit ==
  [][/\ proc'.code = "ok" /\ proc.code # "ok" =>
          \A j \in Jobs : job[j].state \in Running => proc.worker[Queue(j)] = "broken"
     /\ api'.code = "ok" /\ api.code # "ok" => api.open = {}]_vars

(* Both processes end once they were told to, however their connections    *)
(* and jobs behave (the timers of worker.js and server.js).                *)
ShutdownEnds ==
  /\ proc.stage \notin {"down", "running"} ~> proc.stage = "down"
  /\ api.stage \in {"draining", "drained"} ~> api.stage = "down"

(* The queues deliver what module Delivery promises. *)
status ==
  [j \in Jobs |->
     IF job[j].state = "none" THEN "none"
     ELSE IF job[j].state = "completed" THEN "done"
     ELSE IF letters[j] > 0 \/ j \in pruned THEN "dead"
     ELSE IF j \in lost THEN "lost"
     ELSE "pending"]
effect == {j \in Jobs : done[j] > 0}
Promise == INSTANCE Delivery WITH Jobs <- Jobs, status <- status, effect <- effect
Delivers == Promise!Spec
=============================================================================
