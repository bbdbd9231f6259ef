--------------------------- MODULE AutomationQueue ---------------------------
(***************************************************************************)
(* The automation queue: job rows in the database, and in every worker     *)
(* process an in-memory set of armed timers, a counter of running jobs and *)
(* a poll that re-arms what is due.  The API routes create, cancel and     *)
(* retry jobs; an operator may declare a running job stale.                *)
(*                                                                         *)
(* A step ends where the code awaits the database or the executor.         *)
(***************************************************************************)
EXTENDS Integers, FiniteSets

CONSTANTS
    NumJobs,       \* jobs are numbered in the order of createdAt
    Procs,         \* processes that started the automation worker
    Runs,          \* slots for the activations of runAutomationJob
    NoProc,
    Limit,         \* AUTOMATION_MAX_CONCURRENCY
    MaxVersion,    \* bound on revocations of the user's sessions
    MaxActs,       \* bound on cancels, retries, stale-job recoveries and stops
    MaxFaults      \* bound on crashes and database faults

ASSUME BoundAssumption ==
    /\ NumJobs \in Nat \ {0}
    /\ Limit \in Nat \ {0}
    /\ MaxVersion \in Nat /\ MaxActs \in Nat /\ MaxFaults \in Nat
    /\ NoProc \notin Procs

Jobs == 1..NumJobs

VARIABLES
    status,      \* status[j]: column status, "none" before the insert
    timed,       \* jobs whose scheduledAt is set
    early,       \* jobs whose scheduledAt lies in the future
    gated,       \* completed jobs whose receipt asks for a signed-in session
    logged,      \* jobs that carry the auto-recovery log line
    jobVer,      \* jobVer[j]: column authorizationVersion
    userVer,     \* the user's sessionVersion
    canceling,   \* jobs a cancel request has read and found cancelable
    stage,       \* stage[p]: life of the worker in p
    queued,      \* queued[p]: queuedJobs, each with its timer armed
    running,     \* running[p]: the counter runningJobs
    poll,        \* poll[p]: the poll in progress
    run,         \* run[x]: the activation in slot x
    overlap,     \* history: jobs retried while a run still worked on them
    acts, faults

dbVars   == <<status, timed, early, gated, logged, jobVer, userVer>>
procVars == <<stage, queued, running, poll, run>>
budget   == <<acts, faults>>
vars     == <<dbVars, canceling, procVars, overlap, budget>>

Statuses == {"none", "scheduled", "pending", "running", "completed", "failed", "canceled"}
Finished == {"completed", "failed", "canceled"}
RunStages == {"free", "read", "auth", "claim", "reread", "reauth", "exec",
              "log", "fail"}
\* Between runningJobs += 1 and the finally block.
Counted == RunStages \ {"free", "read"}
\* The run has claimed its job and has not written the outcome yet.
Working == {"reread", "reauth", "exec"}

FreeRun == [at |-> "free", proc |-> NoProc, job |-> 1, ver |-> 0]
NoPoll  == [at |-> "none", slots |-> 0, todo |-> {}, cur |-> {}]

Accepting(p) == stage[p] \in {"starting", "up"}
RunsOf(p) == {x \in Runs : run[x].proc = p}
WorksOn(x, j) == run[x].at \in Working /\ run[x].job = j
Due(j) == status[j] \in {"pending", "scheduled"} /\ j \notin early

Faulty == faults < MaxFaults /\ faults' = faults + 1
Act    == acts < MaxActs /\ acts' = acts + 1

\* enqueueAutomationJob in process p: refused unless accepting, idempotent.
Enqueued(p, js) == [queued EXCEPT ![p] = IF Accepting(p) THEN @ \cup js ELSE @]

Move(x, at) == run' = [run EXCEPT ![x].at = at]

\* The finally block: the counter goes down and the activation is over.
EndRun(x) ==
    /\ run' = [run EXCEPT ![x] = FreeRun]
    /\ running' = [running EXCEPT ![run[x].proc] = @ - 1]

-----------------------------------------------------------------------------

Init ==
    /\ status = [j \in Jobs |-> "none"]
    /\ timed = {} /\ early = {} /\ gated = {} /\ logged = {}
    /\ jobVer = [j \in Jobs |-> 0]
    /\ userVer = 0
    /\ canceling = {}
    /\ stage = [p \in Procs |-> "off"]
    /\ queued = [p \in Procs |-> {}]
    /\ running = [p \in Procs |-> 0]
    /\ poll = [p \in Procs |-> NoPoll]
    /\ run = [x \in Runs |-> FreeRun]
    /\ overlap = {}
    /\ acts = 0 /\ faults = 0

-----------------------------------------------------------------------------
(* The routes.  A request is served by some process p.                     *)

\* POST /automation/jobs, for now or for later.
Create(p, j, later) ==
    /\ status[j] = "none"
    /\ \A i \in 1..(j - 1) : status[i] # "none"
    /\ status' = [status EXCEPT ![j] = IF later THEN "scheduled" ELSE "pending"]
    /\ jobVer' = [jobVer EXCEPT ![j] = userVer]
    /\ timed' = IF later THEN timed \cup {j} ELSE timed
    /\ early' = IF later THEN early \cup {j} ELSE early
    /\ queued' = Enqueued(p, {j})
    /\ UNCHANGED <<gated, logged, userVer, canceling, stage, running, poll, run, overlap, budget>>

\* scheduledAt passes.
FallDue(j) ==
    /\ j \in early
    /\ early' = early \ {j}
    /\ UNCHANGED <<status, timed, gated, logged, jobVer, userVer, canceling,
                   procVars, overlap, budget>>

\* POST .../cancel reads the job and refuses running and completed ones ...
CancelRead(j) ==
    /\ status[j] \in Statuses \ {"none", "running", "completed"}
    /\ j \notin canceling
    /\ Act
    /\ canceling' = canceling \cup {j}
    /\ UNCHANGED <<dbVars, procVars, overlap, faults>>

\* ... and then updates the row by its id alone.
CancelWrite(j) ==
    /\ j \in canceling
    /\ status' = [status EXCEPT ![j] = "canceled"]
    /\ canceling' = canceling \ {j}
    /\ UNCHANGED <<timed, early, gated, logged, jobVer, userVer, procVars, overlap, budget>>

\* The row as retry and the auto-recovery leave it.
Reset(j) ==
    /\ status' = [status EXCEPT ![j] = "pending"]
    /\ timed' = timed \ {j}
    /\ early' = early \ {j}
    /\ gated' = gated \ {j}

\* POST .../retry, or retry_failed_job of the recovery route: the update is
\* guarded by the finished status it read.  Capture recovery's claim token,
\* the other guard, is CaptureRecovery's subject.
Retry(p, j) ==
    /\ status[j] \in Finished
    /\ Act
    /\ Reset(j)
    /\ jobVer' = [jobVer EXCEPT ![j] = userVer]
    /\ queued' = Enqueued(p, {j})
    /\ overlap' = IF \E x \in Runs : WorksOn(x, j) THEN overlap \cup {j} ELSE overlap
    /\ UNCHANGED <<logged, userVer, canceling, stage, running, poll, run, faults>>

\* recover_stale_running_job: a job that runs for long is declared failed.
RecoverStale(j) ==
    /\ status[j] = "running"
    /\ Act
    /\ status' = [status EXCEPT ![j] = "failed"]
    /\ UNCHANGED <<timed, early, gated, logged, jobVer, userVer, canceling,
                   procVars, overlap, faults>>

\* The user's sessions are revoked: sessionVersion moves on.
Revoke ==
    /\ userVer < MaxVersion
    /\ userVer' = userVer + 1
    /\ UNCHANGED <<status, timed, early, gated, logged, jobVer, canceling,
                   procVars, overlap, budget>>

-----------------------------------------------------------------------------
(* runAutomationJob.                                                       *)

\* The timer of j fires.  At the limit the job is armed again, which changes
\* nothing; below it the activation goes on to read the row.
Launch(p, j, x) ==
    /\ Accepting(p) /\ j \in queued[p]
    /\ running[p] < Limit
    /\ run[x].at = "free"
    /\ queued' = [queued EXCEPT ![p] = @ \ {j}]
    /\ run' = [run EXCEPT ![x] = [at |-> "read", proc |-> p, job |-> j, ver |-> 0]]
    /\ UNCHANGED <<dbVars, canceling, stage, running, poll, overlap, budget>>

\* The row is read: a finished job is left alone, an early one armed again,
\* and only now does the activation count as running.
ReadJob(x) ==
    LET j == run[x].job
        p == run[x].proc IN
    /\ run[x].at = "read"
    /\ \/ /\ status[j] \in Finished
          /\ run' = [run EXCEPT ![x] = FreeRun]
          /\ UNCHANGED <<queued, running>>
       \/ /\ status[j] \notin Finished /\ j \in early
          /\ queued' = Enqueued(p, {j})
          /\ run' = [run EXCEPT ![x] = FreeRun]
          /\ UNCHANGED running
       \/ /\ status[j] \notin Finished /\ j \notin early
          /\ running' = [running EXCEPT ![p] = @ + 1]
          /\ run' = [run EXCEPT ![x].at = "auth", ![x].ver = jobVer[j]]
          /\ UNCHANGED queued
    /\ UNCHANGED <<dbVars, canceling, stage, poll, overlap, budget>>

\* assertDurableAuthorization, before and after the claim.
Authorize(x) ==
    /\ run[x].at \in {"auth", "reauth"}
    /\ Move(x, IF run[x].ver # userVer THEN "fail"
               ELSE IF run[x].at = "auth" THEN "claim" ELSE "exec")
    /\ UNCHANGED <<dbVars, canceling, stage, queued, running, poll, overlap, budget>>

\* Mutant of Claim: the row was read before, so it is updated by its id.
ClaimById(x) ==
    /\ run[x].at = "claim"
    /\ status' = [status EXCEPT ![run[x].job] = "running"]
    /\ Move(x, "reread")
    /\ UNCHANGED <<running, timed, early, gated, logged, jobVer, userVer, canceling,
                   stage, queued, poll, overlap, budget>>

\* Mutant of Claim: the lost claim returns past the finally block.
ClaimLeak(x) ==
    LET j == run[x].job IN
    /\ run[x].at = "claim"
    /\ IF Due(j)
       THEN status' = [status EXCEPT ![j] = "running"] /\ Move(x, "reread")
       ELSE run' = [run EXCEPT ![x] = FreeRun] /\ UNCHANGED status
    /\ UNCHANGED <<running, timed, early, gated, logged, jobVer, userVer, canceling,
                   stage, queued, poll, overlap, budget>>

\* The claim's UPDATE ... WHERE status IN (pending, scheduled) and due.
Claim(x) ==
    LET j == run[x].job IN
    /\ run[x].at = "claim"
    /\ IF Due(j)
       THEN /\ status' = [status EXCEPT ![j] = "running"]
            /\ Move(x, "reread")
            /\ UNCHANGED running
       ELSE EndRun(x) /\ UNCHANGED status
    /\ UNCHANGED <<timed, early, gated, logged, jobVer, userVer, canceling,
                   stage, queued, poll, overlap, budget>>

Reread(x) ==
    /\ run[x].at = "reread"
    /\ run' = [run EXCEPT ![x].at = "reauth", ![x].ver = jobVer[run[x].job]]
    /\ UNCHANGED <<dbVars, canceling, stage, queued, running, poll, overlap, budget>>

\* executeAutomationJob throws.
ExecuteThrows(x) ==
    /\ run[x].at = "exec"
    /\ Move(x, "fail")
    /\ UNCHANGED <<dbVars, canceling, stage, queued, running, poll, overlap, budget>>

\* It returns, and UPDATE ... WHERE status = 'running' records the result.  A
\* browser task may report a gate.
Complete(x) ==
    LET j == run[x].job IN
    /\ run[x].at = "exec"
    /\ IF status[j] = "running"
       THEN /\ status' = [status EXCEPT ![j] = "completed"]
            /\ gated' \in {gated, gated \cup {j}}
       ELSE UNCHANGED <<status, gated>>
    /\ Move(x, "log")
    /\ UNCHANGED <<timed, early, logged, jobVer, userVer, canceling, stage,
                   queued, running, poll, overlap, budget>>

\* The closing log line is written and the activation ends.
CloseRun(x) ==
    /\ run[x].at = "log"
    /\ EndRun(x)
    /\ UNCHANGED <<dbVars, canceling, stage, queued, poll, overlap, budget>>

\* Any database call of the try block throws; a claim or a completion may
\* have committed all the same.
RunFault(x) ==
    LET j == run[x].job IN
    /\ run[x].at \in Counted \ {"fail"}
    /\ Faulty
    /\ Move(x, "fail")
    /\ \/ UNCHANGED status
       \/ run[x].at = "claim" /\ Due(j) /\ status' = [status EXCEPT ![j] = "running"]
       \/ run[x].at = "exec" /\ status[j] = "running"
          /\ status' = [status EXCEPT ![j] = "completed"]
    /\ UNCHANGED <<timed, early, gated, logged, jobVer, userVer, canceling, stage,
                   queued, running, poll, overlap, acts>>

\* Mutant of Fail: the failure is written by id.
FailById(x) ==
    /\ run[x].at = "fail"
    /\ status' = [status EXCEPT ![run[x].job] = "failed"]
    /\ EndRun(x)
    /\ UNCHANGED <<timed, early, gated, logged, jobVer, userVer, canceling, stage,
                   queued, poll, overlap, budget>>

\* The catch block: UPDATE ... WHERE status <> 'canceled', then finally.
Fail(x) ==
    LET j == run[x].job IN
    /\ run[x].at = "fail"
    /\ status' = [status EXCEPT ![j] = IF @ = "canceled" THEN @ ELSE "failed"]
    /\ EndRun(x)
    /\ UNCHANGED <<timed, early, gated, logged, jobVer, userVer, canceling, stage,
                   queued, poll, overlap, budget>>

\* The read before the try block, or the update in the catch block, throws:
\* the activation rejects.
RunRejects(x) ==
    /\ run[x].at \in {"read", "fail"}
    /\ Faulty
    /\ IF run[x].at = "fail" THEN EndRun(x)
       ELSE run' = [run EXCEPT ![x] = FreeRun] /\ UNCHANGED running
    /\ UNCHANGED <<dbVars, canceling, stage, queued, poll, overlap, acts>>

-----------------------------------------------------------------------------
(* enqueueDueAutomationJobs and the life of the worker.                    *)

\* startAutomationWorker; its first poll follows at once.
Start(p) ==
    /\ stage[p] = "off"
    /\ stage' = [stage EXCEPT ![p] = "starting"]
    /\ UNCHANGED <<dbVars, canceling, queued, running, poll, run, overlap, budget>>

\* The slots are counted, then the recoverable browser tasks are read.
PollStart(p) ==
    /\ Accepting(p) /\ poll[p].at = "none"
    /\ running[p] < Limit
    /\ poll' = [poll EXCEPT ![p] =
                  [at |-> "requeue", slots |-> Limit - running[p],
                   todo |-> {j \in gated : status[j] = "completed" /\ j \notin logged},
                   cur |-> {}]]
    /\ UNCHANGED <<dbVars, canceling, stage, queued, running, run, overlap, budget>>

\* A task of that list is reset if it is completed now, whatever its result.
RequeueReset(p, j) ==
    /\ poll[p].at = "requeue" /\ j \in poll[p].todo /\ poll[p].slots > 0
    /\ \/ /\ status[j] = "completed"
          /\ Reset(j)
          /\ poll' = [poll EXCEPT ![p].at = "requeueLog", ![p].todo = @ \ {j}, ![p].cur = {j}]
       \/ /\ status[j] # "completed"
          /\ poll' = [poll EXCEPT ![p].todo = @ \ {j}]
          /\ UNCHANGED <<status, timed, early, gated>>
    /\ UNCHANGED <<logged, jobVer, userVer, canceling, stage, queued, running, run,
                   overlap, budget>>

\* The log line that forbids another auto-recovery, then the timer.
RequeueLog(p) ==
    /\ poll[p].at = "requeueLog"
    /\ logged' = logged \cup poll[p].cur
    /\ queued' = Enqueued(p, poll[p].cur)
    /\ poll' = [poll EXCEPT ![p].at = "requeue", ![p].slots = @ - 1, ![p].cur = {}]
    /\ UNCHANGED <<status, timed, early, gated, jobVer, userVer, canceling, stage,
                   running, run, overlap, budget>>

\* ORDER BY scheduledAt, createdAt: nulls come last.
Before(i, j) == \/ i \in timed /\ j \notin timed
                \/ (i \in timed <=> j \in timed) /\ i < j

\* Mutant of PollSelect: only pending jobs are selected, not scheduled ones.
PollSelectPending(p) ==
    /\ poll[p].at = "requeue" /\ (poll[p].todo = {} \/ poll[p].slots = 0)
    /\ queued' = Enqueued(p, {j \in Jobs : Due(j) /\ status[j] = "pending"})
    /\ poll' = [poll EXCEPT ![p] = NoPoll]
    /\ stage' = [stage EXCEPT ![p] = IF @ = "starting" THEN "up" ELSE @]
    /\ UNCHANGED <<dbVars, canceling, running, run, overlap, budget>>

\* The oldest due jobs, as many as there are slots left, are armed.
PollSelect(p) ==
    LET due == {j \in Jobs : Due(j)}
        first == {j \in due : Cardinality({i \in due : Before(i, j)}) < poll[p].slots} IN
    /\ poll[p].at = "requeue" /\ (poll[p].todo = {} \/ poll[p].slots = 0)
    /\ queued' = Enqueued(p, first)
    /\ poll' = [poll EXCEPT ![p] = NoPoll]
    /\ stage' = [stage EXCEPT ![p] = IF @ = "starting" THEN "up" ELSE @]
    /\ UNCHANGED <<dbVars, canceling, running, run, overlap, budget>>

\* A query of the poll throws.  A failing first poll makes the start fail; the
\* one that the stop function awaits makes the stop reject, and then it does not
\* come to await the runs.
PollFault(p) ==
    /\ poll[p].at # "none"
    /\ Faulty
    /\ poll' = [poll EXCEPT ![p] = NoPoll]
    /\ \/ /\ stage[p] = "starting"
          /\ stage' = [stage EXCEPT ![p] = "failed"]
          /\ queued' = [queued EXCEPT ![p] = {}]
       \/ /\ stage[p] = "up"
          /\ UNCHANGED <<stage, queued>>
       \/ /\ stage[p] = "draining"
          /\ stage' = [stage EXCEPT ![p] = "aborted"]
          /\ UNCHANGED queued
    /\ UNCHANGED <<dbVars, canceling, running, run, overlap, acts>>

\* The stop function: no more timers ...
StopBegin(p) ==
    /\ stage[p] = "up"
    /\ Act
    /\ stage' = [stage EXCEPT ![p] = "draining"]
    /\ queued' = [queued EXCEPT ![p] = {}]
    /\ UNCHANGED <<dbVars, canceling, running, poll, run, overlap, faults>>

\* Mutant of StopEnd: the poll is awaited, the runs are not.
StopEndAtOnce(p) ==
    /\ stage[p] = "draining"
    /\ poll[p].at = "none"
    /\ stage' = [stage EXCEPT ![p] = "stopped"]
    /\ UNCHANGED <<dbVars, canceling, queued, running, poll, run, overlap, budget>>

\* ... and it returns when the poll has succeeded and every run has settled.
StopEnd(p) ==
    /\ stage[p] = "draining"
    /\ poll[p].at = "none" /\ RunsOf(p) = {}
    /\ stage' = [stage EXCEPT ![p] = "stopped"]
    /\ UNCHANGED <<dbVars, canceling, queued, running, poll, run, overlap, budget>>

\* The process is gone with its timers, its counter and its runs.
Vanish(p) ==
    /\ stage' = [stage EXCEPT ![p] = "off"]
    /\ queued' = [queued EXCEPT ![p] = {}]
    /\ running' = [running EXCEPT ![p] = 0]
    /\ poll' = [poll EXCEPT ![p] = NoPoll]
    /\ run' = [x \in Runs |-> IF run[x].proc = p THEN FreeRun ELSE run[x]]
    /\ UNCHANGED <<dbVars, canceling, overlap, acts>>

\* After a start that failed, and after a stop that returned or rejected, the
\* process exits.
Exit(p) ==
    /\ stage[p] \in {"stopped", "aborted", "failed"}
    /\ Vanish(p)
    /\ UNCHANGED faults

Crash(p) ==
    /\ stage[p] # "off"
    /\ Faulty
    /\ Vanish(p)

-----------------------------------------------------------------------------

JobStep(j) ==
    \/ \E p \in Procs, later \in BOOLEAN : Create(p, j, later)
    \/ FallDue(j) \/ CancelRead(j) \/ CancelWrite(j) \/ RecoverStale(j)
    \/ \E p \in Procs : Retry(p, j)

\* What a run does next when nothing goes wrong.
Proceed(x) ==
    \/ ReadJob(x) \/ Authorize(x) \/ Claim(x) \/ Reread(x)
    \/ ExecuteThrows(x) \/ Complete(x) \/ CloseRun(x) \/ Fail(x)

PollStep(p) ==
    \/ PollStart(p) \/ RequeueLog(p) \/ PollSelect(p)
    \/ \E j \in Jobs : RequeueReset(p, j)

LaunchStep(p, j) == \E x \in Runs : Launch(p, j, x)

Next ==
    \/ \E j \in Jobs : JobStep(j)
    \/ \E x \in Runs : Proceed(x) \/ RunFault(x) \/ RunRejects(x)
    \/ \E p \in Procs :
          \/ PollStep(p) \/ \E j \in Jobs : LaunchStep(p, j)
          \/ Start(p) \/ PollFault(p) \/ StopBegin(p) \/ StopEnd(p) \/ Exit(p) \/ Crash(p)
    \/ Revoke

Spec == Init /\ [][Next]_vars

\* Time passes, runs and timers go on, workers poll and are restarted.
Fairness ==
    /\ \A j \in Jobs : WF_vars(FallDue(j))
    /\ \A x \in Runs : WF_vars(Proceed(x))
    /\ \A p \in Procs :
        /\ WF_vars(Start(p)) /\ WF_vars(StopEnd(p)) /\ WF_vars(Exit(p))
        /\ WF_vars(PollStep(p))
        /\ \A j \in Jobs : WF_vars(LaunchStep(p, j))

FairSpec == Spec /\ Fairness

-----------------------------------------------------------------------------
(* Properties.                                                             *)

\* The types; in particular a poll never counts a negative number of slots,
\* although the counter may pass the limit.
TypeOK ==
    /\ status \in [Jobs -> Statuses]
    /\ timed \in SUBSET Jobs /\ early \in SUBSET Jobs
    /\ gated \in SUBSET Jobs /\ logged \in SUBSET Jobs
    /\ jobVer \in [Jobs -> 0..MaxVersion] /\ userVer \in 0..MaxVersion
    /\ canceling \in SUBSET Jobs
    /\ stage \in [Procs -> {"off", "starting", "up", "draining", "stopped",
                        "aborted", "failed"}]
    /\ queued \in [Procs -> SUBSET Jobs]
    /\ running \in [Procs -> Nat]
    /\ poll \in [Procs -> [at : {"none", "requeue", "requeueLog"}, slots : 0..Limit,
                           todo : SUBSET Jobs, cur : SUBSET Jobs]]
    /\ run \in [Runs -> [at : RunStages, proc : Procs \cup {NoProc}, job : Jobs,
                         ver : 0..MaxVersion]]
    /\ overlap \in SUBSET Jobs
    /\ acts \in 0..MaxActs /\ faults \in 0..MaxFaults

\* runningJobs counts exactly the activations between its increment and the
\* finally block: a leak would close the queue for good.
CounterMatches ==
    \A p \in Procs : running[p] = Cardinality({x \in RunsOf(p) : run[x].at \in Counted})

\* Two runs work on the same job at once only if somebody retried the job
\* while a run was working on it: the claim alone never lets a second run in,
\* in whatever processes they are.
ExclusiveExecution ==
    \A x, y \in Runs : \A j \in Jobs :
        x # y /\ WorksOn(x, j) /\ WorksOn(y, j) => j \in overlap

\* A canceled job comes back only as a pending job of a deliberate retry; no
\* late outcome of a run it had overwrites the cancellation.
CanceledStays ==
    [][\A j \in Jobs : status[j] = "canceled" /\ status'[j] # "canceled"
                          => status'[j] = "pending" /\ acts' = acts + 1]_vars

\* When the stop function has returned, nothing of the worker is left: no
\* timer, no poll and no run that could still write to a job.  When it has
\* rejected, because the poll it awaited failed, runs may still be under way
\* until the process exits, but there is no timer or poll to start another.
Drained ==
    \A p \in Procs :
        /\ stage[p] \in {"stopped", "aborted"} => queued[p] = {} /\ poll[p].at = "none"
        /\ stage[p] = "stopped" => RunsOf(p) = {}

\* A job that is due does not stay so for ever.
DueIsTaken == \A j \in Jobs : Due(j) ~> ~Due(j)
=============================================================================
