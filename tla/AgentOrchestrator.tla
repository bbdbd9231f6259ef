-------------------------- MODULE AgentOrchestrator --------------------------
(***************************************************************************)
(* The agent orchestrator without Redis: tasks and agents in the database, *)
(* and in every worker process timers, a counter of running tasks and a    *)
(* poll.  A run claims its task, then an execution lease on the agent.     *)
(* Users pause, resume and restart agents and cancel tasks meanwhile.      *)
(*                                                                         *)
(* A step ends where the code awaits the database or the provider.         *)
(***************************************************************************)
EXTENDS Integers, FiniteSets

CONSTANTS
    NumTasks,      \* tasks are numbered in the order of createdAt
    Agents,
    Owner,         \* Owner[t]: the agent task t is assigned to
    Procs,         \* processes that started the orchestrator
    Runs,          \* slots for the activations of runAgentTask
    NoProc, NoLease,
    Orphan,        \* a lease token no activation remembers
    Limit,         \* AGENT_MAX_CONCURRENCY
    MaxActs,       \* bound on what users and operators do
    MaxFaults      \* bound on crashes and database faults

Tasks == 1..NumTasks

ASSUME ConstantAssumption ==
    /\ NumTasks \in Nat
    /\ Owner \in [Tasks -> Agents]
    /\ Limit \in Nat \ {0}
    /\ MaxActs \in Nat /\ MaxFaults \in Nat
    /\ NoProc \notin Procs
    /\ NoLease \notin Runs /\ Orphan \notin Runs /\ NoLease # Orphan

VARIABLES
    status,      \* status[t]: the task's status, "none" before the insert
    old,         \* tasks whose startedAt is 15 minutes back
    revoked,     \* tasks whose authorizationVersion is no longer current
    usage,       \* usage[t]: the AI usage row agent-task:t
    canceling,   \* tasks a cancel request has read and found active
    agent,       \* agent[a]: the agent's status
    hold,        \* hold[a]: {} when background work is on and a is not paused
    lease,       \* lease[a]: executionLeaseToken, named by its activation
    leaseTask,   \* leaseTask[a]: executionLeaseTaskId, 0 for null
    stage,       \* stage[p]: life of the orchestrator in p
    queued,      \* queued[p]: queuedTasks, each with its timer armed
    running,     \* running[p]: the counter runningTasks
    poll,        \* poll[p]: the poll in progress and the stale tasks it read
    run,         \* run[x]: the activation in slot x
    acts, faults

taskVars  == <<status, old, revoked, usage, canceling>>
agentVars == <<agent, hold, lease, leaseTask>>
procVars  == <<stage, queued, running, poll, run>>
budget    == <<acts, faults>>
vars      == <<taskVars, agentVars, procVars, budget>>

Finished == {"completed", "failed", "canceled"}
Statuses == {"none", "queued", "running"} \cup Finished

\* Up to its claim of the task, an activation owns nothing; then the task;
\* then the task and the lease.
Unclaimed == {"auth", "claim", "failQueued"}
Claimed   == {"lease", "requeue", "failRunning"}
Leased    == {"policy", "reauth", "reserve", "exec", "settle", "unreserve",
              "complete", "failLeased"}
Ending    == {"release", "releaseIdle", "releaseError", "close"}
RunStages == {"free", "read"} \cup Unclaimed \cup Claimed \cup Leased \cup Ending

FreeRun == [at |-> "free", proc |-> NoProc, task |-> 0]
NoPoll  == [at |-> "none", todo |-> {}]

Accepting(p) == stage[p] \in {"starting", "up"}
RunsOf(p) == {x \in Runs : run[x].proc = p}
Eligible(a) == hold[a] = {} /\ agent[a] # "busy"

Faulty == faults < MaxFaults /\ faults' = faults + 1
Act    == acts < MaxActs /\ acts' = acts + 1

\* enqueueAgentTask in process p: refused unless accepting, idempotent.
Enqueued(p, ts) == [queued EXCEPT ![p] = IF Accepting(p) THEN @ \cup ts ELSE @]

Move(x, at) == run' = [run EXCEPT ![x].at = at]

\* The activations in gone end: a token of theirs that is still in the
\* database is remembered by nobody.
Forget(gone) ==
    /\ run' = [x \in Runs |-> IF x \in gone THEN FreeRun ELSE run[x]]
    /\ lease' = [a \in Agents |-> IF lease[a] \in gone THEN Orphan ELSE lease[a]]

\* The finally block: the counter goes down and the activation is over.
EndRun(x) ==
    /\ Forget({x})
    /\ running' = [running EXCEPT ![run[x].proc] = @ - 1]

-----------------------------------------------------------------------------

Init ==
    /\ status = [t \in Tasks |-> "none"]
    /\ old = {} /\ revoked = {} /\ canceling = {}
    /\ usage = [t \in Tasks |-> "none"]
    /\ agent = [a \in Agents |-> "idle"]
    /\ hold = [a \in Agents |-> {}]
    /\ lease = [a \in Agents |-> NoLease]
    /\ leaseTask = [a \in Agents |-> 0]
    /\ stage = [p \in Procs |-> "off"]
    /\ queued = [p \in Procs |-> {}]
    /\ running = [p \in Procs |-> 0]
    /\ poll = [p \in Procs |-> NoPoll]
    /\ run = [x \in Runs |-> FreeRun]
    /\ acts = 0 /\ faults = 0

-----------------------------------------------------------------------------
(* The routes.                                                             *)

\* POST /agents/:agentId/assign, served by process p.  A pause between its
\* read and its insert leaves what a pause after the insert leaves.
Assign(p, t) ==
    /\ status[t] = "none"
    /\ \A u \in 1..(t - 1) : status[u] # "none"
    /\ hold[Owner[t]] = {}
    /\ status' = [status EXCEPT ![t] = "queued"]
    /\ queued' = Enqueued(p, {t})
    /\ UNCHANGED <<old, revoked, usage, canceling, agentVars, stage, running,
                   poll, run, budget>>

\* Cancel (or an admin's revoke) reads the task and refuses a finished one ...
CancelRead(t) ==
    /\ status[t] \in {"queued", "running"} /\ t \notin canceling
    /\ Act
    /\ canceling' = canceling \cup {t}
    /\ UNCHANGED <<status, old, revoked, usage, agentVars, procVars, faults>>

\* ... and then updates it by its id alone.
CancelWrite(t) ==
    /\ t \in canceling
    /\ status' = [status EXCEPT ![t] = "canceled"]
    /\ canceling' = canceling \ {t}
    /\ UNCHANGED <<old, revoked, usage, agentVars, procVars, budget>>

\* Pause, resume, restart and the background switch write the agent's status
\* whatever it is, and never touch the lease.
Control(a, h, s) ==
    /\ Act
    /\ hold' = [hold EXCEPT ![a] = h]
    /\ agent' = [agent EXCEPT ![a] = s]
    /\ UNCHANGED <<lease, leaseTask, taskVars, procVars, faults>>

Pause(a)         == Control(a, hold[a] \cup {"pause"}, "paused")
Resume(a)        == Control(a, hold[a] \ {"pause"}, "idle")
BackgroundOn(a)  == Control(a, hold[a] \ {"background"}, "idle")
BackgroundOff(a) == Control(a, hold[a] \cup {"background"}, "paused")

\* The user's sessions are revoked, and with them the tasks assigned so far.
Revoke ==
    /\ revoked' = {t \in Tasks : status[t] # "none"}
    /\ revoked' # revoked
    /\ Act
    /\ UNCHANGED <<status, old, usage, canceling, agentVars, procVars, faults>>

\* A running task gets 15 minutes old.
Age(t) ==
    /\ status[t] = "running" /\ t \notin old
    /\ old' = old \cup {t}
    /\ UNCHANGED <<status, revoked, usage, canceling, agentVars, procVars, budget>>

-----------------------------------------------------------------------------
(* runAgentTask.                                                           *)

\* The timer of t fires.  At the limit the task is armed again, which changes
\* nothing; below it the activation goes on to read task and agent.
Launch(p, t, x) ==
    /\ Accepting(p) /\ t \in queued[p]
    /\ running[p] < Limit
    /\ run[x].at = "free"
    /\ queued' = [queued EXCEPT ![p] = @ \ {t}]
    /\ run' = [run EXCEPT ![x] = [at |-> "read", proc |-> p, task |-> t]]
    /\ UNCHANGED <<taskVars, agentVars, stage, running, poll, budget>>

\* A task that is not queued or whose agent is on hold is dropped, one whose
\* agent is busy is armed again, and only now does the activation count.
ReadTask(x) ==
    LET t == run[x].task
        a == Owner[t]
        p == run[x].proc IN
    /\ run[x].at = "read"
    /\ \/ /\ status[t] # "queued" \/ hold[a] # {}
          /\ Forget({x}) /\ UNCHANGED <<queued, running>>
       \/ /\ status[t] = "queued" /\ hold[a] = {} /\ agent[a] = "busy"
          /\ queued' = Enqueued(p, {t})
          /\ Forget({x}) /\ UNCHANGED running
       \/ /\ status[t] = "queued" /\ Eligible(a)
          /\ running' = [running EXCEPT ![p] = @ + 1]
          /\ Move(x, "auth") /\ UNCHANGED <<queued, lease>>
    /\ UNCHANGED <<taskVars, agent, hold, leaseTask, stage, poll, budget>>

\* assertDurableAuthorization, before the claim and after the policies.
Authorize(x) ==
    LET ok == run[x].task \notin revoked IN
    /\ \/ run[x].at = "auth" /\ Move(x, IF ok THEN "claim" ELSE "failQueued")
       \/ run[x].at = "reauth" /\ Move(x, IF ok THEN "reserve" ELSE "failLeased")
    /\ UNCHANGED <<taskVars, agentVars, stage, queued, running, poll, budget>>

\* The effect of the claim's UPDATE ... WHERE status = 'queued'.
MarkRunning(t) ==
    /\ status' = [status EXCEPT ![t] = "running"]
    /\ old' = old \ {t}

ClaimTask(x) ==
    LET t == run[x].task IN
    /\ run[x].at = "claim"
    /\ IF status[t] = "queued"
       THEN MarkRunning(t) /\ Move(x, "lease") /\ UNCHANGED <<running, lease>>
       ELSE EndRun(x) /\ UNCHANGED <<status, old>>
    /\ UNCHANGED <<revoked, usage, canceling, agent, hold, leaseTask, stage,
                   queued, poll, budget>>

\* The effect of UPDATE agent ... WHERE no lease, not on hold, not busy.
TakeLease(x) ==
    LET a == Owner[run[x].task] IN
    /\ agent' = [agent EXCEPT ![a] = "busy"]
    /\ lease' = [lease EXCEPT ![a] = x]
    /\ leaseTask' = [leaseTask EXCEPT ![a] = run[x].task]

Available(a) == lease[a] = NoLease /\ Eligible(a)

\* Mutant of ClaimAgent: an agent that is not busy counts as free.
ClaimIdleAgent(x) ==
    /\ run[x].at = "lease"
    /\ IF Eligible(Owner[run[x].task])
       THEN TakeLease(x) /\ Move(x, "policy")
       ELSE Move(x, "requeue") /\ UNCHANGED <<agent, lease, leaseTask>>
    /\ UNCHANGED <<taskVars, hold, stage, queued, running, poll, budget>>

ClaimAgent(x) ==
    /\ run[x].at = "lease"
    /\ IF Available(Owner[run[x].task])
       THEN TakeLease(x) /\ Move(x, "policy")
       ELSE Move(x, "requeue") /\ UNCHANGED <<agent, lease, leaseTask>>
    /\ UNCHANGED <<taskVars, hold, stage, queued, running, poll, budget>>

\* Mutant of Requeue: the task goes back to the queue whatever it is now.
RequeueById(x) ==
    LET t == run[x].task IN
    /\ run[x].at = "requeue"
    /\ status' = [status EXCEPT ![t] = "queued"] /\ old' = old \ {t}
    /\ queued' = Enqueued(run[x].proc, {t})
    /\ EndRun(x)
    /\ UNCHANGED <<revoked, usage, canceling, agent, hold, leaseTask, stage, poll, budget>>

\* The agent was not available: UPDATE ... WHERE status = 'running' puts the
\* task back, and a timer is armed.
Requeue(x) ==
    LET t == run[x].task IN
    /\ run[x].at = "requeue"
    /\ IF status[t] = "running"
       THEN status' = [status EXCEPT ![t] = "queued"] /\ old' = old \ {t}
       ELSE UNCHANGED <<status, old>>
    /\ queued' = Enqueued(run[x].proc, {t})
    /\ EndRun(x)
    /\ UNCHANGED <<revoked, usage, canceling, agent, hold, leaseTask, stage, poll, budget>>

\* The lease's columns are cleared; the status is set only while it is busy.
ClearLease(a, s) ==
    /\ agent' = [agent EXCEPT ![a] = IF @ = "busy" THEN s ELSE @]
    /\ lease' = [lease EXCEPT ![a] = NoLease]
    /\ leaseTask' = [leaseTask EXCEPT ![a] = 0]

\* evaluateAgentPolicies lets the task pass ...
PolicyAllows(x) ==
    /\ run[x].at = "policy"
    /\ Move(x, "reauth")
    /\ UNCHANGED <<taskVars, agentVars, stage, queued, running, poll, budget>>

\* ... or not: one transaction fails the running task and clears the lease.
PolicyBlocks(x) ==
    LET t == run[x].task
        a == Owner[t] IN
    /\ run[x].at = "policy"
    /\ IF status[t] = "running"
       THEN /\ status' = [status EXCEPT ![t] = "failed"]
            /\ IF lease[a] = x THEN ClearLease(a, "idle")
               ELSE UNCHANGED <<agent, lease, leaseTask>>
            /\ Move(x, "close")
       ELSE Move(x, "release") /\ UNCHANGED <<status, agent, lease, leaseTask>>
    /\ UNCHANGED <<old, revoked, usage, canceling, hold, stage, queued, running,
                   poll, budget>>

\* reserveAiUsage: the row is a tombstone for its request id, and the budget
\* of the day or the month may be used up.
Reserve(x) ==
    LET t == run[x].task IN
    /\ run[x].at = "reserve"
    /\ \/ /\ usage[t] = "none"
          /\ usage' = [usage EXCEPT ![t] = "reserved"]
          /\ Move(x, "exec")
       \/ Move(x, "failLeased") /\ UNCHANGED usage
    /\ UNCHANGED <<status, old, revoked, canceling, agentVars, stage, queued,
                   running, poll, budget>>

\* buildAgentResult calls the provider and returns or throws.
Execute(x) ==
    /\ run[x].at = "exec"
    /\ Move(x, "settle") \/ Move(x, "unreserve")
    /\ UNCHANGED <<taskVars, agentVars, stage, queued, running, poll, budget>>

\* settleAiUsageReservation throws unless the row is still reserved.
Settle(x) ==
    LET t == run[x].task IN
    /\ run[x].at = "settle"
    /\ IF usage[t] = "reserved"
       THEN usage' = [usage EXCEPT ![t] = "settled"] /\ Move(x, "complete")
       ELSE Move(x, "unreserve") /\ UNCHANGED usage
    /\ UNCHANGED <<status, old, revoked, canceling, agentVars, stage, queued,
                   running, poll, budget>>

\* failAiUsageReservation; what it throws itself is only logged.
Unreserve(x) ==
    LET t == run[x].task IN
    /\ run[x].at = "unreserve"
    /\ \/ usage' = [usage EXCEPT ![t] = IF @ = "reserved" THEN "failed" ELSE @]
          /\ UNCHANGED faults
       \/ Faulty /\ UNCHANGED usage
    /\ Move(x, "failLeased")
    /\ UNCHANGED <<status, old, revoked, canceling, agentVars, stage, queued,
                   running, poll, acts>>

\* UPDATE ... WHERE status = 'running' records the result.
Complete(x) ==
    LET t == run[x].task IN
    /\ run[x].at = "complete"
    /\ status' = [status EXCEPT ![t] = IF @ = "running" THEN "completed" ELSE @]
    /\ Move(x, "release")
    /\ UNCHANGED <<old, revoked, usage, canceling, agentVars, stage, queued,
                   running, poll, budget>>

\* The catch block: the task is failed if it still is what this activation
\* had made of it; a lease that was taken is released next.
Fail(x) ==
    LET t == run[x].task
        mine == IF run[x].at = "failQueued" THEN "queued" ELSE "running" IN
    /\ run[x].at \in {"failQueued", "failRunning", "failLeased"}
    /\ status' = [status EXCEPT ![t] = IF @ = mine THEN "failed" ELSE @]
    /\ Move(x, IF run[x].at # "failLeased" THEN "close"
               ELSE IF status[t] = mine THEN "releaseError" ELSE "releaseIdle")
    /\ UNCHANGED <<old, revoked, usage, canceling, agentVars, stage, queued,
                   running, poll, budget>>

\* Mutant of Release: the status is set although a user has changed it.
ReleaseStatus(x) ==
    LET a == Owner[run[x].task]
        s == IF run[x].at = "releaseError" THEN "error" ELSE "idle" IN
    /\ run[x].at \in {"release", "releaseIdle", "releaseError"}
    /\ IF lease[a] = x
       THEN /\ agent' = [agent EXCEPT ![a] = s]
            /\ lease' = [lease EXCEPT ![a] = NoLease]
            /\ leaseTask' = [leaseTask EXCEPT ![a] = 0]
       ELSE UNCHANGED <<agent, lease, leaseTask>>
    /\ Move(x, "close")
    /\ UNCHANGED <<taskVars, hold, stage, queued, running, poll, budget>>

\* Mutant of Release: only the first update is made, the one for a busy agent.
ReleaseBusyOnly(x) ==
    LET a == Owner[run[x].task]
        s == IF run[x].at = "releaseError" THEN "error" ELSE "idle" IN
    /\ run[x].at \in {"release", "releaseIdle", "releaseError"}
    /\ IF lease[a] = x /\ agent[a] = "busy" THEN ClearLease(a, s)
       ELSE UNCHANGED <<agent, lease, leaseTask>>
    /\ Move(x, "close")
    /\ UNCHANGED <<taskVars, hold, stage, queued, running, poll, budget>>

\* releaseAgentExecutionLease: two updates by the token, the first for a busy
\* agent; between them nothing can make the agent busy again.
Release(x) ==
    LET a == Owner[run[x].task]
        s == IF run[x].at = "releaseError" THEN "error" ELSE "idle" IN
    /\ run[x].at \in {"release", "releaseIdle", "releaseError"}
    /\ IF lease[a] = x THEN ClearLease(a, s) ELSE UNCHANGED <<agent, lease, leaseTask>>
    /\ Move(x, "close")
    /\ UNCHANGED <<taskVars, hold, stage, queued, running, poll, budget>>

\* The closing messages and log lines are written and the activation ends.  An
\* error here runs the catch block, which finds nothing left to change.
CloseRun(x) ==
    /\ run[x].at = "close"
    /\ EndRun(x)
    /\ UNCHANGED <<taskVars, agent, hold, leaseTask, stage, queued, poll, budget>>

\* What a database call that throws leaves undone or, if it had committed all
\* the same, done: the status of the task and the lease of the agent.
Committed(x) ==
    LET t == run[x].task
        a == Owner[t] IN
    \/ /\ run[x].at = "claim" /\ status[t] = "queued"
       /\ MarkRunning(t) /\ UNCHANGED <<usage, agent, lease, leaseTask>>
    \/ /\ run[x].at = "lease" /\ Available(a)
       /\ TakeLease(x) /\ UNCHANGED <<status, old, usage>>
    \/ /\ run[x].at = "requeue" /\ status[t] = "running"
       /\ status' = [status EXCEPT ![t] = "queued"] /\ old' = old \ {t}
       /\ UNCHANGED <<usage, agent, lease, leaseTask>>
    \/ /\ run[x].at = "policy" /\ status[t] = "running"
       /\ status' = [status EXCEPT ![t] = "failed"]
       /\ IF lease[a] = x THEN ClearLease(a, "idle") ELSE UNCHANGED <<agent, lease, leaseTask>>
       /\ UNCHANGED <<old, usage>>
    \/ /\ run[x].at = "reserve" /\ usage[t] = "none"
       /\ usage' = [usage EXCEPT ![t] = "reserved"]
       /\ UNCHANGED <<status, old, agent, lease, leaseTask>>
    \/ /\ run[x].at = "settle" /\ usage[t] = "reserved"
       /\ usage' = [usage EXCEPT ![t] = "settled"]
       /\ UNCHANGED <<status, old, agent, lease, leaseTask>>
    \/ /\ run[x].at = "complete" /\ status[t] = "running"
       /\ status' = [status EXCEPT ![t] = "completed"]
       /\ UNCHANGED <<old, usage, agent, lease, leaseTask>>
    \/ /\ run[x].at = "release" /\ lease[a] = x
       /\ ClearLease(a, "idle") /\ UNCHANGED <<status, old, usage>>

Caught(at) == CASE at \in Unclaimed -> "failQueued"
                [] at \in Claimed   -> "failRunning"
                [] at = "settle"    -> "unreserve"
                [] OTHER            -> "failLeased"

\* A database call of the try block throws.
RunFault(x) ==
    /\ run[x].at \in {"auth", "claim", "lease", "requeue", "policy", "reauth",
                     "reserve", "settle", "complete", "release"}
    /\ Faulty
    /\ Committed(x) \/ UNCHANGED <<status, old, usage, agent, lease, leaseTask>>
    /\ Move(x, Caught(run[x].at))
    /\ UNCHANGED <<revoked, canceling, hold, stage, queued, running, poll, acts>>

\* The read before the try block, or a call of the catch block, throws: the
\* activation rejects.
RunRejects(x) ==
    /\ run[x].at \in {"read", "failQueued", "failRunning", "failLeased",
                     "releaseIdle", "releaseError"}
    /\ Faulty
    /\ IF run[x].at = "read" THEN Forget({x}) /\ UNCHANGED running ELSE EndRun(x)
    /\ UNCHANGED <<taskVars, agent, hold, leaseTask, stage, queued, poll, acts>>

-----------------------------------------------------------------------------
(* enqueueQueuedAgentTasks and the life of the orchestrator.               *)

\* startAgentOrchestrator; its first poll follows at once.
Start(p) ==
    /\ stage[p] = "off"
    /\ stage' = [stage EXCEPT ![p] = "starting"]
    /\ UNCHANGED <<taskVars, agentVars, queued, running, poll, run, budget>>

\* Below the limit the poll reads the tasks that run for 15 minutes.
PollStart(p) ==
    /\ Accepting(p) /\ poll[p].at = "none"
    /\ running[p] < Limit
    /\ poll' = [poll EXCEPT ![p] = [at |-> "recover",
                                   todo |-> {t \in old : status[t] = "running"}]]
    /\ UNCHANGED <<taskVars, agentVars, stage, queued, running, run, budget>>

\* Mutant of RecoverTask: the lease is cleared, the agent stays busy.
RecoverKeepsBusy(p, t) ==
    LET a == Owner[t] IN
    /\ poll[p].at = "recover" /\ t \in poll[p].todo
    /\ poll' = [poll EXCEPT ![p].todo = @ \ {t}]
    /\ IF status[t] = "running" /\ t \in old
       THEN /\ status' = [status EXCEPT ![t] = "failed"]
            /\ usage' = [usage EXCEPT ![t] = IF @ = "reserved" THEN "failed" ELSE @]
            /\ lease' = [lease EXCEPT ![a] = IF leaseTask[a] = t THEN NoLease ELSE @]
            /\ leaseTask' = [leaseTask EXCEPT ![a] = IF @ = t THEN 0 ELSE @]
       ELSE UNCHANGED <<status, usage, lease, leaseTask>>
    /\ UNCHANGED <<agent, old, revoked, canceling, hold, stage, queued, running, run, budget>>

\* One transaction fails a stale task, clears the lease of that task and
\* fails its reservation.
RecoverTask(p, t) ==
    LET a == Owner[t] IN
    /\ poll[p].at = "recover" /\ t \in poll[p].todo
    /\ poll' = [poll EXCEPT ![p].todo = @ \ {t}]
    /\ IF status[t] = "running" /\ t \in old
       THEN /\ status' = [status EXCEPT ![t] = "failed"]
            /\ usage' = [usage EXCEPT ![t] = IF @ = "reserved" THEN "failed" ELSE @]
            /\ IF leaseTask[a] = t THEN ClearLease(a, "error")
               ELSE UNCHANGED <<agent, lease, leaseTask>>
       ELSE UNCHANGED <<status, usage, agent, lease, leaseTask>>
    /\ UNCHANGED <<old, revoked, canceling, hold, stage, queued, running, run, budget>>

\* Prisma's take: the first n of the ordered rows, or the last -n.
Taken(ts, n) ==
    IF n >= 0 THEN {t \in ts : Cardinality({u \in ts : u < t}) < n}
              ELSE {t \in ts : Cardinality({u \in ts : u > t}) < -n}

\* Only now are the slots counted; queued tasks of eligible agents are armed.
PollSelect(p) ==
    LET waiting == {t \in Tasks : status[t] = "queued" /\ Eligible(Owner[t])} IN
    /\ poll[p].at = "recover" /\ poll[p].todo = {}
    /\ queued' = Enqueued(p, Taken(waiting, Limit - running[p]))
    /\ poll' = [poll EXCEPT ![p] = NoPoll]
    /\ stage' = [stage EXCEPT ![p] = IF @ = "starting" THEN "up" ELSE @]
    /\ UNCHANGED <<taskVars, agentVars, running, run, budget>>

\* A query of the poll throws.  A failing first poll makes the start fail.
PollFault(p) ==
    /\ poll[p].at # "none"
    /\ Faulty
    /\ poll' = [poll EXCEPT ![p] = NoPoll]
    /\ IF stage[p] = "starting"
       THEN /\ stage' = [stage EXCEPT ![p] = "failed"]
            /\ queued' = [queued EXCEPT ![p] = {}]
       ELSE UNCHANGED <<stage, queued>>
    /\ UNCHANGED <<taskVars, agentVars, running, run, acts>>

\* The stop function: no more timers ...
StopBegin(p) ==
    /\ stage[p] = "up"
    /\ Act
    /\ stage' = [stage EXCEPT ![p] = "draining"]
    /\ queued' = [queued EXCEPT ![p] = {}]
    /\ UNCHANGED <<taskVars, agentVars, running, poll, run, faults>>

\* ... and it returns when the poll and every run have settled.
StopEnd(p) ==
    /\ stage[p] = "draining"
    /\ poll[p].at = "none" /\ RunsOf(p) = {}
    /\ stage' = [stage EXCEPT ![p] = "stopped"]
    /\ UNCHANGED <<taskVars, agentVars, queued, running, poll, run, budget>>

\* The process is gone with its timers, its counter and its runs.
Vanish(p) ==
    /\ stage' = [stage EXCEPT ![p] = "off"]
    /\ queued' = [queued EXCEPT ![p] = {}]
    /\ running' = [running EXCEPT ![p] = 0]
    /\ poll' = [poll EXCEPT ![p] = NoPoll]
    /\ Forget(RunsOf(p))
    /\ UNCHANGED <<taskVars, agent, hold, leaseTask, acts>>

\* After an orderly stop, or after a start that failed, the process exits.
Exit(p) ==
    /\ stage[p] \in {"stopped", "failed"}
    /\ Vanish(p)
    /\ UNCHANGED faults

Crash(p) ==
    /\ stage[p] # "off"
    /\ Faulty
    /\ Vanish(p)

-----------------------------------------------------------------------------

TaskStep(t) ==
    \/ \E p \in Procs : Assign(p, t)
    \/ CancelRead(t) \/ CancelWrite(t) \/ Age(t)

ControlStep(a) == Pause(a) \/ Resume(a) \/ BackgroundOn(a) \/ BackgroundOff(a)

\* What a run does next when nothing goes wrong.
Proceed(x) ==
    \/ ReadTask(x) \/ Authorize(x) \/ ClaimTask(x) \/ ClaimAgent(x) \/ Requeue(x)
    \/ PolicyAllows(x) \/ PolicyBlocks(x) \/ Reserve(x) \/ Execute(x) \/ Settle(x)
    \/ Unreserve(x) \/ Complete(x) \/ Fail(x) \/ Release(x) \/ CloseRun(x)

PollStep(p) ==
    \/ PollStart(p) \/ PollSelect(p)
    \/ \E t \in Tasks : RecoverTask(p, t)

LaunchStep(p, t) == \E x \in Runs : Launch(p, t, x)

Next ==
    \/ \E t \in Tasks : TaskStep(t)
    \/ \E a \in Agents : ControlStep(a)
    \/ \E x \in Runs : Proceed(x) \/ RunFault(x) \/ RunRejects(x)
    \/ \E p \in Procs :
          \/ PollStep(p) \/ \E t \in Tasks : LaunchStep(p, t)
          \/ Start(p) \/ PollFault(p) \/ StopBegin(p) \/ StopEnd(p) \/ Exit(p) \/ Crash(p)
    \/ Revoke

Spec == Init /\ [][Next]_vars

\* Time passes, runs and timers go on, workers poll and are restarted.
Fairness ==
    /\ \A t \in Tasks : WF_vars(Age(t))
    /\ \A x \in Runs : WF_vars(Proceed(x))
    /\ \A p \in Procs :
        /\ WF_vars(Start(p)) /\ WF_vars(StopEnd(p)) /\ WF_vars(Exit(p))
        /\ WF_vars(PollStep(p))
        /\ \A t \in Tasks : WF_vars(LaunchStep(p, t))

FairSpec == Spec /\ Fairness

-----------------------------------------------------------------------------
(* Properties.                                                             *)

\* The types.
TypeOK ==
    /\ status \in [Tasks -> Statuses]
    /\ old \in SUBSET Tasks /\ revoked \in SUBSET Tasks /\ canceling \in SUBSET Tasks
    /\ usage \in [Tasks -> {"none", "reserved", "settled", "failed"}]
    /\ agent \in [Agents -> {"idle", "busy", "paused", "error"}]
    /\ hold \in [Agents -> SUBSET {"pause", "background"}]
    /\ lease \in [Agents -> Runs \cup {NoLease, Orphan}]
    /\ leaseTask \in [Agents -> Tasks \cup {0}]
    /\ stage \in [Procs -> {"off", "starting", "up", "draining", "stopped", "failed"}]
    /\ queued \in [Procs -> SUBSET Tasks]
    /\ running \in [Procs -> Nat]
    /\ poll \in [Procs -> [at : {"none", "recover"}, todo : SUBSET Tasks]]
    /\ run \in [Runs -> [at : RunStages, proc : Procs \cup {NoProc}, task : Tasks \cup {0}]]
    /\ acts \in 0..MaxActs /\ faults \in 0..MaxFaults

\* As long as a task is running, the activation that claimed it and took the
\* lease still has the lease, under the task's own id; so neither a user's
\* pause or restart, nor a recovery of another task, nor another worker can
\* put a second task on the agent before the first one's outcome is written.
LeaseFences ==
    \A x \in Runs : run[x].at \in Leased /\ status[run[x].task] = "running"
        => /\ lease[Owner[run[x].task]] = x
           /\ leaseTask[Owner[run[x].task]] = run[x].task

\* A busy agent has a lease and is not on hold: the release, the recovery and a
\* user's pause never leave an agent that looks busy without a lease.
BusyIsLeased ==
    \A a \in Agents : agent[a] = "busy" => lease[a] # NoLease /\ hold[a] = {}

\* Work that drains never overwrites a user's pause: only a user takes an
\* agent out of the paused status.
PauseStays ==
    [][\A a \in Agents : agent[a] = "paused" /\ agent'[a] # "paused"
                            => acts' = acts + 1]_vars

\* A canceled task stays canceled, whatever its run does with it later.
CanceledStays ==
    [][\A t \in Tasks : status[t] = "canceled" => status'[t] = "canceled"]_vars

\* Whatever crashes, overlaps and fails, the activations and polls together
\* keep the promise of TaskExecution: a task uses the provider at most once,
\* never goes back to the queue once it may have used it, and is completed only
\* on a settled use (claim, requeue, reserve, settle, complete, recovery).
Execution == INSTANCE TaskExecution
ExecutesTasks == Execution!Spec

\* An assigned task comes to an end unless its agent is on hold.
TaskFinishes ==
    \A t \in Tasks : status[t] \in {"queued", "running"}
                        ~> status[t] \in Finished \/ hold[Owner[t]] # {}
=============================================================================
