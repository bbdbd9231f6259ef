-------------------------- MODULE AutonomyScheduler --------------------------
(***************************************************************************)
(* The schedules of one agent: users approve, pause, resume and revoke     *)
(* them, the backend's processes turn the due ones into agent tasks.       *)
(* A claim of a schedule is its status "running" and names no owner; what  *)
(* protects the schedule is that every update of a run is conditional on   *)
(* the status and on the authorization version the run started with.       *)
(*                                                                         *)
(* A step ends where the code awaits the database.                         *)
(***************************************************************************)
EXTENDS Integers, Sequences

CONSTANTS
    Schedules,
    Procs,         \* processes that started the scheduler
    Repeats,       \* TRUE where Redis is configured: repeat jobs start runs too
    MaxTicks,      \* bound on how often a nextRunAt passes
    MaxActs,       \* bound on what users and operators do
    MaxFaults      \* bound on crashes and database faults

ASSUME SchedulerAssumption ==
    Repeats \in BOOLEAN /\ MaxTicks \in Nat /\ MaxActs \in Nat /\ MaxFaults \in Nat

VARIABLES
    status,      \* status[s]: the schedule's status, "none" before the insert
    due,         \* schedules with nextRunAt in the past
    ver,         \* ver[s]: the authorizationVersion s was approved under
    userVer,     \* the user's current sessionVersion
    hold,        \* {} when the agent is not paused and works in the background
    switching,   \* background-off has updated the agent, not yet its schedules
    tasks,       \* tasks[s]: the authorizationVersion of each task s created
    up,          \* up[p]: acceptingSchedules
    picked,      \* picked[p]: the records the poll in p has read
    run,         \* run[p][s]: runSchedule of s in p, "none" if not in runningSchedules
    ticks, acts, faults

dbVars   == <<status, due, ver, tasks>>
userVars == <<userVer, hold, switching>>
procVars == <<up, picked, run>>
budget   == <<ticks, acts, faults>>
vars     == <<dbVars, userVars, procVars, budget>>

Statuses == {"none", "active", "running", "paused", "revoked"}
Stages   == {"none", "auth", "authPause", "claim", "agent", "agentPause",
             "policy", "policyPause", "create", "note", "fail"}

NoRun == [at |-> "none", ver |-> 0]

\* A run begins with the schedule's record as it was read.
Record(s)  == [s |-> s, ver |-> ver[s]]
Begun(rec) == [at |-> "auth", ver |-> rec.ver]

Idle(p)   == picked[p] = {} /\ \A s \in Schedules : run[p][s] = NoRun
Act       == acts < MaxActs /\ acts' = acts + 1
Faulty    == faults < MaxFaults /\ faults' = faults + 1

Goto(p, s, at) == run' = [run EXCEPT ![p][s].at = at]
End(p, s)      == run' = [run EXCEPT ![p][s] = NoRun]

\* After a statement that committed: its reply arrives, or is lost and the
\* run finds itself in the catch block.
Committed(p, s, at) ==
    \/ Goto(p, s, at) /\ UNCHANGED faults
    \/ Faulty /\ Goto(p, s, "fail")

\* Mutant of Holds: the updates leave out the authorization version.
HoldsStatus(p, s, expected) == status[s] = expected

\* The condition of a run's updates: the approval it started with, the status.
Holds(p, s, expected) == ver[s] = run[p][s].ver /\ status[s] = expected

-----------------------------------------------------------------------------

Init ==
    /\ status = [s \in Schedules |-> "none"]
    /\ due = {}
    /\ ver = [s \in Schedules |-> 0]
    /\ userVer = 1
    /\ hold = {} /\ switching = FALSE
    /\ tasks = [s \in Schedules |-> <<>>]
    /\ up = [p \in Procs |-> FALSE]
    /\ picked = [p \in Procs |-> {}]
    /\ run = [p \in Procs |-> [s \in Schedules |-> NoRun]]
    /\ ticks = 0 /\ acts = 0 /\ faults = 0

-----------------------------------------------------------------------------
(* The user's routes.                                                      *)

\* POST .../schedules, due at once (runImmediately) or in an interval.
CreateSchedule(s) ==
    /\ status[s] = "none" /\ hold = {}
    /\ status' = [status EXCEPT ![s] = "active"]
    /\ ver' = [ver EXCEPT ![s] = userVer]
    /\ due' \in {due, due \cup {s}}
    /\ UNCHANGED <<tasks, userVars, procVars, budget>>

\* POST .../pause and .../revoke update by id, whatever the status.
PauseSchedule(s) ==
    /\ status[s] # "none" /\ Act
    /\ status' = [status EXCEPT ![s] = "paused"]
    /\ UNCHANGED <<due, ver, tasks, userVars, procVars, ticks, faults>>

RevokeSchedule(s) ==
    /\ status[s] # "none" /\ Act
    /\ status' = [status EXCEPT ![s] = "revoked"]
    /\ UNCHANGED <<due, ver, tasks, userVars, procVars, ticks, faults>>

\* POST .../resume approves the schedule again, under the session at hand.
ResumeSchedule(s) ==
    /\ status[s] # "none" /\ Act
    /\ status' = [status EXCEPT ![s] = "active"]
    /\ ver' = [ver EXCEPT ![s] = userVer]
    /\ due' = due \cup {s}
    /\ UNCHANGED <<tasks, userVars, procVars, ticks, faults>>

\* Pause of the agent; resume and restart end it.
PauseAgent ==
    /\ Act /\ hold' = hold \cup {"pause"}
    /\ UNCHANGED <<dbVars, userVer, switching, procVars, ticks, faults>>

ResumeAgent ==
    /\ "pause" \in hold /\ Act /\ hold' = hold \ {"pause"}
    /\ UNCHANGED <<dbVars, userVer, switching, procVars, ticks, faults>>

\* PATCH .../background: off first updates the agent ...
BackgroundOn ==
    /\ "background" \in hold /\ Act /\ hold' = hold \ {"background"}
    /\ UNCHANGED <<dbVars, userVer, switching, procVars, ticks, faults>>

BackgroundOff ==
    /\ ~switching /\ Act
    /\ hold' = hold \cup {"background"} /\ switching' = TRUE
    /\ UNCHANGED <<dbVars, userVer, procVars, ticks, faults>>

\* ... then its schedules, unless that statement fails.
PauseSchedules ==
    /\ switching /\ switching' = FALSE
    /\ \/ /\ status' = [s \in Schedules |->
                          IF status[s] \in {"active", "running"} THEN "paused"
                          ELSE status[s]]
          /\ UNCHANGED faults
       \/ Faulty /\ UNCHANGED status
    /\ UNCHANGED <<due, ver, tasks, userVer, hold, procVars, ticks, acts>>

\* A password change or a revoked session: earlier approvals are stale.
Rotate ==
    /\ Act /\ userVer' = userVer + 1
    /\ UNCHANGED <<dbVars, hold, switching, procVars, ticks, faults>>

\* nextRunAt passes.
Tick(s) ==
    /\ status[s] # "none" /\ s \notin due
    /\ ticks < MaxTicks /\ ticks' = ticks + 1
    /\ due' = due \cup {s}
    /\ UNCHANGED <<status, ver, tasks, userVars, procVars, acts, faults>>

-----------------------------------------------------------------------------
(* The poll and the repeat jobs start runs.                                *)

\* enqueueDueAgentSchedules: what the query returns.
PollDue(p) ==
    /\ up[p] /\ picked[p] = {}
    /\ picked' = [picked EXCEPT ![p] =
         {Record(s) : s \in {x \in due : status[x] = "active" /\ hold = {}}}]
    /\ UNCHANGED <<dbVars, userVars, up, run, budget>>

\* launchSchedule and the first lines of runSchedule: dropped while the
\* process drains, and while a run of the same schedule is in progress.
Launch(p, rec) ==
    /\ rec \in picked[p]
    /\ picked' = [picked EXCEPT ![p] = @ \ {rec}]
    /\ run' = IF up[p] /\ run[p][rec.s] = NoRun
              THEN [run EXCEPT ![p][rec.s] = Begun(rec)] ELSE run
    /\ UNCHANGED <<dbVars, userVars, up, budget>>

\* A repeat job runs its schedule by id, whatever its status.
Repeat(p, s) ==
    /\ Repeats /\ up[p] /\ status[s] # "none" /\ run[p][s] = NoRun
    /\ run' = [run EXCEPT ![p][s] = Begun(Record(s))]
    /\ UNCHANGED <<dbVars, userVars, up, picked, budget>>

-----------------------------------------------------------------------------
(* runSchedule.                                                            *)

\* assertDurableAuthorization: its catch takes every error for a stale
\* approval, a fault of the database included.
Authorize(p, s) ==
    /\ run[p][s].at = "auth"
    /\ \/ run[p][s].ver = userVer /\ Goto(p, s, "claim") /\ UNCHANGED faults
       \/ run[p][s].ver # userVer /\ Goto(p, s, "authPause") /\ UNCHANGED faults
       \/ Faulty /\ Goto(p, s, "authPause")
    /\ UNCHANGED <<dbVars, userVars, up, picked, ticks, acts>>

\* pauseScheduleForPolicy and the pause for an agent on hold: a conditional
\* update, and log rows only if it hit.
PauseFrom(p, s, at, expected) ==
    /\ run[p][s].at = at
    /\ IF Holds(p, s, expected)
       THEN /\ status' = [status EXCEPT ![s] = "paused"]
            /\ Committed(p, s, "note")
       ELSE End(p, s) /\ UNCHANGED <<status, faults>>
    /\ UNCHANGED <<due, ver, tasks, userVars, up, picked, ticks, acts>>

AuthPause(p, s)   == PauseFrom(p, s, "authPause", "active")
AgentPause(p, s)  == PauseFrom(p, s, "agentPause", "running")
PolicyPause(p, s) == PauseFrom(p, s, "policyPause", "running")

\* Mutant of Claim: the claim leaves out its condition on nextRunAt.
ClaimAnyTime(p, s) ==
    /\ run[p][s].at = "claim"
    /\ IF Holds(p, s, "active")
       THEN /\ status' = [status EXCEPT ![s] = "running"]
            /\ Committed(p, s, "agent")
       ELSE End(p, s) /\ UNCHANGED <<status, faults>>
    /\ UNCHANGED <<due, ver, tasks, userVars, up, picked, ticks, acts>>

Claim(p, s) ==
    /\ run[p][s].at = "claim"
    /\ IF Holds(p, s, "active") /\ s \in due
       THEN /\ status' = [status EXCEPT ![s] = "running"]
            /\ Committed(p, s, "agent")
       ELSE End(p, s) /\ UNCHANGED <<status, faults>>
    /\ UNCHANGED <<due, ver, tasks, userVars, up, picked, ticks, acts>>

\* Mutant of ReadAgent: an agent on hold ends the run without giving the claim back.
ReadAgentQuits(p, s) ==
    /\ run[p][s].at = "agent"
    /\ IF hold = {} THEN Goto(p, s, "policy") ELSE End(p, s)
    /\ UNCHANGED <<dbVars, userVars, up, picked, budget>>

ReadAgent(p, s) ==
    /\ run[p][s].at = "agent"
    /\ Goto(p, s, IF hold = {} THEN "policy" ELSE "agentPause")
    /\ UNCHANGED <<dbVars, userVars, up, picked, budget>>

\* evaluateAgentPolicies: the policies may allow the task or block it.
EvaluatePolicy(p, s) ==
    /\ run[p][s].at = "policy"
    /\ \E at \in {"create", "policyPause"} : Goto(p, s, at)
    /\ UNCHANGED <<dbVars, userVars, up, picked, budget>>

\* One transaction: the schedule goes back to active, an interval later, and
\* its task is created.
Create(p, s) ==
    /\ run[p][s].at = "create"
    /\ IF Holds(p, s, "running")
       THEN /\ status' = [status EXCEPT ![s] = "active"]
            /\ due' = due \ {s}
            /\ tasks' = [tasks EXCEPT ![s] = Append(@, run[p][s].ver)]
            /\ Committed(p, s, "note")
       ELSE End(p, s) /\ UNCHANGED <<status, due, tasks, faults>>
    /\ UNCHANGED <<ver, userVars, up, picked, ticks, acts>>

\* The message, log and audit rows, and the end of the run.
Note(p, s) ==
    /\ run[p][s].at = "note" /\ End(p, s)
    /\ UNCHANGED <<dbVars, userVars, up, picked, budget>>

\* Mutant of Fail: the catch block updates the schedule by its id.
FailById(p, s) ==
    /\ run[p][s].at = "fail" /\ End(p, s)
    /\ status' = [status EXCEPT ![s] = "active"] /\ due' = due \ {s}
    /\ UNCHANGED <<ver, tasks, userVars, up, picked, budget>>

\* The catch block; its own failure rejects the run.
Fail(p, s) ==
    /\ run[p][s].at = "fail" /\ End(p, s)
    /\ IF Holds(p, s, "running")
       THEN status' = [status EXCEPT ![s] = "active"] /\ due' = due \ {s}
       ELSE UNCHANGED <<status, due>>
    /\ UNCHANGED <<ver, tasks, userVars, up, picked, budget>>

\* A statement of a run fails and changes nothing.
RunFault(p, s) ==
    /\ run[p][s].at \notin {"none", "auth"}
    /\ Faulty
    /\ IF run[p][s].at = "fail" THEN End(p, s) ELSE Goto(p, s, "fail")
    /\ UNCHANGED <<dbVars, userVars, up, picked, ticks, acts>>

-----------------------------------------------------------------------------
(* Processes.                                                              *)

Start(p) ==
    /\ ~up[p] /\ Idle(p)
    /\ up' = [up EXCEPT ![p] = TRUE]
    /\ UNCHANGED <<dbVars, userVars, picked, run, budget>>

\* Stopping: nothing new is launched, the runs in progress drain.
Stop(p) ==
    /\ up[p] /\ Act
    /\ up' = [up EXCEPT ![p] = FALSE]
    /\ UNCHANGED <<dbVars, userVars, picked, run, ticks, faults>>

Crash(p) ==
    /\ up[p] \/ ~Idle(p)
    /\ Faulty
    /\ up' = [up EXCEPT ![p] = FALSE]
    /\ picked' = [picked EXCEPT ![p] = {}]
    /\ run' = [run EXCEPT ![p] = [s \in Schedules |-> NoRun]]
    /\ UNCHANGED <<dbVars, userVars, ticks, acts>>

-----------------------------------------------------------------------------

UserStep(s) == PauseSchedule(s) \/ RevokeSchedule(s) \/ ResumeSchedule(s)

AgentStep == PauseAgent \/ ResumeAgent \/ BackgroundOn \/ BackgroundOff

\* What a run does next when nothing goes wrong.
Proceed(p, s) ==
    \/ Authorize(p, s) \/ AuthPause(p, s) \/ Claim(p, s) \/ ReadAgent(p, s)
    \/ AgentPause(p, s) \/ EvaluatePolicy(p, s) \/ PolicyPause(p, s)
    \/ Create(p, s) \/ Note(p, s) \/ Fail(p, s)

LaunchStep(p) == \E rec \in picked[p] : Launch(p, rec)

Next ==
    \/ \E s \in Schedules : CreateSchedule(s) \/ UserStep(s) \/ Tick(s)
    \/ AgentStep \/ PauseSchedules \/ Rotate
    \/ \E p \in Procs :
          \/ PollDue(p) \/ LaunchStep(p) \/ Start(p) \/ Stop(p) \/ Crash(p)
          \/ \E s \in Schedules : Repeat(p, s) \/ Proceed(p, s) \/ RunFault(p, s)

Spec == Init /\ [][Next]_vars

\* Timers fire, awaited statements return, stopped workers are restarted.
Fairness ==
    /\ WF_vars(PauseSchedules)
    /\ \A p \in Procs :
        /\ WF_vars(Start(p)) /\ WF_vars(PollDue(p)) /\ WF_vars(LaunchStep(p))
        /\ \A s \in Schedules : WF_vars(Proceed(p, s))

FairSpec == Spec /\ Fairness

-----------------------------------------------------------------------------
(* Properties.                                                             *)

\* The types.
TypeOK ==
    /\ status \in [Schedules -> Statuses]
    /\ due \in SUBSET Schedules
    /\ ver \in [Schedules -> Nat] /\ userVer \in Nat
    /\ hold \in SUBSET {"pause", "background"} /\ switching \in BOOLEAN
    /\ tasks \in [Schedules -> Seq(Nat)]
    /\ up \in [Procs -> BOOLEAN]
    /\ picked \in [Procs -> SUBSET [s : Schedules, ver : Nat]]
    /\ run \in [Procs -> [Schedules -> [at : Stages, ver : Nat]]]
    /\ ticks \in 0..MaxTicks /\ acts \in 0..MaxActs /\ faults \in 0..MaxFaults

\* Each time a nextRunAt passes, at most one task comes of it, however many
\* processes poll, however old the run that creates it: the task takes the
\* due date with it.
OncePerPeriod ==
    [][\A s \in Schedules : tasks'[s] # tasks[s] => s \in due \ due']_vars

\* A task carries the approval the schedule has when it is created: a run that
\* was overtaken by a new approval creates nothing.
ApprovalIsCurrent ==
    [][\A s \in Schedules : tasks'[s] # tasks[s]
          => tasks'[s][Len(tasks'[s])] = ver[s]]_vars

\* A paused or revoked schedule stays so until its user decides otherwise; no
\* run that drains, fails or is retried takes it back to work.
UserDecides ==
    [][\A s \in Schedules : status[s] \in {"paused", "revoked"}
          => status'[s] = status[s] \/ UserStep(s)]_vars

\* A schedule that is due while its agent is not on hold is turned into a task,
\* paused or revoked, whatever the users do and however the processes are
\* stopped; only a crash or a fault of the database leaves it behind.
OnlyFaultsLeaveDue ==
    \A s \in Schedules :
        s \in due /\ status[s] \in {"active", "running"} /\ hold = {} /\ faults = 0
            ~> \/ s \notin due \/ status[s] \in {"paused", "revoked"} \/ hold # {}
               \/ faults > 0
=============================================================================
