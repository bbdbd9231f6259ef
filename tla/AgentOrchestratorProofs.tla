---------------------- MODULE AgentOrchestratorProofs ----------------------
(***************************************************************************)
(* Proofs about AgentOrchestrator, for any tasks, agents, processes, limit *)
(* and bounds.                                                             *)
(***************************************************************************)
EXTENDS AgentOrchestrator, FiniteSetTheorems, TLAPS

\* The part of the types the arguments below need.
CoreOK ==
    /\ status \in [Tasks -> Statuses]
    /\ agent \in [Agents -> {"idle", "busy", "paused", "error"}]
    /\ hold \in [Agents -> SUBSET {"pause", "background"}]
    /\ lease \in [Agents -> Runs \cup {NoLease, Orphan}]
    /\ leaseTask \in [Agents -> Tasks \cup {0}]
    /\ run \in [Runs -> [at : RunStages, proc : Procs \cup {NoProc}, task : Tasks \cup {0}]]
    /\ \A x \in Runs : run[x].at # "free" => run[x].task \in Tasks

\* From its claim to its outcome an activation owns its task.
Owns(x) == run[x].at \in {"lease", "requeue"} \cup Leased

\* A task somebody owns is not in the queue, and while it is running it has
\* one owner.  The catch block after a failed requeue is no owner: the requeue
\* may have been committed and the task claimed by another activation.
OneOwner ==
    \A x \in Runs : Owns(x) =>
        /\ status[run[x].task] \notin {"none", "queued"}
        /\ \A y \in Runs : x # y /\ Owns(y) /\ run[y].task = run[x].task
                            => status[run[x].task] # "running"

\* An activation that got to the release in its try block has a finished task.
Outcome == \A x \in Runs : run[x].at = "release" => status[run[x].task] \in Finished

Fences == OneOwner /\ Outcome /\ LeaseFences

\* What LeaseFences needs to be inductive.
FenceInv == CoreOK /\ Fences

\* Only agents on hold are paused: a resume or the background switch takes an
\* agent out of the paused status whatever else holds it.
PausedIsHeld == \A a \in Agents : agent[a] = "paused" => hold[a] # {}

ControlInv == CoreOK /\ BusyIsLeased /\ PausedIsHeld

\* Clearing a lease keeps the types of the agent's columns.
LEMMA ClearLeaseCore ==
    ASSUME CoreOK, NEW a \in Agents, NEW s \in {"idle", "error"}, ClearLease(a, s)
    PROVE  /\ agent' \in [Agents -> {"idle", "busy", "paused", "error"}]
           /\ lease' \in [Agents -> Runs \cup {NoLease, Orphan}]
           /\ leaseTask' \in [Agents -> Tasks \cup {0}]
BY DEF CoreOK, ClearLease

\* An activation that moves on without a new claim, while the tasks and the
\* leases stay as they are, keeps owners and leases.
LEMMA MoveFence ==
    ASSUME FenceInv, NEW x \in Runs, NEW at, Move(x, at),
           at \in Leased => run[x].at \in Leased \cup {"release"},
           at # "release",
           at \in {"lease", "requeue"} => Owns(x),
           UNCHANGED <<status, lease, leaseTask>>
    PROVE  Fences'
BY DEF FenceInv, Fences, CoreOK, OneOwner, Outcome, LeaseFences, Owns, Move, Leased, Finished

\* A call that throws leads to the catch block of the same ownership.
LEMMA CaughtStages ==
    ASSUME NEW x \in Runs, RunFault(x)
    PROVE  /\ Caught(run[x].at) \in {"failQueued", "failRunning", "failLeased", "unreserve"}
           /\ Move(x, Caught(run[x].at))
           /\ Caught(run[x].at) \in Leased
                => run[x].at \in Leased \/ run[x].at = "release"
BY DEF Caught, RunFault, Unclaimed, Claimed, Leased

\* A fault takes the activation's agent, gives it back, or leaves the agents
\* alone.
LEMMA FaultOnAgents ==
    ASSUME NEW x \in Runs, RunFault(x), run[x].task \in Tasks
    PROVE  /\ hold' = hold
           /\ \/ UNCHANGED <<agent, lease, leaseTask>>
              \/ TakeLease(x) /\ Available(Owner[run[x].task])
              \/ ClearLease(Owner[run[x].task], "idle")
BY SMTT(30) DEF RunFault, Committed

-----------------------------------------------------------------------------
\* Every step keeps these types.
LEMMA CoreStep ==
    ASSUME CoreOK, [Next]_vars
    PROVE  CoreOK'
<1> USE ConstantAssumption DEF CoreOK, taskVars, agentVars, procVars,
        budget, Statuses, Finished, FreeRun, RunStages, Unclaimed, Claimed,
        Leased, Ending
<1>1. ASSUME NEW p \in Procs, NEW t \in Tasks, Assign(p, t)
      PROVE  CoreOK'
  BY <1>1 DEF Assign
<1>2. ASSUME NEW t \in Tasks, CancelRead(t)
      PROVE  CoreOK'
  BY <1>2 DEF CancelRead
<1>3. ASSUME NEW t \in Tasks, CancelWrite(t)
      PROVE  CoreOK'
  BY <1>3 DEF CancelWrite
<1>4. ASSUME NEW t \in Tasks, Age(t)
      PROVE  CoreOK'
  BY <1>4 DEF Age
<1>5. ASSUME NEW a \in Agents, Pause(a)
      PROVE  CoreOK'
  BY <1>5 DEF Pause, Control
<1>6. ASSUME NEW a \in Agents, Resume(a)
      PROVE  CoreOK'
  BY <1>6 DEF Resume, Control
<1>7. ASSUME NEW a \in Agents, BackgroundOn(a)
      PROVE  CoreOK'
  BY <1>7 DEF BackgroundOn, Control
<1>8. ASSUME NEW a \in Agents, BackgroundOff(a)
      PROVE  CoreOK'
  BY <1>8 DEF BackgroundOff, Control
<1>9. ASSUME NEW x \in Runs, ReadTask(x)
      PROVE  CoreOK'
  BY <1>9 DEF ReadTask, Forget, Move, Eligible
<1>10. ASSUME NEW x \in Runs, Authorize(x)
      PROVE  CoreOK'
  BY SMTT(30), <1>10 DEF Authorize, Move
<1>11. ASSUME NEW x \in Runs, ClaimTask(x)
      PROVE  CoreOK'
  BY <1>11 DEF ClaimTask, MarkRunning, Move, EndRun, Forget
<1>12. ASSUME NEW x \in Runs, ClaimAgent(x)
      PROVE  CoreOK'
  BY SMTT(30), <1>12 DEF ClaimAgent, TakeLease, Available, Eligible, Move
<1>13. ASSUME NEW x \in Runs, Requeue(x)
      PROVE  CoreOK'
  BY <1>13 DEF Requeue, EndRun, Forget
<1>14. ASSUME NEW x \in Runs, PolicyAllows(x)
      PROVE  CoreOK'
  BY <1>14 DEF PolicyAllows, Move
<1>15. ASSUME NEW x \in Runs, PolicyBlocks(x)
      PROVE  CoreOK'
  BY SMTT(30), <1>15 DEF PolicyBlocks, ClearLease, Move
<1>16. ASSUME NEW x \in Runs, Reserve(x)
      PROVE  CoreOK'
  BY <1>16 DEF Reserve, Move
<1>17. ASSUME NEW x \in Runs, Execute(x)
      PROVE  CoreOK'
  BY SMTT(30), <1>17 DEF Execute, Move
<1>18. ASSUME NEW x \in Runs, Settle(x)
      PROVE  CoreOK'
  BY SMTT(30), <1>18 DEF Settle, Move
<1>19. ASSUME NEW x \in Runs, Unreserve(x)
      PROVE  CoreOK'
  BY <1>19 DEF Unreserve, Move
<1>20. ASSUME NEW x \in Runs, Complete(x)
      PROVE  CoreOK'
  BY <1>20 DEF Complete, Move
<1>21. ASSUME NEW x \in Runs, Fail(x)
      PROVE  CoreOK'
  BY SMTT(30), <1>21 DEF Fail, Move
<1>22. ASSUME NEW x \in Runs, Release(x)
      PROVE  CoreOK'
  <2> DEFINE a == Owner[run[x].task]
             s == IF run[x].at = "releaseError" THEN "error" ELSE "idle"
  <2>1. a \in Agents /\ s \in {"idle", "error"}
    BY <1>22 DEF Release
  <2>2. ClearLease(a, s) \/ UNCHANGED <<agent, lease, leaseTask>>
    BY <1>22 DEF Release
  <2> HIDE DEF a, s
  <2>3. /\ agent' \in [Agents -> {"idle", "busy", "paused", "error"}]
        /\ lease' \in [Agents -> Runs \cup {NoLease, Orphan}]
        /\ leaseTask' \in [Agents -> Tasks \cup {0}]
    BY <2>1, <2>2, ClearLeaseCore
  <2> QED
    BY SMTT(30), <1>22, <2>3 DEF Release, Move
<1>23. ASSUME NEW x \in Runs, CloseRun(x)
      PROVE  CoreOK'
  BY <1>23 DEF CloseRun, EndRun, Forget
<1>24. ASSUME NEW x \in Runs, RunFault(x)
      PROVE  CoreOK'
  <2> DEFINE at == Caught(run[x].at)
  <2>1. /\ at \in {"failQueued", "failRunning", "failLeased", "unreserve"}
        /\ Move(x, at)
    BY <1>24, CaughtStages
  <2> HIDE DEF at
  <2>2. run[x].at # "free" /\ run[x].task \in Tasks
    BY <1>24 DEF RunFault
  <2>3. status' \in [Tasks -> Statuses]
    BY SMTT(30), <1>24, <2>2 DEF RunFault, Committed, MarkRunning, TakeLease
  <2>4. /\ agent' \in [Agents -> {"idle", "busy", "paused", "error"}]
        /\ lease' \in [Agents -> Runs \cup {NoLease, Orphan}]
        /\ leaseTask' \in [Agents -> Tasks \cup {0}]
    BY SMTT(30), <1>24, <2>2 DEF RunFault, Committed, MarkRunning, TakeLease, ClearLease
  <2> QED
    BY SMTT(30), <1>24, <2>1, <2>3, <2>4 DEF RunFault, Move
<1>25. ASSUME NEW x \in Runs, RunRejects(x)
      PROVE  CoreOK'
  BY <1>25 DEF RunRejects, EndRun, Forget
<1>26. ASSUME NEW p \in Procs, PollStart(p)
      PROVE  CoreOK'
  BY <1>26 DEF PollStart
<1>27. ASSUME NEW p \in Procs, PollSelect(p)
      PROVE  CoreOK'
  BY <1>27 DEF PollSelect
<1>28. ASSUME NEW p \in Procs, NEW t \in Tasks, RecoverTask(p, t)
      PROVE  CoreOK'
  BY <1>28 DEF RecoverTask, ClearLease
<1>29. ASSUME NEW p \in Procs, NEW t \in Tasks, NEW x \in Runs, Launch(p, t, x)
      PROVE  CoreOK'
  BY <1>29 DEF Launch
<1>30. ASSUME NEW p \in Procs, Start(p)
      PROVE  CoreOK'
  BY <1>30 DEF Start
<1>31. ASSUME NEW p \in Procs, PollFault(p)
      PROVE  CoreOK'
  BY <1>31 DEF PollFault
<1>32. ASSUME NEW p \in Procs, StopBegin(p)
      PROVE  CoreOK'
  BY <1>32 DEF StopBegin
<1>33. ASSUME NEW p \in Procs, StopEnd(p)
      PROVE  CoreOK'
  BY <1>33 DEF StopEnd
<1>34. ASSUME NEW p \in Procs, Exit(p)
      PROVE  CoreOK'
  BY <1>34 DEF Exit, Vanish, Forget, RunsOf
<1>35. ASSUME NEW p \in Procs, Crash(p)
      PROVE  CoreOK'
  BY <1>35 DEF Crash, Vanish, Forget, RunsOf
<1>36. ASSUME Revoke
      PROVE  CoreOK'
  BY <1>36 DEF Revoke
<1>37. CASE UNCHANGED vars
  BY <1>37 DEF vars
<1> QED
  BY <1>1, <1>2, <1>3, <1>4, <1>5, <1>6, <1>7, <1>8, <1>9, <1>10, <1>11,
     <1>12, <1>13, <1>14, <1>15, <1>16, <1>17, <1>18, <1>19, <1>20, <1>21,
     <1>22, <1>23, <1>24, <1>25, <1>26, <1>27, <1>28, <1>29, <1>30, <1>31,
     <1>32, <1>33, <1>34, <1>35, <1>36, <1>37
  DEF Next, TaskStep, ControlStep, Proceed, PollStep, LaunchStep

\* Every step keeps the owner of a running task and its lease.
LEMMA FenceStep ==
    ASSUME FenceInv, [Next]_vars
    PROVE  Fences'
<1> USE ConstantAssumption DEF FenceInv, Fences, CoreOK, OneOwner, Outcome,
        LeaseFences, Owns, Statuses, Finished, taskVars, agentVars,
        procVars, budget, FreeRun, RunStages, Unclaimed, Claimed, Leased,
        Ending
<1>1. ASSUME NEW p \in Procs, NEW t \in Tasks, Assign(p, t)
      PROVE  Fences'
  BY <1>1 DEF Assign
<1>2. ASSUME NEW t \in Tasks, CancelRead(t)
      PROVE  Fences'
  BY <1>2 DEF CancelRead
<1>3. ASSUME NEW t \in Tasks, CancelWrite(t)
      PROVE  Fences'
  BY <1>3 DEF CancelWrite
<1>4. ASSUME NEW t \in Tasks, Age(t)
      PROVE  Fences'
  BY <1>4 DEF Age
<1>5. ASSUME NEW a \in Agents, Pause(a)
      PROVE  Fences'
  BY <1>5 DEF Pause, Control
<1>6. ASSUME NEW a \in Agents, Resume(a)
      PROVE  Fences'
  BY <1>6 DEF Resume, Control
<1>7. ASSUME NEW a \in Agents, BackgroundOn(a)
      PROVE  Fences'
  BY <1>7 DEF BackgroundOn, Control
<1>8. ASSUME NEW a \in Agents, BackgroundOff(a)
      PROVE  Fences'
  BY <1>8 DEF BackgroundOff, Control
<1>9. ASSUME NEW x \in Runs, ReadTask(x)
      PROVE  Fences'
  BY SMTT(30), <1>9 DEF ReadTask, Forget, Move, Eligible
<1>10. ASSUME NEW x \in Runs, Authorize(x)
      PROVE  Fences'
  BY <1>10 DEF Authorize, Move
<1>11. ASSUME NEW x \in Runs, ClaimTask(x)
      PROVE  Fences'
  <2>1. CASE status[run[x].task] = "queued"
    <3>1. /\ status' = [status EXCEPT ![run[x].task] = "running"]
          /\ Move(x, "lease")
          /\ UNCHANGED <<lease, leaseTask>>
      BY <1>11, <2>1 DEF ClaimTask, MarkRunning
    <3>2. \A y \in Runs : Owns(y) => run[y].task # run[x].task
      BY <2>1
    <3> QED
      BY <1>11, <2>1, <3>1, <3>2 DEF Move, ClaimTask
  <2>2. CASE status[run[x].task] # "queued"
    BY <1>11, <2>2 DEF ClaimTask, EndRun, Forget
  <2> QED
    BY <2>1, <2>2
<1>12. ASSUME NEW x \in Runs, ClaimAgent(x)
      PROVE  Fences'
  <2>1. CASE Available(Owner[run[x].task])
    <3>1. TakeLease(x) /\ Move(x, "policy") /\ UNCHANGED status
      BY <1>12, <2>1 DEF ClaimAgent
    <3> QED
      BY <1>12, <2>1, <3>1 DEF ClaimAgent, TakeLease, Available, Move
  <2>2. CASE ~Available(Owner[run[x].task])
    BY <1>12, <2>2, MoveFence DEF ClaimAgent
  <2> QED
    BY <2>1, <2>2
<1>13. ASSUME NEW x \in Runs, Requeue(x)
      PROVE  Fences'
  BY <1>13 DEF Requeue, EndRun, Forget
<1>14. ASSUME NEW x \in Runs, PolicyAllows(x)
      PROVE  Fences'
  BY <1>14 DEF PolicyAllows, Move
<1>15. ASSUME NEW x \in Runs, PolicyBlocks(x)
      PROVE  Fences'
  <2>1. CASE status[run[x].task] = "running"
    <3>1. /\ status' = [status EXCEPT ![run[x].task] = "failed"]
          /\ Move(x, "close")
          /\ lease' = [lease EXCEPT ![Owner[run[x].task]] = NoLease]
          /\ leaseTask' = [leaseTask EXCEPT ![Owner[run[x].task]] = 0]
      BY <1>15, <2>1 DEF PolicyBlocks, ClearLease
    <3> QED
      BY <1>15, <2>1, <3>1 DEF Move, PolicyBlocks
  <2>2. CASE status[run[x].task] # "running"
    <3>1. Move(x, "release") /\ UNCHANGED <<status, lease, leaseTask>>
      BY <1>15, <2>2 DEF PolicyBlocks
    <3>2. status[run[x].task] \in Finished
      BY <1>15, <2>2 DEF PolicyBlocks
    <3> QED
      BY <1>15, <3>1, <3>2 DEF Move, PolicyBlocks
  <2> QED
    BY <2>1, <2>2
<1>16. ASSUME NEW x \in Runs, Reserve(x)
      PROVE  Fences'
  <2>1. PICK at \in {"exec", "failLeased"} : Move(x, at)
    BY <1>16 DEF Reserve
  <2> QED
    BY <1>16, <2>1, MoveFence DEF Reserve
<1>17. ASSUME NEW x \in Runs, Execute(x)
      PROVE  Fences'
  <2>1. PICK at \in {"settle", "unreserve"} : Move(x, at)
    BY <1>17 DEF Execute
  <2> QED
    BY <1>17, <2>1, MoveFence DEF Execute
<1>18. ASSUME NEW x \in Runs, Settle(x)
      PROVE  Fences'
  <2>1. PICK at \in {"complete", "unreserve"} : Move(x, at)
    BY <1>18 DEF Settle
  <2> QED
    BY <1>18, <2>1, MoveFence DEF Settle, Leased
<1>19. ASSUME NEW x \in Runs, Unreserve(x)
      PROVE  Fences'
  BY <1>19 DEF Unreserve, Move
<1>20. ASSUME NEW x \in Runs, Complete(x)
      PROVE  Fences'
  BY <1>20 DEF Complete, Move
<1>21. ASSUME NEW x \in Runs, Fail(x)
      PROVE  Fences'
  BY <1>21 DEF Fail, Move
<1>22. ASSUME NEW x \in Runs, Release(x)
      PROVE  Fences'
  BY <1>22 DEF Release, ClearLease, Move
<1>23. ASSUME NEW x \in Runs, CloseRun(x)
      PROVE  Fences'
  BY <1>23 DEF CloseRun, EndRun, Forget
<1>24. ASSUME NEW x \in Runs, RunFault(x)
      PROVE  Fences'
  <2> DEFINE t == run[x].task
             a == Owner[t]
             at == Caught(run[x].at)
  <2>1. /\ at \in {"failQueued", "failRunning", "failLeased", "unreserve"}
        /\ Move(x, at)
        /\ at \in Leased => run[x].at \in Leased \/ run[x].at = "release"
        /\ t \in Tasks
    BY <1>24, CaughtStages DEF RunFault
  <2> HIDE DEF at
  <2>2. CASE run[x].at = "claim" /\ status[t] = "queued"
             /\ MarkRunning(t) /\ UNCHANGED <<usage, agent, lease, leaseTask>>
    BY <2>1, <2>2 DEF MarkRunning, Move
  <2>3. CASE run[x].at = "lease" /\ Available(a)
             /\ TakeLease(x) /\ UNCHANGED <<status, old, usage>>
    BY <2>1, <2>3 DEF TakeLease, Available, Move
  <2>4. CASE run[x].at = "requeue" /\ status[t] = "running"
             /\ status' = [status EXCEPT ![t] = "queued"]
             /\ UNCHANGED <<usage, agent, lease, leaseTask>>
    BY <2>1, <2>4 DEF Move
  <2>5. CASE run[x].at = "policy" /\ status[t] = "running"
             /\ status' = [status EXCEPT ![t] = "failed"]
             /\ (ClearLease(a, "idle") \/ UNCHANGED <<agent, lease, leaseTask>>)
    <3>1. CASE ClearLease(a, "idle")
      <4>1. /\ lease' = [lease EXCEPT ![a] = NoLease]
            /\ leaseTask' = [leaseTask EXCEPT ![a] = 0]
        BY <3>1 DEF ClearLease
      <4> QED
        BY SMTT(30), <2>1, <2>5, <4>1 DEF Move
    <3>2. CASE UNCHANGED <<agent, lease, leaseTask>>
      BY SMTT(30), <2>1, <2>5, <3>2 DEF Move
    <3> QED
      BY <2>5, <3>1, <3>2
  <2>6. CASE UNCHANGED <<status, lease, leaseTask>>
    BY <2>1, <2>6, MoveFence
  <2>7. CASE run[x].at = "complete" /\ status[t] = "running"
             /\ status' = [status EXCEPT ![t] = "completed"]
             /\ UNCHANGED <<old, usage, agent, lease, leaseTask>>
    BY <2>1, <2>7 DEF Move
  <2>8. CASE run[x].at = "release" /\ lease[a] = x
             /\ ClearLease(a, "idle") /\ UNCHANGED <<status, old, usage>>
    BY <2>1, <2>8 DEF ClearLease, Move
  <2> QED
    BY <1>24, <2>2, <2>3, <2>4, <2>5, <2>6, <2>7, <2>8 DEF RunFault, Committed
<1>25. ASSUME NEW x \in Runs, RunRejects(x)
      PROVE  Fences'
  BY <1>25 DEF RunRejects, EndRun, Forget
<1>26. ASSUME NEW p \in Procs, PollStart(p)
      PROVE  Fences'
  BY <1>26 DEF PollStart
<1>27. ASSUME NEW p \in Procs, PollSelect(p)
      PROVE  Fences'
  BY <1>27 DEF PollSelect
<1>28. ASSUME NEW p \in Procs, NEW t \in Tasks, RecoverTask(p, t)
      PROVE  Fences'
  BY <1>28 DEF RecoverTask, ClearLease
<1>29. ASSUME NEW p \in Procs, NEW t \in Tasks, NEW x \in Runs, Launch(p, t, x)
      PROVE  Fences'
  BY <1>29 DEF Launch
<1>30. ASSUME NEW p \in Procs, Start(p)
      PROVE  Fences'
  BY <1>30 DEF Start
<1>31. ASSUME NEW p \in Procs, PollFault(p)
      PROVE  Fences'
  BY <1>31 DEF PollFault
<1>32. ASSUME NEW p \in Procs, StopBegin(p)
      PROVE  Fences'
  BY <1>32 DEF StopBegin
<1>33. ASSUME NEW p \in Procs, StopEnd(p)
      PROVE  Fences'
  BY <1>33 DEF StopEnd
<1>34. ASSUME NEW p \in Procs, Exit(p)
      PROVE  Fences'
  BY <1>34 DEF Exit, Vanish, Forget, RunsOf
<1>35. ASSUME NEW p \in Procs, Crash(p)
      PROVE  Fences'
  BY SMTT(30), <1>35 DEF Crash, Vanish, Forget, RunsOf
<1>36. ASSUME Revoke
      PROVE  Fences'
  BY <1>36 DEF Revoke
<1>37. CASE UNCHANGED vars
  BY <1>37 DEF vars
<1> QED
  BY <1>1, <1>2, <1>3, <1>4, <1>5, <1>6, <1>7, <1>8, <1>9, <1>10, <1>11,
     <1>12, <1>13, <1>14, <1>15, <1>16, <1>17, <1>18, <1>19, <1>20, <1>21,
     <1>22, <1>23, <1>24, <1>25, <1>26, <1>27, <1>28, <1>29, <1>30, <1>31,
     <1>32, <1>33, <1>34, <1>35, <1>36, <1>37
  DEF Next, TaskStep, ControlStep, Proceed, PollStep, LaunchStep

\* Every step keeps a busy agent leased and a paused one on hold.
LEMMA ControlStepInv ==
    ASSUME ControlInv, [Next]_vars
    PROVE  BusyIsLeased' /\ PausedIsHeld'
<1> USE ConstantAssumption DEF ControlInv, CoreOK, BusyIsLeased,
        PausedIsHeld, taskVars, agentVars, procVars, budget
<1>1. ASSUME NEW p \in Procs, NEW t \in Tasks, Assign(p, t)
      PROVE  BusyIsLeased' /\ PausedIsHeld'
  BY <1>1 DEF Assign
<1>2. ASSUME NEW t \in Tasks, CancelRead(t)
      PROVE  BusyIsLeased' /\ PausedIsHeld'
  BY <1>2 DEF CancelRead
<1>3. ASSUME NEW t \in Tasks, CancelWrite(t)
      PROVE  BusyIsLeased' /\ PausedIsHeld'
  BY <1>3 DEF CancelWrite
<1>4. ASSUME NEW t \in Tasks, Age(t)
      PROVE  BusyIsLeased' /\ PausedIsHeld'
  BY <1>4 DEF Age
<1>5. ASSUME NEW a \in Agents, Pause(a)
      PROVE  BusyIsLeased' /\ PausedIsHeld'
  BY <1>5 DEF Pause, Control
<1>6. ASSUME NEW a \in Agents, Resume(a)
      PROVE  BusyIsLeased' /\ PausedIsHeld'
  BY <1>6 DEF Resume, Control
<1>7. ASSUME NEW a \in Agents, BackgroundOn(a)
      PROVE  BusyIsLeased' /\ PausedIsHeld'
  BY <1>7 DEF BackgroundOn, Control
<1>8. ASSUME NEW a \in Agents, BackgroundOff(a)
      PROVE  BusyIsLeased' /\ PausedIsHeld'
  BY <1>8 DEF BackgroundOff, Control
<1>9. ASSUME NEW x \in Runs, ReadTask(x)
      PROVE  BusyIsLeased' /\ PausedIsHeld'
  BY <1>9 DEF ReadTask, Forget, Move, Eligible
<1>10. ASSUME NEW x \in Runs, Authorize(x)
      PROVE  BusyIsLeased' /\ PausedIsHeld'
  BY <1>10 DEF Authorize, Move
<1>11. ASSUME NEW x \in Runs, ClaimTask(x)
      PROVE  BusyIsLeased' /\ PausedIsHeld'
  BY <1>11 DEF ClaimTask, MarkRunning, Move, EndRun, Forget
<1>12. ASSUME NEW x \in Runs, ClaimAgent(x)
      PROVE  BusyIsLeased' /\ PausedIsHeld'
  BY <1>12 DEF ClaimAgent, TakeLease, Available, Eligible, Move
<1>13. ASSUME NEW x \in Runs, Requeue(x)
      PROVE  BusyIsLeased' /\ PausedIsHeld'
  BY <1>13 DEF Requeue, EndRun, Forget
<1>14. ASSUME NEW x \in Runs, PolicyAllows(x)
      PROVE  BusyIsLeased' /\ PausedIsHeld'
  BY <1>14 DEF PolicyAllows, Move
<1>15. ASSUME NEW x \in Runs, PolicyBlocks(x)
      PROVE  BusyIsLeased' /\ PausedIsHeld'
  BY <1>15 DEF PolicyBlocks, ClearLease, Move
<1>16. ASSUME NEW x \in Runs, Reserve(x)
      PROVE  BusyIsLeased' /\ PausedIsHeld'
  BY <1>16 DEF Reserve, Move
<1>17. ASSUME NEW x \in Runs, Execute(x)
      PROVE  BusyIsLeased' /\ PausedIsHeld'
  BY <1>17 DEF Execute, Move
<1>18. ASSUME NEW x \in Runs, Settle(x)
      PROVE  BusyIsLeased' /\ PausedIsHeld'
  BY <1>18 DEF Settle, Move
<1>19. ASSUME NEW x \in Runs, Unreserve(x)
      PROVE  BusyIsLeased' /\ PausedIsHeld'
  BY <1>19 DEF Unreserve, Move
<1>20. ASSUME NEW x \in Runs, Complete(x)
      PROVE  BusyIsLeased' /\ PausedIsHeld'
  BY <1>20 DEF Complete, Move
<1>21. ASSUME NEW x \in Runs, Fail(x)
      PROVE  BusyIsLeased' /\ PausedIsHeld'
  BY <1>21 DEF Fail, Move
<1>22. ASSUME NEW x \in Runs, Release(x)
      PROVE  BusyIsLeased' /\ PausedIsHeld'
  BY SMTT(30), <1>22 DEF Release, ClearLease, Move
<1>23. ASSUME NEW x \in Runs, CloseRun(x)
      PROVE  BusyIsLeased' /\ PausedIsHeld'
  BY <1>23 DEF CloseRun, EndRun, Forget
<1>24. ASSUME NEW x \in Runs, RunFault(x)
      PROVE  BusyIsLeased' /\ PausedIsHeld'
  <2>1. run[x].task \in Tasks
    BY <1>24 DEF RunFault
  <2> DEFINE a == Owner[run[x].task]
  <2>2. a \in Agents /\ hold' = hold
    BY <1>24, <2>1, FaultOnAgents
  <2> HIDE DEF a
  <2>3. CASE UNCHANGED <<agent, lease, leaseTask>>
    BY <2>3, <2>2
  <2>4. CASE TakeLease(x) /\ Available(a)
    <3>1. /\ agent' = [agent EXCEPT ![a] = "busy"]
          /\ lease' = [lease EXCEPT ![a] = x]
          /\ hold[a] = {}
      BY <2>4 DEF TakeLease, Available, Eligible, a
    <3> QED
      BY SMTT(30), <2>2, <3>1
  <2>5. CASE ClearLease(a, "idle")
    BY SMTT(30), <2>5, <2>2 DEF ClearLease
  <2> QED
    BY <1>24, <2>1, <2>3, <2>4, <2>5, FaultOnAgents DEF a
<1>25. ASSUME NEW x \in Runs, RunRejects(x)
      PROVE  BusyIsLeased' /\ PausedIsHeld'
  BY <1>25 DEF RunRejects, EndRun, Forget
<1>26. ASSUME NEW p \in Procs, PollStart(p)
      PROVE  BusyIsLeased' /\ PausedIsHeld'
  BY <1>26 DEF PollStart
<1>27. ASSUME NEW p \in Procs, PollSelect(p)
      PROVE  BusyIsLeased' /\ PausedIsHeld'
  BY <1>27 DEF PollSelect
<1>28. ASSUME NEW p \in Procs, NEW t \in Tasks, RecoverTask(p, t)
      PROVE  BusyIsLeased' /\ PausedIsHeld'
  BY <1>28 DEF RecoverTask, ClearLease
<1>29. ASSUME NEW p \in Procs, NEW t \in Tasks, NEW x \in Runs, Launch(p, t, x)
      PROVE  BusyIsLeased' /\ PausedIsHeld'
  BY <1>29 DEF Launch
<1>30. ASSUME NEW p \in Procs, Start(p)
      PROVE  BusyIsLeased' /\ PausedIsHeld'
  BY <1>30 DEF Start
<1>31. ASSUME NEW p \in Procs, PollFault(p)
      PROVE  BusyIsLeased' /\ PausedIsHeld'
  BY <1>31 DEF PollFault
<1>32. ASSUME NEW p \in Procs, StopBegin(p)
      PROVE  BusyIsLeased' /\ PausedIsHeld'
  BY <1>32 DEF StopBegin
<1>33. ASSUME NEW p \in Procs, StopEnd(p)
      PROVE  BusyIsLeased' /\ PausedIsHeld'
  BY <1>33 DEF StopEnd
<1>34. ASSUME NEW p \in Procs, Exit(p)
      PROVE  BusyIsLeased' /\ PausedIsHeld'
  BY <1>34 DEF Exit, Vanish, Forget, RunsOf
<1>35. ASSUME NEW p \in Procs, Crash(p)
      PROVE  BusyIsLeased' /\ PausedIsHeld'
  BY <1>35 DEF Crash, Vanish, Forget, RunsOf
<1>36. ASSUME Revoke
      PROVE  BusyIsLeased' /\ PausedIsHeld'
  BY <1>36 DEF Revoke
<1>37. CASE UNCHANGED vars
  BY <1>37 DEF vars
<1> QED
  BY <1>1, <1>2, <1>3, <1>4, <1>5, <1>6, <1>7, <1>8, <1>9, <1>10, <1>11,
     <1>12, <1>13, <1>14, <1>15, <1>16, <1>17, <1>18, <1>19, <1>20, <1>21,
     <1>22, <1>23, <1>24, <1>25, <1>26, <1>27, <1>28, <1>29, <1>30, <1>31,
     <1>32, <1>33, <1>34, <1>35, <1>36, <1>37
  DEF Next, TaskStep, ControlStep, Proceed, PollStep, LaunchStep

\* Only a user's act takes an agent out of the paused status.
LEMMA PauseStep ==
    ASSUME ControlInv, [Next]_vars
    PROVE  \A b \in Agents : agent[b] = "paused" /\ agent'[b] # "paused"
                               => acts' = acts + 1
<1> USE DEF ControlInv, CoreOK, BusyIsLeased, PausedIsHeld, Act, taskVars,
        agentVars, procVars, budget
<1>1. ASSUME NEW p \in Procs, NEW t \in Tasks, Assign(p, t)
      PROVE  \A b \in Agents : agent[b] = "paused" /\ agent'[b] # "paused"
                               => acts' = acts + 1
  BY <1>1 DEF Assign
<1>2. ASSUME NEW t \in Tasks, CancelRead(t)
      PROVE  \A b \in Agents : agent[b] = "paused" /\ agent'[b] # "paused"
                               => acts' = acts + 1
  BY <1>2 DEF CancelRead
<1>3. ASSUME NEW t \in Tasks, CancelWrite(t)
      PROVE  \A b \in Agents : agent[b] = "paused" /\ agent'[b] # "paused"
                               => acts' = acts + 1
  BY <1>3 DEF CancelWrite
<1>4. ASSUME NEW t \in Tasks, Age(t)
      PROVE  \A b \in Agents : agent[b] = "paused" /\ agent'[b] # "paused"
                               => acts' = acts + 1
  BY <1>4 DEF Age
<1>5. ASSUME NEW a \in Agents, Pause(a)
      PROVE  \A b \in Agents : agent[b] = "paused" /\ agent'[b] # "paused"
                               => acts' = acts + 1
  BY <1>5 DEF Pause, Control
<1>6. ASSUME NEW a \in Agents, Resume(a)
      PROVE  \A b \in Agents : agent[b] = "paused" /\ agent'[b] # "paused"
                               => acts' = acts + 1
  BY <1>6 DEF Resume, Control
<1>7. ASSUME NEW a \in Agents, BackgroundOn(a)
      PROVE  \A b \in Agents : agent[b] = "paused" /\ agent'[b] # "paused"
                               => acts' = acts + 1
  BY <1>7 DEF BackgroundOn, Control
<1>8. ASSUME NEW a \in Agents, BackgroundOff(a)
      PROVE  \A b \in Agents : agent[b] = "paused" /\ agent'[b] # "paused"
                               => acts' = acts + 1
  BY <1>8 DEF BackgroundOff, Control
<1>9. ASSUME NEW x \in Runs, ReadTask(x)
      PROVE  \A b \in Agents : agent[b] = "paused" /\ agent'[b] # "paused"
                               => acts' = acts + 1
  BY <1>9 DEF ReadTask, Forget, Move, Eligible
<1>10. ASSUME NEW x \in Runs, Authorize(x)
      PROVE  \A b \in Agents : agent[b] = "paused" /\ agent'[b] # "paused"
                               => acts' = acts + 1
  BY <1>10 DEF Authorize, Move
<1>11. ASSUME NEW x \in Runs, ClaimTask(x)
      PROVE  \A b \in Agents : agent[b] = "paused" /\ agent'[b] # "paused"
                               => acts' = acts + 1
  BY <1>11 DEF ClaimTask, MarkRunning, Move, EndRun, Forget
<1>12. ASSUME NEW x \in Runs, ClaimAgent(x)
      PROVE  \A b \in Agents : agent[b] = "paused" /\ agent'[b] # "paused"
                               => acts' = acts + 1
  BY <1>12 DEF ClaimAgent, TakeLease, Available, Eligible, Move
<1>13. ASSUME NEW x \in Runs, Requeue(x)
      PROVE  \A b \in Agents : agent[b] = "paused" /\ agent'[b] # "paused"
                               => acts' = acts + 1
  BY <1>13 DEF Requeue, EndRun, Forget
<1>14. ASSUME NEW x \in Runs, PolicyAllows(x)
      PROVE  \A b \in Agents : agent[b] = "paused" /\ agent'[b] # "paused"
                               => acts' = acts + 1
  BY <1>14 DEF PolicyAllows, Move
<1>15. ASSUME NEW x \in Runs, PolicyBlocks(x)
      PROVE  \A b \in Agents : agent[b] = "paused" /\ agent'[b] # "paused"
                               => acts' = acts + 1
  BY <1>15 DEF PolicyBlocks, ClearLease, Move
<1>16. ASSUME NEW x \in Runs, Reserve(x)
      PROVE  \A b \in Agents : agent[b] = "paused" /\ agent'[b] # "paused"
                               => acts' = acts + 1
  BY <1>16 DEF Reserve, Move
<1>17. ASSUME NEW x \in Runs, Execute(x)
      PROVE  \A b \in Agents : agent[b] = "paused" /\ agent'[b] # "paused"
                               => acts' = acts + 1
  BY <1>17 DEF Execute, Move
<1>18. ASSUME NEW x \in Runs, Settle(x)
      PROVE  \A b \in Agents : agent[b] = "paused" /\ agent'[b] # "paused"
                               => acts' = acts + 1
  BY <1>18 DEF Settle, Move
<1>19. ASSUME NEW x \in Runs, Unreserve(x)
      PROVE  \A b \in Agents : agent[b] = "paused" /\ agent'[b] # "paused"
                               => acts' = acts + 1
  BY <1>19 DEF Unreserve, Move
<1>20. ASSUME NEW x \in Runs, Complete(x)
      PROVE  \A b \in Agents : agent[b] = "paused" /\ agent'[b] # "paused"
                               => acts' = acts + 1
  BY <1>20 DEF Complete, Move
<1>21. ASSUME NEW x \in Runs, Fail(x)
      PROVE  \A b \in Agents : agent[b] = "paused" /\ agent'[b] # "paused"
                               => acts' = acts + 1
  BY <1>21 DEF Fail, Move
<1>22. ASSUME NEW x \in Runs, Release(x)
      PROVE  \A b \in Agents : agent[b] = "paused" /\ agent'[b] # "paused"
                               => acts' = acts + 1
  BY <1>22 DEF Release, ClearLease, Move
<1>23. ASSUME NEW x \in Runs, CloseRun(x)
      PROVE  \A b \in Agents : agent[b] = "paused" /\ agent'[b] # "paused"
                               => acts' = acts + 1
  BY <1>23 DEF CloseRun, EndRun, Forget
<1>24. ASSUME NEW x \in Runs, RunFault(x)
      PROVE  \A b \in Agents : agent[b] = "paused" /\ agent'[b] # "paused"
                               => acts' = acts + 1
  BY SMTT(30), <1>24 DEF RunFault, Committed, MarkRunning, TakeLease, Available,
     Eligible, ClearLease, Caught, Move
<1>25. ASSUME NEW x \in Runs, RunRejects(x)
      PROVE  \A b \in Agents : agent[b] = "paused" /\ agent'[b] # "paused"
                               => acts' = acts + 1
  BY <1>25 DEF RunRejects, EndRun, Forget
<1>26. ASSUME NEW p \in Procs, PollStart(p)
      PROVE  \A b \in Agents : agent[b] = "paused" /\ agent'[b] # "paused"
                               => acts' = acts + 1
  BY <1>26 DEF PollStart
<1>27. ASSUME NEW p \in Procs, PollSelect(p)
      PROVE  \A b \in Agents : agent[b] = "paused" /\ agent'[b] # "paused"
                               => acts' = acts + 1
  BY <1>27 DEF PollSelect
<1>28. ASSUME NEW p \in Procs, NEW t \in Tasks, RecoverTask(p, t)
      PROVE  \A b \in Agents : agent[b] = "paused" /\ agent'[b] # "paused"
                               => acts' = acts + 1
  BY <1>28 DEF RecoverTask, ClearLease
<1>29. ASSUME NEW p \in Procs, NEW t \in Tasks, NEW x \in Runs, Launch(p, t, x)
      PROVE  \A b \in Agents : agent[b] = "paused" /\ agent'[b] # "paused"
                               => acts' = acts + 1
  BY <1>29 DEF Launch
<1>30. ASSUME NEW p \in Procs, Start(p)
      PROVE  \A b \in Agents : agent[b] = "paused" /\ agent'[b] # "paused"
                               => acts' = acts + 1
  BY <1>30 DEF Start
<1>31. ASSUME NEW p \in Procs, PollFault(p)
      PROVE  \A b \in Agents : agent[b] = "paused" /\ agent'[b] # "paused"
                               => acts' = acts + 1
  BY <1>31 DEF PollFault
<1>32. ASSUME NEW p \in Procs, StopBegin(p)
      PROVE  \A b \in Agents : agent[b] = "paused" /\ agent'[b] # "paused"
                               => acts' = acts + 1
  BY <1>32 DEF StopBegin
<1>33. ASSUME NEW p \in Procs, StopEnd(p)
      PROVE  \A b \in Agents : agent[b] = "paused" /\ agent'[b] # "paused"
                               => acts' = acts + 1
  BY <1>33 DEF StopEnd
<1>34. ASSUME NEW p \in Procs, Exit(p)
      PROVE  \A b \in Agents : agent[b] = "paused" /\ agent'[b] # "paused"
                               => acts' = acts + 1
  BY <1>34 DEF Exit, Vanish, Forget, RunsOf
<1>35. ASSUME NEW p \in Procs, Crash(p)
      PROVE  \A b \in Agents : agent[b] = "paused" /\ agent'[b] # "paused"
                               => acts' = acts + 1
  BY <1>35 DEF Crash, Vanish, Forget, RunsOf
<1>36. ASSUME Revoke
      PROVE  \A b \in Agents : agent[b] = "paused" /\ agent'[b] # "paused"
                               => acts' = acts + 1
  BY <1>36 DEF Revoke
<1>37. CASE UNCHANGED vars
  BY <1>37 DEF vars
<1> QED
  BY <1>1, <1>2, <1>3, <1>4, <1>5, <1>6, <1>7, <1>8, <1>9, <1>10, <1>11,
     <1>12, <1>13, <1>14, <1>15, <1>16, <1>17, <1>18, <1>19, <1>20, <1>21,
     <1>22, <1>23, <1>24, <1>25, <1>26, <1>27, <1>28, <1>29, <1>30, <1>31,
     <1>32, <1>33, <1>34, <1>35, <1>36, <1>37
  DEF Next, TaskStep, ControlStep, Proceed, PollStep, LaunchStep

\* No step changes a canceled task.
LEMMA CancelStep ==
    ASSUME CoreOK, [Next]_vars
    PROVE  \A u \in Tasks : status[u] = "canceled" => status'[u] = "canceled"
<1> USE DEF CoreOK, taskVars, agentVars, procVars, budget
<1>1. ASSUME NEW p \in Procs, NEW t \in Tasks, Assign(p, t)
      PROVE  \A u \in Tasks : status[u] = "canceled" => status'[u] = "canceled"
  BY <1>1 DEF Assign
<1>2. ASSUME NEW t \in Tasks, CancelRead(t)
      PROVE  \A u \in Tasks : status[u] = "canceled" => status'[u] = "canceled"
  BY <1>2 DEF CancelRead
<1>3. ASSUME NEW t \in Tasks, CancelWrite(t)
      PROVE  \A u \in Tasks : status[u] = "canceled" => status'[u] = "canceled"
  BY <1>3 DEF CancelWrite
<1>4. ASSUME NEW t \in Tasks, Age(t)
      PROVE  \A u \in Tasks : status[u] = "canceled" => status'[u] = "canceled"
  BY <1>4 DEF Age
<1>5. ASSUME NEW a \in Agents, Pause(a)
      PROVE  \A u \in Tasks : status[u] = "canceled" => status'[u] = "canceled"
  BY <1>5 DEF Pause, Control
<1>6. ASSUME NEW a \in Agents, Resume(a)
      PROVE  \A u \in Tasks : status[u] = "canceled" => status'[u] = "canceled"
  BY <1>6 DEF Resume, Control
<1>7. ASSUME NEW a \in Agents, BackgroundOn(a)
      PROVE  \A u \in Tasks : status[u] = "canceled" => status'[u] = "canceled"
  BY <1>7 DEF BackgroundOn, Control
<1>8. ASSUME NEW a \in Agents, BackgroundOff(a)
      PROVE  \A u \in Tasks : status[u] = "canceled" => status'[u] = "canceled"
  BY <1>8 DEF BackgroundOff, Control
<1>9. ASSUME NEW x \in Runs, ReadTask(x)
      PROVE  \A u \in Tasks : status[u] = "canceled" => status'[u] = "canceled"
  BY <1>9 DEF ReadTask, Forget, Move, Eligible
<1>10. ASSUME NEW x \in Runs, Authorize(x)
      PROVE  \A u \in Tasks : status[u] = "canceled" => status'[u] = "canceled"
  BY <1>10 DEF Authorize, Move
<1>11. ASSUME NEW x \in Runs, ClaimTask(x)
      PROVE  \A u \in Tasks : status[u] = "canceled" => status'[u] = "canceled"
  BY <1>11 DEF ClaimTask, MarkRunning, Move, EndRun, Forget
<1>12. ASSUME NEW x \in Runs, ClaimAgent(x)
      PROVE  \A u \in Tasks : status[u] = "canceled" => status'[u] = "canceled"
  BY <1>12 DEF ClaimAgent, TakeLease, Available, Eligible, Move
<1>13. ASSUME NEW x \in Runs, Requeue(x)
      PROVE  \A u \in Tasks : status[u] = "canceled" => status'[u] = "canceled"
  BY <1>13 DEF Requeue, EndRun, Forget
<1>14. ASSUME NEW x \in Runs, PolicyAllows(x)
      PROVE  \A u \in Tasks : status[u] = "canceled" => status'[u] = "canceled"
  BY <1>14 DEF PolicyAllows, Move
<1>15. ASSUME NEW x \in Runs, PolicyBlocks(x)
      PROVE  \A u \in Tasks : status[u] = "canceled" => status'[u] = "canceled"
  BY <1>15 DEF PolicyBlocks, ClearLease, Move
<1>16. ASSUME NEW x \in Runs, Reserve(x)
      PROVE  \A u \in Tasks : status[u] = "canceled" => status'[u] = "canceled"
  BY <1>16 DEF Reserve, Move
<1>17. ASSUME NEW x \in Runs, Execute(x)
      PROVE  \A u \in Tasks : status[u] = "canceled" => status'[u] = "canceled"
  BY <1>17 DEF Execute, Move
<1>18. ASSUME NEW x \in Runs, Settle(x)
      PROVE  \A u \in Tasks : status[u] = "canceled" => status'[u] = "canceled"
  BY <1>18 DEF Settle, Move
<1>19. ASSUME NEW x \in Runs, Unreserve(x)
      PROVE  \A u \in Tasks : status[u] = "canceled" => status'[u] = "canceled"
  BY <1>19 DEF Unreserve, Move
<1>20. ASSUME NEW x \in Runs, Complete(x)
      PROVE  \A u \in Tasks : status[u] = "canceled" => status'[u] = "canceled"
  BY <1>20 DEF Complete, Move
<1>21. ASSUME NEW x \in Runs, Fail(x)
      PROVE  \A u \in Tasks : status[u] = "canceled" => status'[u] = "canceled"
  BY <1>21 DEF Fail, Move
<1>22. ASSUME NEW x \in Runs, Release(x)
      PROVE  \A u \in Tasks : status[u] = "canceled" => status'[u] = "canceled"
  BY <1>22 DEF Release, ClearLease, Move
<1>23. ASSUME NEW x \in Runs, CloseRun(x)
      PROVE  \A u \in Tasks : status[u] = "canceled" => status'[u] = "canceled"
  BY <1>23 DEF CloseRun, EndRun, Forget
<1>24. ASSUME NEW x \in Runs, RunFault(x)
      PROVE  \A u \in Tasks : status[u] = "canceled" => status'[u] = "canceled"
  BY <1>24 DEF RunFault, Committed, MarkRunning, TakeLease, Available,
     Eligible, ClearLease, Caught, Move
<1>25. ASSUME NEW x \in Runs, RunRejects(x)
      PROVE  \A u \in Tasks : status[u] = "canceled" => status'[u] = "canceled"
  BY <1>25 DEF RunRejects, EndRun, Forget
<1>26. ASSUME NEW p \in Procs, PollStart(p)
      PROVE  \A u \in Tasks : status[u] = "canceled" => status'[u] = "canceled"
  BY <1>26 DEF PollStart
<1>27. ASSUME NEW p \in Procs, PollSelect(p)
      PROVE  \A u \in Tasks : status[u] = "canceled" => status'[u] = "canceled"
  BY <1>27 DEF PollSelect
<1>28. ASSUME NEW p \in Procs, NEW t \in Tasks, RecoverTask(p, t)
      PROVE  \A u \in Tasks : status[u] = "canceled" => status'[u] = "canceled"
  BY <1>28 DEF RecoverTask, ClearLease
<1>29. ASSUME NEW p \in Procs, NEW t \in Tasks, NEW x \in Runs, Launch(p, t, x)
      PROVE  \A u \in Tasks : status[u] = "canceled" => status'[u] = "canceled"
  BY <1>29 DEF Launch
<1>30. ASSUME NEW p \in Procs, Start(p)
      PROVE  \A u \in Tasks : status[u] = "canceled" => status'[u] = "canceled"
  BY <1>30 DEF Start
<1>31. ASSUME NEW p \in Procs, PollFault(p)
      PROVE  \A u \in Tasks : status[u] = "canceled" => status'[u] = "canceled"
  BY <1>31 DEF PollFault
<1>32. ASSUME NEW p \in Procs, StopBegin(p)
      PROVE  \A u \in Tasks : status[u] = "canceled" => status'[u] = "canceled"
  BY <1>32 DEF StopBegin
<1>33. ASSUME NEW p \in Procs, StopEnd(p)
      PROVE  \A u \in Tasks : status[u] = "canceled" => status'[u] = "canceled"
  BY <1>33 DEF StopEnd
<1>34. ASSUME NEW p \in Procs, Exit(p)
      PROVE  \A u \in Tasks : status[u] = "canceled" => status'[u] = "canceled"
  BY <1>34 DEF Exit, Vanish, Forget, RunsOf
<1>35. ASSUME NEW p \in Procs, Crash(p)
      PROVE  \A u \in Tasks : status[u] = "canceled" => status'[u] = "canceled"
  BY <1>35 DEF Crash, Vanish, Forget, RunsOf
<1>36. ASSUME Revoke
      PROVE  \A u \in Tasks : status[u] = "canceled" => status'[u] = "canceled"
  BY <1>36 DEF Revoke
<1>37. CASE UNCHANGED vars
  BY <1>37 DEF vars
<1> QED
  BY <1>1, <1>2, <1>3, <1>4, <1>5, <1>6, <1>7, <1>8, <1>9, <1>10, <1>11,
     <1>12, <1>13, <1>14, <1>15, <1>16, <1>17, <1>18, <1>19, <1>20, <1>21,
     <1>22, <1>23, <1>24, <1>25, <1>26, <1>27, <1>28, <1>29, <1>30, <1>31,
     <1>32, <1>33, <1>34, <1>35, <1>36, <1>37
  DEF Next, TaskStep, ControlStep, Proceed, PollStep, LaunchStep

-----------------------------------------------------------------------------
(* The other types, and the counter.                                       *)

\* Rows, requests, stages, timers, polls and budgets have their types.
RestOK ==
    /\ old \in SUBSET Tasks /\ revoked \in SUBSET Tasks /\ canceling \in SUBSET Tasks
    /\ usage \in [Tasks -> {"none", "reserved", "settled", "failed"}]
    /\ stage \in [Procs -> {"off", "starting", "up", "draining", "stopped", "failed"}]
    /\ queued \in [Procs -> SUBSET Tasks]
    /\ poll \in [Procs -> [at : {"none", "recover"}, todo : SUBSET Tasks]]
    /\ acts \in 0..MaxActs /\ faults \in 0..MaxFaults

\* The activations a process counts: from the read on to the finally block.
RunType == [at : RunStages, proc : Procs \cup {NoProc}, task : Tasks \cup {0}]
Counted == RunStages \ {"free", "read"}
Active(p) == {x \in RunsOf(p) : run[x].at \in Counted}

RunsOK == run \in [Runs -> RunType]

\* An activation that is not free belongs to a process.
Placed == \A x \in Runs : run[x].at # "free" => run[x].proc \in Procs

\* The counter is the number of these activations.
Counting ==
    /\ running \in [Procs -> Nat]
    /\ \A p \in Procs : IsFiniteSet(Active(p)) /\ running[p] = Cardinality(Active(p))

\* What a step does to the activations and to the counters: nothing; it sends
\* one activation on among the counted stages; or one starts, begins to
\* count, ends without having counted, ends in its finally block, or is lost
\* with its process.
Stays == UNCHANGED <<run, running>>
Goes(x, r) == /\ run[x].at \in Counted /\ r.at \in Counted /\ r.proc = run[x].proc
              /\ run' = [run EXCEPT ![x] = r]
              /\ UNCHANGED running
Starts(x, r) == /\ run[x].at = "free" /\ r.at = "read"
                /\ r.proc \in Procs /\ Accepting(r.proc)
                /\ run' = [run EXCEPT ![x] = r]
                /\ UNCHANGED running
Begins(x, r) == /\ run[x].at = "read" /\ r.at = "auth" /\ r.proc = run[x].proc
                /\ run' = [run EXCEPT ![x] = r]
                /\ running' = [running EXCEPT ![run[x].proc] = @ + 1]
Leaves(x) == run[x].at = "read" /\ Forget({x}) /\ UNCHANGED running
Ends(x) == run[x].at \in Counted /\ EndRun(x)
Vanishes(p) == /\ run' = [x \in Runs |-> IF run[x].proc = p THEN FreeRun ELSE run[x]]
               /\ running' = [running EXCEPT ![p] = 0]

RunEffect ==
    \/ Stays
    \/ \E x \in Runs, r \in RunType : Goes(x, r) \/ Starts(x, r) \/ Begins(x, r)
    \/ \E x \in Runs : Leaves(x) \/ Ends(x)
    \/ \E p \in Procs : Vanishes(p)

\* Rows, requests, timers, polls and budgets keep their types.
LEMMA RestKept ==
    ASSUME CoreOK, RestOK, [Next]_vars
    PROVE  RestOK'
<1> USE ConstantAssumption DEF CoreOK, RestOK, NoPoll, taskVars, agentVars, procVars,
        budget
<1>1. ASSUME NEW p \in Procs, NEW t \in Tasks, Assign(p, t)
      PROVE  RestOK'
  BY <1>1 DEF Assign, Enqueued
<1>2. ASSUME NEW t \in Tasks, CancelRead(t)
      PROVE  RestOK'
  BY <1>2 DEF CancelRead, Act
<1>3. ASSUME NEW t \in Tasks, CancelWrite(t)
      PROVE  RestOK'
  BY <1>3 DEF CancelWrite
<1>4. ASSUME NEW t \in Tasks, Age(t)
      PROVE  RestOK'
  BY <1>4 DEF Age
<1>5. ASSUME NEW a \in Agents, Pause(a)
      PROVE  RestOK'
  BY <1>5 DEF Pause, Control, Act
<1>6. ASSUME NEW a \in Agents, Resume(a)
      PROVE  RestOK'
  BY <1>6 DEF Resume, Control, Act
<1>7. ASSUME NEW a \in Agents, BackgroundOn(a)
      PROVE  RestOK'
  BY <1>7 DEF BackgroundOn, Control, Act
<1>8. ASSUME NEW a \in Agents, BackgroundOff(a)
      PROVE  RestOK'
  BY <1>8 DEF BackgroundOff, Control, Act
<1>9. ASSUME NEW x \in Runs, ReadTask(x)
      PROVE  RestOK'
  BY <1>9 DEF ReadTask, Enqueued
<1>10. ASSUME NEW x \in Runs, Authorize(x)
      PROVE  RestOK'
  BY <1>10 DEF Authorize
<1>11. ASSUME NEW x \in Runs, ClaimTask(x)
      PROVE  RestOK'
  BY <1>11 DEF ClaimTask, MarkRunning
<1>12. ASSUME NEW x \in Runs, ClaimAgent(x)
      PROVE  RestOK'
  BY <1>12 DEF ClaimAgent
<1>13. ASSUME NEW x \in Runs, Requeue(x)
      PROVE  RestOK'
  <2>1. old' \in SUBSET Tasks
    BY <1>13 DEF Requeue
  <2>2. queued' \in [Procs -> SUBSET Tasks]
    <3>1. run[x].task \in Tasks
      BY <1>13 DEF Requeue
    <3>2. queued' = Enqueued(run[x].proc, {run[x].task})
      BY <1>13 DEF Requeue
    <3> QED
      BY <3>1, <3>2 DEF Enqueued
  <2> QED
    BY <1>13, <2>1, <2>2 DEF Requeue
<1>14. ASSUME NEW x \in Runs, PolicyAllows(x)
      PROVE  RestOK'
  BY <1>14 DEF PolicyAllows
<1>15. ASSUME NEW x \in Runs, PolicyBlocks(x)
      PROVE  RestOK'
  BY <1>15 DEF PolicyBlocks
<1>16. ASSUME NEW x \in Runs, Reserve(x)
      PROVE  RestOK'
  BY <1>16 DEF Reserve
<1>17. ASSUME NEW x \in Runs, Execute(x)
      PROVE  RestOK'
  BY <1>17 DEF Execute
<1>18. ASSUME NEW x \in Runs, Settle(x)
      PROVE  RestOK'
  BY <1>18 DEF Settle
<1>19. ASSUME NEW x \in Runs, Unreserve(x)
      PROVE  RestOK'
  BY <1>19 DEF Unreserve, Faulty
<1>20. ASSUME NEW x \in Runs, Complete(x)
      PROVE  RestOK'
  BY <1>20 DEF Complete
<1>21. ASSUME NEW x \in Runs, Fail(x)
      PROVE  RestOK'
  BY <1>21 DEF Fail
<1>22. ASSUME NEW x \in Runs, Release(x)
      PROVE  RestOK'
  BY <1>22 DEF Release
<1>23. ASSUME NEW x \in Runs, CloseRun(x)
      PROVE  RestOK'
  BY <1>23 DEF CloseRun
<1>24. ASSUME NEW x \in Runs, RunFault(x)
      PROVE  RestOK'
  BY SMTT(30), <1>24 DEF RunFault, Faulty, Committed, MarkRunning
<1>25. ASSUME NEW x \in Runs, RunRejects(x)
      PROVE  RestOK'
  BY <1>25 DEF RunRejects, Faulty
<1>26. ASSUME NEW p \in Procs, PollStart(p)
      PROVE  RestOK'
  BY <1>26 DEF PollStart
<1>27. ASSUME NEW p \in Procs, PollSelect(p)
      PROVE  RestOK'
  <2>1. queued' \in [Procs -> SUBSET Tasks]
    BY <1>27 DEF PollSelect, Enqueued, Taken
  <2>2. stage' \in [Procs -> {"off", "starting", "up", "draining", "stopped", "failed"}]
    BY <1>27 DEF PollSelect
  <2> QED
    BY <1>27, <2>1, <2>2 DEF PollSelect
<1>28. ASSUME NEW p \in Procs, NEW t \in Tasks, RecoverTask(p, t)
      PROVE  RestOK'
  <2>1. usage' \in [Tasks -> {"none", "reserved", "settled", "failed"}]
    BY <1>28 DEF RecoverTask
  <2>2. poll' \in [Procs -> [at : {"none", "recover"}, todo : SUBSET Tasks]]
    BY <1>28 DEF RecoverTask
  <2> QED
    BY <1>28, <2>1, <2>2 DEF RecoverTask
<1>29. ASSUME NEW p \in Procs, NEW t \in Tasks, NEW x \in Runs, Launch(p, t, x)
      PROVE  RestOK'
  BY <1>29 DEF Launch
<1>30. ASSUME NEW p \in Procs, Start(p)
      PROVE  RestOK'
  BY <1>30 DEF Start
<1>31. ASSUME NEW p \in Procs, PollFault(p)
      PROVE  RestOK'
  <2>1. /\ stage' \in [Procs -> {"off", "starting", "up", "draining", "stopped", "failed"}]
        /\ queued' \in [Procs -> SUBSET Tasks]
    BY <1>31 DEF PollFault
  <2>2. /\ poll' \in [Procs -> [at : {"none", "recover"}, todo : SUBSET Tasks]]
        /\ faults' \in 0..MaxFaults
    BY <1>31 DEF PollFault, Faulty
  <2> QED
    BY <1>31, <2>1, <2>2 DEF PollFault
<1>32. ASSUME NEW p \in Procs, StopBegin(p)
      PROVE  RestOK'
  BY <1>32 DEF StopBegin, Act
<1>33. ASSUME NEW p \in Procs, StopEnd(p)
      PROVE  RestOK'
  BY <1>33 DEF StopEnd
<1>34. ASSUME NEW p \in Procs, Exit(p)
      PROVE  RestOK'
  BY <1>34 DEF Exit, Vanish
<1>35. ASSUME NEW p \in Procs, Crash(p)
      PROVE  RestOK'
  BY <1>35 DEF Crash, Vanish, Faulty
<1>36. ASSUME Revoke
      PROVE  RestOK'
  BY <1>36 DEF Revoke, Act
<1>37. CASE UNCHANGED vars
  BY <1>37 DEF vars
<1> QED
  BY <1>1, <1>2, <1>3, <1>4, <1>5, <1>6, <1>7, <1>8, <1>9, <1>10, <1>11,
     <1>12, <1>13, <1>14, <1>15, <1>16, <1>17, <1>18, <1>19, <1>20, <1>21,
     <1>22, <1>23, <1>24, <1>25, <1>26, <1>27, <1>28, <1>29, <1>30, <1>31,
     <1>32, <1>33, <1>34, <1>35, <1>36, <1>37
  DEF Next, TaskStep, ControlStep, Proceed, PollStep, LaunchStep

\* A free slot is an activation like another.
LEMMA FreeRunType == FreeRun \in RunType
BY DEF FreeRun, RunType, RunStages

\* A move among the counted stages.
LEMMA MoveGoes ==
    ASSUME RunsOK, NEW x \in Runs, NEW at \in Counted, run[x].at \in Counted,
           Move(x, at), UNCHANGED running
    PROVE  \E r \in RunType : Goes(x, r)
<1> DEFINE r == [run[x] EXCEPT !.at = at]
<1>1. run[x] \in RunType
  BY DEF RunsOK
<1>2. r \in RunType /\ r.at = at /\ r.proc = run[x].proc
  BY <1>1 DEF RunType, Counted
<1>3. run' = [run EXCEPT ![x] = r]
  BY DEF Move, RunsOK
<1>4. Goes(x, r)
  BY <1>2, <1>3 DEF Goes
<1> QED
  BY <1>2, <1>4

\* Every step has one of the effects.
LEMMA RunSteps ==
    ASSUME RunsOK, [Next]_vars
    PROVE  RunEffect
<1> USE DEF taskVars, agentVars, procVars, budget
<1>1. ASSUME NEW p \in Procs, NEW t \in Tasks, Assign(p, t)
      PROVE  RunEffect
  BY <1>1 DEF Assign, RunEffect, Stays
<1>2. ASSUME NEW t \in Tasks, CancelRead(t)
      PROVE  RunEffect
  BY <1>2 DEF CancelRead, RunEffect, Stays
<1>3. ASSUME NEW t \in Tasks, CancelWrite(t)
      PROVE  RunEffect
  BY <1>3 DEF CancelWrite, RunEffect, Stays
<1>4. ASSUME NEW t \in Tasks, Age(t)
      PROVE  RunEffect
  BY <1>4 DEF Age, RunEffect, Stays
<1>5. ASSUME NEW a \in Agents, Pause(a)
      PROVE  RunEffect
  BY <1>5 DEF Pause, Control, RunEffect, Stays
<1>6. ASSUME NEW a \in Agents, Resume(a)
      PROVE  RunEffect
  BY <1>6 DEF Resume, Control, RunEffect, Stays
<1>7. ASSUME NEW a \in Agents, BackgroundOn(a)
      PROVE  RunEffect
  BY <1>7 DEF BackgroundOn, Control, RunEffect, Stays
<1>8. ASSUME NEW a \in Agents, BackgroundOff(a)
      PROVE  RunEffect
  BY <1>8 DEF BackgroundOff, Control, RunEffect, Stays
<1>9. ASSUME NEW x \in Runs, ReadTask(x)
      PROVE  RunEffect
  <2> DEFINE r == [run[x] EXCEPT !.at = "auth"]
  <2>1. r \in RunType /\ r.at = "auth" /\ r.proc = run[x].proc /\ r.task = run[x].task
    BY DEF RunsOK, RunType, RunStages, Unclaimed
  <2>2. CASE Forget({x}) /\ UNCHANGED running
    BY <1>9, <2>2 DEF ReadTask, RunEffect, Leaves
  <2>3. CASE /\ running' = [running EXCEPT ![run[x].proc] = @ + 1]
             /\ Move(x, "auth")
    <3>1. run' = [run EXCEPT ![x] = r]
      BY <2>3 DEF Move, RunsOK
    <3>2. run[x].at = "read"
      BY <1>9 DEF ReadTask
    <3> HIDE DEF r
    <3>3. Begins(x, r)
      BY <2>1, <2>3, <3>1, <3>2 DEF Begins
    <3> QED
      BY <2>1, <3>3 DEF RunEffect
  <2> QED
    BY Zenon, <1>9, <2>2, <2>3 DEF ReadTask
<1>10. ASSUME NEW x \in Runs, Authorize(x)
      PROVE  RunEffect
  <2>1. PICK at \in Counted : Move(x, at) /\ run[x].at \in Counted
    BY SMTT(30), <1>10 DEF Authorize, Counted, RunStages, Unclaimed, Claimed, Leased, Ending
  <2>2. UNCHANGED running
    BY <1>10 DEF Authorize
  <2> QED
    BY <2>1, <2>2, MoveGoes DEF RunEffect
<1>11. ASSUME NEW x \in Runs, ClaimTask(x)
      PROVE  RunEffect
  <2>1. run[x].at \in Counted
    BY <1>11 DEF ClaimTask, Counted, RunStages, Unclaimed
  <2>2. CASE Move(x, "lease") /\ UNCHANGED running
    BY <2>1, <2>2, MoveGoes DEF RunEffect, Counted, RunStages, Claimed
  <2>3. CASE EndRun(x)
    BY <2>1, <2>3 DEF RunEffect, Ends
  <2> QED
    BY <1>11, <2>2, <2>3 DEF ClaimTask
<1>12. ASSUME NEW x \in Runs, ClaimAgent(x)
      PROVE  RunEffect
  <2>1. PICK at \in Counted : Move(x, at) /\ run[x].at \in Counted
    BY SMTT(30), <1>12 DEF ClaimAgent, Counted, RunStages, Unclaimed, Claimed, Leased, Ending
  <2>2. UNCHANGED running
    BY <1>12 DEF ClaimAgent
  <2> QED
    BY <2>1, <2>2, MoveGoes DEF RunEffect
<1>13. ASSUME NEW x \in Runs, Requeue(x)
      PROVE  RunEffect
  BY <1>13 DEF Requeue, RunEffect, Ends, Counted, RunStages, Claimed, Ending
<1>14. ASSUME NEW x \in Runs, PolicyAllows(x)
      PROVE  RunEffect
  <2>1. PICK at \in Counted : Move(x, at) /\ run[x].at \in Counted
    BY SMTT(30), <1>14 DEF PolicyAllows, Counted, RunStages, Unclaimed, Claimed, Leased, Ending
  <2>2. UNCHANGED running
    BY <1>14 DEF PolicyAllows
  <2> QED
    BY <2>1, <2>2, MoveGoes DEF RunEffect
<1>15. ASSUME NEW x \in Runs, PolicyBlocks(x)
      PROVE  RunEffect
  <2>1. PICK at \in Counted : Move(x, at) /\ run[x].at \in Counted
    BY SMTT(30), <1>15 DEF PolicyBlocks, Counted, RunStages, Unclaimed, Claimed, Leased, Ending
  <2>2. UNCHANGED running
    BY <1>15 DEF PolicyBlocks
  <2> QED
    BY <2>1, <2>2, MoveGoes DEF RunEffect
<1>16. ASSUME NEW x \in Runs, Reserve(x)
      PROVE  RunEffect
  <2>1. PICK at \in Counted : Move(x, at) /\ run[x].at \in Counted
    BY SMTT(30), <1>16 DEF Reserve, Counted, RunStages, Unclaimed, Claimed, Leased, Ending
  <2>2. UNCHANGED running
    BY <1>16 DEF Reserve
  <2> QED
    BY <2>1, <2>2, MoveGoes DEF RunEffect
<1>17. ASSUME NEW x \in Runs, Execute(x)
      PROVE  RunEffect
  <2>1. PICK at \in Counted : Move(x, at) /\ run[x].at \in Counted
    BY SMTT(30), <1>17 DEF Execute, Counted, RunStages, Unclaimed, Claimed, Leased, Ending
  <2>2. UNCHANGED running
    BY <1>17 DEF Execute
  <2> QED
    BY <2>1, <2>2, MoveGoes DEF RunEffect
<1>18. ASSUME NEW x \in Runs, Settle(x)
      PROVE  RunEffect
  <2>1. PICK at \in Counted : Move(x, at) /\ run[x].at \in Counted
    BY SMTT(30), <1>18 DEF Settle, Counted, RunStages, Unclaimed, Claimed, Leased, Ending
  <2>2. UNCHANGED running
    BY <1>18 DEF Settle
  <2> QED
    BY <2>1, <2>2, MoveGoes DEF RunEffect
<1>19. ASSUME NEW x \in Runs, Unreserve(x)
      PROVE  RunEffect
  <2>1. PICK at \in Counted : Move(x, at) /\ run[x].at \in Counted
    BY SMTT(30), <1>19 DEF Unreserve, Counted, RunStages, Unclaimed, Claimed, Leased, Ending
  <2>2. UNCHANGED running
    BY <1>19 DEF Unreserve
  <2> QED
    BY <2>1, <2>2, MoveGoes DEF RunEffect
<1>20. ASSUME NEW x \in Runs, Complete(x)
      PROVE  RunEffect
  <2>1. PICK at \in Counted : Move(x, at) /\ run[x].at \in Counted
    BY SMTT(30), <1>20 DEF Complete, Counted, RunStages, Unclaimed, Claimed, Leased, Ending
  <2>2. UNCHANGED running
    BY <1>20 DEF Complete
  <2> QED
    BY <2>1, <2>2, MoveGoes DEF RunEffect
<1>21. ASSUME NEW x \in Runs, Fail(x)
      PROVE  RunEffect
  <2>1. PICK at \in Counted : Move(x, at) /\ run[x].at \in Counted
    BY SMTT(30), <1>21 DEF Fail, Counted, RunStages, Unclaimed, Claimed, Leased, Ending
  <2>2. UNCHANGED running
    BY <1>21 DEF Fail
  <2> QED
    BY <2>1, <2>2, MoveGoes DEF RunEffect
<1>22. ASSUME NEW x \in Runs, Release(x)
      PROVE  RunEffect
  <2>1. PICK at \in Counted : Move(x, at) /\ run[x].at \in Counted
    BY SMTT(30), <1>22 DEF Release, Counted, RunStages, Unclaimed, Claimed, Leased, Ending
  <2>2. UNCHANGED running
    BY <1>22 DEF Release
  <2> QED
    BY <2>1, <2>2, MoveGoes DEF RunEffect
<1>23. ASSUME NEW x \in Runs, CloseRun(x)
      PROVE  RunEffect
  BY <1>23 DEF CloseRun, RunEffect, Ends, Counted, RunStages, Claimed, Ending
<1>24. ASSUME NEW x \in Runs, RunFault(x)
      PROVE  RunEffect
  <2> DEFINE at == Caught(run[x].at)
  <2>1. /\ at \in {"failQueued", "failRunning", "failLeased", "unreserve"}
        /\ Move(x, at)
    BY <1>24, CaughtStages
  <2> HIDE DEF at
  <2>2. at \in Counted /\ run[x].at \in Counted /\ UNCHANGED running
    BY <1>24, <2>1 DEF RunFault, Counted, RunStages, Unclaimed, Claimed, Leased, Ending
  <2> QED
    BY <2>1, <2>2, MoveGoes DEF RunEffect
<1>25. ASSUME NEW x \in Runs, RunRejects(x)
      PROVE  RunEffect
  <2>1. CASE run[x].at = "read"
    BY <1>25, <2>1 DEF RunRejects, RunEffect, Leaves
  <2>2. CASE run[x].at # "read"
    BY <1>25, <2>2 DEF RunRejects, RunEffect, Ends, Counted, RunStages, Unclaimed, Claimed, Leased, Ending
  <2> QED
    BY <2>1, <2>2
<1>26. ASSUME NEW p \in Procs, PollStart(p)
      PROVE  RunEffect
  BY <1>26 DEF PollStart, RunEffect, Stays
<1>27. ASSUME NEW p \in Procs, PollSelect(p)
      PROVE  RunEffect
  BY <1>27 DEF PollSelect, RunEffect, Stays
<1>28. ASSUME NEW p \in Procs, NEW t \in Tasks, RecoverTask(p, t)
      PROVE  RunEffect
  BY <1>28 DEF RecoverTask, RunEffect, Stays
<1>29. ASSUME NEW p \in Procs, NEW t \in Tasks, NEW x \in Runs, Launch(p, t, x)
      PROVE  RunEffect
  <2> DEFINE r == [at |-> "read", proc |-> p, task |-> t]
  <2>1. r \in RunType
    BY DEF RunType, RunStages
  <2>2. Starts(x, r)
    BY <1>29 DEF Launch, Starts
  <2> QED
    BY <2>1, <2>2 DEF RunEffect
<1>30. ASSUME NEW p \in Procs, Start(p)
      PROVE  RunEffect
  BY <1>30 DEF Start, RunEffect, Stays
<1>31. ASSUME NEW p \in Procs, PollFault(p)
      PROVE  RunEffect
  BY <1>31 DEF PollFault, RunEffect, Stays
<1>32. ASSUME NEW p \in Procs, StopBegin(p)
      PROVE  RunEffect
  BY <1>32 DEF StopBegin, RunEffect, Stays
<1>33. ASSUME NEW p \in Procs, StopEnd(p)
      PROVE  RunEffect
  BY <1>33 DEF StopEnd, RunEffect, Stays
<1>34. ASSUME NEW p \in Procs, Exit(p)
      PROVE  RunEffect
  BY <1>34 DEF Exit, Vanish, Forget, RunsOf, RunEffect, Vanishes
<1>35. ASSUME NEW p \in Procs, Crash(p)
      PROVE  RunEffect
  BY <1>35 DEF Crash, Vanish, Forget, RunsOf, RunEffect, Vanishes
<1>36. ASSUME Revoke
      PROVE  RunEffect
  BY <1>36 DEF Revoke, RunEffect, Stays
<1>37. CASE UNCHANGED vars
  BY <1>37 DEF vars, RunEffect, Stays
<1> QED
  BY <1>1, <1>2, <1>3, <1>4, <1>5, <1>6, <1>7, <1>8, <1>9, <1>10, <1>11,
     <1>12, <1>13, <1>14, <1>15, <1>16, <1>17, <1>18, <1>19, <1>20, <1>21,
     <1>22, <1>23, <1>24, <1>25, <1>26, <1>27, <1>28, <1>29, <1>30, <1>31,
     <1>32, <1>33, <1>34, <1>35, <1>36, <1>37
  DEF Next, TaskStep, ControlStep, Proceed, PollStep, LaunchStep

\* The activations keep their types and their processes, and the counter
\* counts them: one that begins to count was not counted, one that ends was.
LEMMA RunsKept ==
    ASSUME RunsOK, Placed, Counting, RunEffect
    PROVE  RunsOK' /\ Placed' /\ Counting'
<1>1. CASE Stays
  BY <1>1 DEF Stays, RunsOK, Placed, Counting, Active, RunsOf
<1>2. ASSUME NEW x \in Runs, NEW r \in RunType, Goes(x, r)
      PROVE  RunsOK' /\ Placed' /\ Counting'
  <2>1. RunsOK'
    BY <1>2 DEF Goes, RunsOK
  <2>2. \A y \in Runs : /\ run'[y].proc = run[y].proc
                        /\ run'[y].at \in Counted <=> run[y].at \in Counted
                        /\ run[y].at = "free" => run'[y].at = "free"
    BY <1>2 DEF Goes, RunsOK, Counted
  <2>3. Placed'
    BY <2>2 DEF Placed
  <2>4. \A p \in Procs : Active(p)' = Active(p)
    BY <2>2 DEF Active, RunsOf
  <2> QED
    BY <1>2, <2>1, <2>3, <2>4 DEF Counting, Goes
<1>3. ASSUME NEW x \in Runs, NEW r \in RunType, Starts(x, r)
      PROVE  RunsOK' /\ Placed' /\ Counting'
  <2>1. RunsOK' /\ Placed'
    BY <1>3 DEF Starts, RunsOK, Placed
  <2>2. \A p \in Procs : Active(p)' = Active(p)
    BY <1>3 DEF Starts, RunsOK, Active, RunsOf, Counted
  <2> QED
    BY <1>3, <2>1, <2>2 DEF Counting, Starts
<1>4. ASSUME NEW x \in Runs, NEW r \in RunType, Begins(x, r)
      PROVE  RunsOK' /\ Placed' /\ Counting'
  <2>0. PICK q \in Procs : q = run[x].proc
    BY <1>4 DEF Begins, Placed
  <2>1. RunsOK' /\ Placed' /\ q \in Procs
    BY <1>4 DEF Begins, RunsOK, Placed
  <2>2. \A p \in Procs \ {q} : Active(p)' = Active(p)
    BY <1>4, <2>0 DEF Begins, RunsOK, Active, RunsOf, Counted
  <2>3. Active(q)' = Active(q) \cup {x} /\ x \notin Active(q)
    BY <1>4, <2>0 DEF Begins, RunsOK, Active, RunsOf, Counted, RunStages, Unclaimed
  <2>4. /\ IsFiniteSet(Active(q) \cup {x})
        /\ Cardinality(Active(q) \cup {x}) = Cardinality(Active(q)) + 1
    BY <2>1, <2>3, FS_AddElement DEF Counting
  <2>5. /\ running' \in [Procs -> Nat] /\ running'[q] = running[q] + 1
        /\ \A p \in Procs \ {q} : running'[p] = running[p]
    BY <1>4, <2>0 DEF Begins, Counting
  <2>6. \A p \in Procs : /\ IsFiniteSet(Active(p)')
                         /\ running'[p] = Cardinality(Active(p)')
    <3>1. IsFiniteSet(Active(q)') /\ running'[q] = Cardinality(Active(q)')
      BY <2>1, <2>3, <2>4, <2>5 DEF Counting
    <3>2. \A p \in Procs \ {q} : /\ IsFiniteSet(Active(p)')
                                 /\ running'[p] = Cardinality(Active(p)')
      BY <2>2, <2>5 DEF Counting
    <3> QED
      BY <3>1, <3>2
  <2> QED
    BY <2>1, <2>5, <2>6 DEF Counting
<1>5. ASSUME NEW x \in Runs, Leaves(x)
      PROVE  RunsOK' /\ Placed' /\ Counting'
  <2>1. RunsOK' /\ Placed'
    BY <1>5, FreeRunType DEF Leaves, Forget, RunsOK, Placed, FreeRun
  <2>2. \A p \in Procs : Active(p)' = Active(p)
    BY <1>5, ConstantAssumption DEF Leaves, Forget, RunsOK, Active, RunsOf, Counted, FreeRun
  <2> QED
    BY <1>5, <2>1, <2>2 DEF Counting, Leaves
<1>6. ASSUME NEW x \in Runs, Ends(x)
      PROVE  RunsOK' /\ Placed' /\ Counting'
  <2>0. PICK q \in Procs : q = run[x].proc
    BY <1>6 DEF Ends, Placed, Counted
  <2>1. RunsOK' /\ Placed'
    BY <1>6, FreeRunType DEF Ends, EndRun, Forget, RunsOK, Placed, FreeRun
  <2>3. \A p \in Procs \ {q} : Active(p)' = Active(p)
    BY <1>6, <2>0, ConstantAssumption DEF Ends, EndRun, Forget, RunsOK, Active, RunsOf, FreeRun
  <2>4. Active(q)' = Active(q) \ {x} /\ x \in Active(q)
    <3>1. x \in Active(q)
      BY <1>6, <2>0 DEF Ends, Active, RunsOf
    <3>2. run'[x].at = "free" /\ \A y \in Runs \ {x} : run'[y] = run[y]
      BY <1>6 DEF Ends, EndRun, Forget, RunsOK, FreeRun
    <3> QED
      BY <3>1, <3>2 DEF Active, RunsOf, Counted
  <2>5. /\ IsFiniteSet(Active(q) \ {x})
        /\ Cardinality(Active(q) \ {x}) = Cardinality(Active(q)) - 1
    BY <2>4, FS_RemoveElement DEF Counting
  <2>6. IsFiniteSet(Active(q) \ {x}) => Cardinality(Active(q) \ {x}) \in Nat
    BY FS_CardinalityType
  <2>7. running' \in [Procs -> Int] /\ running'[q] = running[q] - 1
        /\ \A p \in Procs \ {q} : running'[p] = running[p]
    BY <1>6, <2>0 DEF Ends, EndRun, Counting
  <2>8. \A p \in Procs : /\ IsFiniteSet(Active(p)')
                         /\ running'[p] = Cardinality(Active(p)') /\ running'[p] \in Nat
    <3>1. /\ IsFiniteSet(Active(q)') /\ running'[q] \in Nat
          /\ running'[q] = Cardinality(Active(q)')
      BY <2>4, <2>5, <2>6, <2>7 DEF Counting
    <3>2. \A p \in Procs \ {q} : /\ IsFiniteSet(Active(p)') /\ running'[p] \in Nat
                                 /\ running'[p] = Cardinality(Active(p)')
      BY <2>3, <2>7 DEF Counting
    <3> QED
      BY <3>1, <3>2
  <2>9. running' \in [Procs -> Nat]
    BY <2>7, <2>8
  <2> QED
    BY <2>1, <2>8, <2>9 DEF Counting
<1>7. ASSUME NEW q \in Procs, Vanishes(q)
      PROVE  RunsOK' /\ Placed' /\ Counting'
  <2>1. RunsOK' /\ Placed'
    BY <1>7, FreeRunType DEF Vanishes, RunsOK, Placed, FreeRun
  <2>2. \A p \in Procs \ {q} : Active(p)' = Active(p)
    BY <1>7, ConstantAssumption DEF Vanishes, RunsOK, Active, RunsOf, FreeRun
  <2>3. Active(q)' = {}
    BY <1>7, ConstantAssumption DEF Vanishes, RunsOK, Active, RunsOf, FreeRun, Counted
  <2>4. running' \in [Procs -> Nat] /\ running'[q] = 0
        /\ \A p \in Procs \ {q} : running'[p] = running[p]
    BY <1>7 DEF Vanishes, Counting
  <2> QED
    BY <2>1, <2>2, <2>3, <2>4, FS_EmptySet DEF Counting
<1> QED
  BY <1>1, <1>2, <1>3, <1>4, <1>5, <1>6, <1>7 DEF RunEffect

-----------------------------------------------------------------------------
(* The orchestrator keeps the promise of TaskExecution.                    *)

\* What the uses of the provider have to do with the tasks and activations: a
\* task in the queue has none, nor has a running one whose activation has not
\* got its lease yet, and the result is recorded on a settled one.
CancelsTasks    == \A t \in canceling : t \in Tasks /\ status[t] # "none"
QueuedIsUnused  == \A t \in Tasks : status[t] \in {"none", "queued"} => usage[t] = "none"
ClaimedIsUnused ==
    \A x \in Runs : run[x].at \in {"lease", "requeue"} /\ status[run[x].task] = "running"
                        => usage[run[x].task] = "none"
ResultIsSettled == \A x \in Runs : run[x].at = "complete" => usage[run[x].task] = "settled"

UsageInv ==
    /\ usage \in [Tasks -> {"none", "reserved", "settled", "failed"}]
    /\ CancelsTasks /\ QueuedIsUnused /\ ClaimedIsUnused /\ ResultIsSettled

\* No activation gets to where UsageInv speaks of it, unless as it should.
Calm ==
    \A y \in Runs : run'[y].at \in {"lease", "requeue", "complete"} =>
        /\ run'[y].task = run[y].task
        /\ \/ run'[y].at = run[y].at
           \/ run'[y].at = "requeue" /\ run[y].at = "lease"
           \/ run'[y].at = "lease" /\ run[y].at = "claim" /\ status[run[y].task] = "queued"
           \/ run'[y].at = "complete" /\ usage'[run[y].task] = "settled"

\* Only tasks that were assigned are being canceled after the step.
CancelsAfter == \A t \in canceling' : t \in Tasks /\ status[t] # "none"

\* Task t gets the status s, or its use the state u, as TaskExecution allows.
Turn(t, s) ==
    /\ status' = [status EXCEPT ![t] = s] /\ UNCHANGED usage
    /\ \/ status[t] = "none" /\ s = "queued"
       \/ status[t] = "queued" /\ s = "running"
       \/ status[t] = "running" /\ s = "queued" /\ usage[t] = "none"
       \/ status[t] = "running" /\ s = "completed" /\ usage[t] = "settled"
       \/ status[t] \in {"queued", "running"} /\ s = "failed"
       \/ status[t] # "none" /\ s = "canceled"

Use(t, u) ==
    /\ usage' = [usage EXCEPT ![t] = u] /\ UNCHANGED status
    /\ \/ /\ usage[t] = "none" /\ u = "reserved"
          /\ status[t] \notin {"none", "queued"}
          /\ \A y \in Runs : run[y].at \in {"lease", "requeue"} /\ run[y].task = t
                                => status[t] # "running"
       \/ usage[t] = "reserved" /\ u \in {"settled", "failed"}

\* Task t fails with its reservation.
Lapse(t) ==
    /\ status[t] = "running" /\ usage[t] = "reserved"
    /\ status' = [status EXCEPT ![t] = "failed"]
    /\ usage' = [usage EXCEPT ![t] = "failed"]

\* What is to be shown of every step.
Keeps == UsageInv' /\ [Execution!Next]_(Execution!vars)

\* A turn of a task's status is a step of TaskExecution.
LEMMA TurnKeeps ==
    ASSUME CoreOK, UsageInv, Calm, CancelsAfter, NEW t \in Tasks, NEW s, Turn(t, s)
    PROVE  Keeps
<1>1. Execution!Next
  BY DEF Turn, CoreOK, Execution!Next, Execution!Submit, Execution!Begin, Execution!GiveBack,
         Execution!Finish, Execution!GiveUp, Execution!Cancel, Execution!Turns
<1>2. /\ \A q \in Tasks : status'[q] = IF q = t THEN s ELSE status[q]
      /\ UNCHANGED usage /\ s # "none"
  BY DEF Turn, CoreOK
<1>3. CancelsTasks'
  BY <1>2 DEF CancelsTasks, CancelsAfter
<1>4. QueuedIsUnused'
  BY <1>2 DEF Turn, UsageInv, QueuedIsUnused
<1>5. ResultIsSettled'
  BY <1>2 DEF Calm, UsageInv, ResultIsSettled
<1>6. ClaimedIsUnused'
  <2> SUFFICES ASSUME NEW x \in Runs, run'[x].at \in {"lease", "requeue"},
                      status'[run'[x].task] = "running"
               PROVE  usage[run'[x].task] = "none"
    BY <1>2 DEF ClaimedIsUnused
  <2>1. run'[x].task = run[x].task /\ run[x].task \in Tasks
    BY DEF Calm, CoreOK
  <2>2. CASE run[x].task = t
    BY <1>2, <2>1, <2>2 DEF Turn, UsageInv, QueuedIsUnused
  <2>3. CASE run[x].task # t
    BY <1>2, <2>1, <2>3 DEF Calm, UsageInv, QueuedIsUnused, ClaimedIsUnused
  <2> QED
    BY <2>2, <2>3
<1> QED
  BY <1>1, <1>2, <1>3, <1>4, <1>5, <1>6 DEF Keeps, UsageInv

\* So is a turn of its use, because no claim of that task is waiting.
LEMMA UseKeeps ==
    ASSUME CoreOK, UsageInv, Calm, CancelsAfter, NEW t \in Tasks, NEW u, Use(t, u)
    PROVE  Keeps
<1>1. Execution!Next
  BY DEF Use, Execution!Next, Execution!Book, Execution!Charge, Execution!Refund, Execution!Books
<1>2. /\ \A q \in Tasks : usage'[q] = IF q = t THEN u ELSE usage[q]
      /\ UNCHANGED status
      /\ usage' \in [Tasks -> {"none", "reserved", "settled", "failed"}]
  BY DEF Use, UsageInv
<1>3. CancelsTasks'
  BY <1>2 DEF CancelsTasks, CancelsAfter
<1>4. QueuedIsUnused'
  BY <1>2 DEF Use, UsageInv, QueuedIsUnused
<1>5. ResultIsSettled'
  BY <1>2 DEF Calm, CoreOK, Use, UsageInv, ResultIsSettled
<1>6. ClaimedIsUnused'
  <2> SUFFICES ASSUME NEW x \in Runs, run'[x].at \in {"lease", "requeue"},
                      status[run'[x].task] = "running"
               PROVE  usage'[run'[x].task] = "none"
    BY <1>2 DEF ClaimedIsUnused
  <2>1. /\ run'[x].task = run[x].task /\ run[x].task \in Tasks
        /\ run[x].at \in {"lease", "requeue"}
    BY DEF Calm, CoreOK
  <2>2. run[x].task # t /\ usage[run[x].task] = "none"
    BY <2>1 DEF Use, UsageInv, ClaimedIsUnused
  <2> QED
    BY <1>2, <2>1, <2>2
<1> QED
  BY <1>1, <1>2, <1>3, <1>4, <1>5, <1>6 DEF Keeps, UsageInv

\* So is the failure of a stale task.
LEMMA LapseKeeps ==
    ASSUME CoreOK, UsageInv, UNCHANGED <<run, canceling>>, NEW t \in Tasks, Lapse(t)
    PROVE  Keeps
<1>1. Execution!Next
  BY DEF Lapse, Execution!Next, Execution!Expire, Execution!Turns, Execution!Books
<1>2. /\ \A q \in Tasks : usage'[q] = IF q = t THEN "failed" ELSE usage[q]
      /\ \A q \in Tasks : status'[q] = IF q = t THEN "failed" ELSE status[q]
      /\ usage' \in [Tasks -> {"none", "reserved", "settled", "failed"}]
  BY DEF Lapse, UsageInv, CoreOK
<1>3. CancelsTasks' /\ QueuedIsUnused'
  BY <1>2 DEF UsageInv, CancelsTasks, QueuedIsUnused
<1>4. ClaimedIsUnused' /\ ResultIsSettled'
  BY <1>2 DEF Lapse, UsageInv, CoreOK, ClaimedIsUnused, ResultIsSettled
<1> QED
  BY <1>1, <1>2, <1>3, <1>4 DEF Keeps, UsageInv

\* A step that touches neither a status nor a use is a stutter.
LEMMA QuietKeeps ==
    ASSUME CoreOK, UsageInv, Calm, CancelsAfter, UNCHANGED <<status, usage>>
    PROVE  Keeps
<1>1. CancelsTasks' /\ QueuedIsUnused'
  BY DEF UsageInv, CancelsTasks, CancelsAfter, QueuedIsUnused
<1>2. ResultIsSettled'
  BY DEF Calm, UsageInv, ResultIsSettled
<1>3. ClaimedIsUnused'
  BY DEF Calm, CoreOK, UsageInv, ClaimedIsUnused
<1> QED
  BY <1>1, <1>2, <1>3 DEF Keeps, UsageInv, Execution!vars

\* Activations that stay, end, or go elsewhere are calm.
LEMMA Calmly ==
    ASSUME CoreOK, UsageInv
    PROVE  /\ UNCHANGED run => Calm
           /\ \A S : Forget(S) => Calm
           /\ \A x \in Runs : \A at :
                  Move(x, at) /\ at \notin {"lease", "requeue", "complete"} => Calm
           /\ canceling' = canceling => CancelsAfter
<1>1. ASSUME UNCHANGED run
      PROVE  Calm
  BY <1>1 DEF Calm
<1>2. ASSUME NEW S, Forget(S)
      PROVE  Calm
  BY <1>2 DEF Calm, Forget, FreeRun
<1>3. ASSUME NEW x \in Runs, NEW at, Move(x, at), at \notin {"lease", "requeue", "complete"}
      PROVE  Calm
  BY <1>3 DEF Calm, Move, CoreOK
<1>4. canceling' = canceling => CancelsAfter
  BY DEF UsageInv, CancelsTasks, CancelsAfter
<1> QED
  BY <1>1, <1>2, <1>3, <1>4

\* Nobody else owns the task of an activation that reserves for it, so nobody
\* puts it back into the queue.
LEMMA OwnedUse ==
    ASSUME FenceInv, NEW x \in Runs, run[x].at = "reserve"
    PROVE  /\ status[run[x].task] \notin {"none", "queued"}
           /\ \A y \in Runs : run[y].at \in {"lease", "requeue"} /\ run[y].task = run[x].task
                                => status[run[x].task] # "running"
<1>1. Owns(x) /\ \A y \in Runs : run[y].at \in {"lease", "requeue"} => Owns(y) /\ y # x
  BY DEF Owns, Leased
<1> QED
  BY <1>1 DEF FenceInv, Fences, OneOwner

\* What a call that throws may have committed is one of its steps.
LEMMA FaultCommits ==
    ASSUME FenceInv, UsageInv, NEW x \in Runs, RunFault(x)
    PROVE  \/ UNCHANGED <<status, usage>>
           \/ \E s : Turn(run[x].task, s)
           \/ \E u : Use(run[x].task, u)
<1> DEFINE t == run[x].task
<1>1. CASE UNCHANGED <<status, usage>>
  BY <1>1
<1>2. CASE run[x].at = "claim" /\ status[t] = "queued" /\ MarkRunning(t) /\ UNCHANGED usage
  <2>1. Turn(t, "running")
    BY <1>2 DEF MarkRunning, Turn
  <2> QED
    BY <2>1
<1>3. CASE /\ run[x].at = "requeue" /\ status[t] = "running"
           /\ status' = [status EXCEPT ![t] = "queued"] /\ UNCHANGED usage
  <2>1. Turn(t, "queued")
    BY <1>3 DEF Turn, UsageInv, ClaimedIsUnused
  <2> QED
    BY <2>1
<1>4. CASE /\ status[t] = "running" /\ status' = [status EXCEPT ![t] = "failed"]
           /\ UNCHANGED usage
  <2>1. Turn(t, "failed")
    BY <1>4 DEF Turn
  <2> QED
    BY <2>1
<1>5. CASE /\ run[x].at = "reserve" /\ usage[t] = "none"
           /\ usage' = [usage EXCEPT ![t] = "reserved"] /\ UNCHANGED status
  <2>1. Use(t, "reserved")
    BY <1>5, OwnedUse DEF Use
  <2> QED
    BY <2>1
<1>6. CASE /\ usage[t] = "reserved" /\ usage' = [usage EXCEPT ![t] = "settled"]
           /\ UNCHANGED status
  <2>1. Use(t, "settled")
    BY <1>6 DEF Use
  <2> QED
    BY <2>1
<1>7. CASE /\ run[x].at = "complete" /\ status[t] = "running"
           /\ status' = [status EXCEPT ![t] = "completed"] /\ UNCHANGED usage
  <2>1. Turn(t, "completed")
    BY <1>7 DEF Turn, UsageInv, ResultIsSettled
  <2> QED
    BY <2>1
<1> QED
  BY <1>1, <1>2, <1>3, <1>4, <1>5, <1>6, <1>7 DEF RunFault, Committed

\* Every step is a step of TaskExecution, or none.
LEMMA ExecutionStep ==
    ASSUME FenceInv, UsageInv, [Next]_vars
    PROVE  Keeps
<1>0. CoreOK
  BY DEF FenceInv
<1> USE DEF taskVars, agentVars, procVars, budget
<1>1. ASSUME NEW p \in Procs, NEW t \in Tasks, Assign(p, t)
      PROVE  Keeps
  <2>1. UNCHANGED <<run, canceling>> /\ Turn(t, "queued")
    BY <1>1 DEF Assign, Turn
  <2> QED
    BY <1>0, <2>1, Calmly, TurnKeeps
<1>2. ASSUME NEW t \in Tasks, CancelRead(t)
      PROVE  Keeps
  <2>1. UNCHANGED <<run, status, usage>> /\ CancelsAfter
    BY <1>2 DEF CancelRead, CancelsAfter, UsageInv, CancelsTasks
  <2> QED
    BY <1>0, <2>1, Calmly, QuietKeeps
<1>3. ASSUME NEW t \in Tasks, CancelWrite(t)
      PROVE  Keeps
  <2>1. UNCHANGED run /\ Turn(t, "canceled") /\ CancelsAfter
    BY <1>3 DEF CancelWrite, CancelsAfter, UsageInv, CancelsTasks, Turn
  <2> QED
    BY <1>0, <2>1, Calmly, TurnKeeps
<1>4. ASSUME \/ \E t \in Tasks : Age(t)
             \/ \E a \in Agents : Pause(a) \/ Resume(a) \/ BackgroundOn(a) \/ BackgroundOff(a)
             \/ \E p \in Procs : \/ PollStart(p) \/ PollSelect(p) \/ Start(p) \/ PollFault(p)
                                 \/ StopBegin(p) \/ StopEnd(p)
             \/ Revoke \/ UNCHANGED vars
      PROVE  Keeps
  <2>1. UNCHANGED <<status, usage, canceling, run>>
    BY <1>4 DEF Age, Pause, Resume, BackgroundOn, BackgroundOff, Control, PollStart,
                PollSelect, Start, PollFault, StopBegin, StopEnd, Revoke, vars
  <2> QED
    BY <1>0, <2>1, Calmly, QuietKeeps
<1>5. ASSUME NEW x \in Runs, ReadTask(x)
      PROVE  Keeps
  <2>1. UNCHANGED <<status, usage, canceling>> /\ (Forget({x}) \/ Move(x, "auth"))
    BY <1>5 DEF ReadTask
  <2> QED
    BY <1>0, <2>1, Calmly, QuietKeeps
<1>6. ASSUME NEW x \in Runs, Authorize(x)
      PROVE  Keeps
  <2>1. /\ UNCHANGED <<status, usage, canceling>>
        /\ \E at \in {"claim", "failQueued", "reserve", "failLeased"} : Move(x, at)
    BY <1>6 DEF Authorize
  <2> QED
    BY <1>0, <2>1, Calmly, QuietKeeps
<1>7. ASSUME NEW x \in Runs, ClaimTask(x)
      PROVE  Keeps
  <2>1. run[x].task \in Tasks /\ UNCHANGED <<usage, canceling>>
    BY <1>0, <1>7 DEF ClaimTask, CoreOK
  <2>2. CASE status[run[x].task] = "queued"
    <3>1. Turn(run[x].task, "running") /\ Move(x, "lease")
      BY <1>7, <2>1, <2>2 DEF ClaimTask, MarkRunning, Turn
    <3>2. Calm
      BY <1>0, <1>7, <2>2, <3>1 DEF Calm, Move, CoreOK, ClaimTask
    <3> QED
      BY <1>0, <2>1, <3>1, <3>2, Calmly, TurnKeeps
  <2>3. CASE status[run[x].task] # "queued"
    <3>1. Forget({x}) /\ UNCHANGED status
      BY <1>7, <2>3 DEF ClaimTask, EndRun
    <3> QED
      BY <1>0, <2>1, <3>1, Calmly, QuietKeeps
  <2> QED
    BY <2>2, <2>3
<1>8. ASSUME NEW x \in Runs, ClaimAgent(x)
      PROVE  Keeps
  <2>1. UNCHANGED <<status, usage, canceling>> /\ (Move(x, "policy") \/ Move(x, "requeue"))
    BY <1>8 DEF ClaimAgent
  <2>2. run[x].at = "lease" /\ (Move(x, "requeue") => Calm)
    BY <1>0, <1>8 DEF ClaimAgent, Calm, Move, CoreOK
  <2> QED
    BY <1>0, <2>1, <2>2, Calmly, QuietKeeps
<1>9. ASSUME NEW x \in Runs, Requeue(x)
      PROVE  Keeps
  <2>1. run[x].task \in Tasks /\ UNCHANGED <<usage, canceling>> /\ Forget({x})
    BY <1>0, <1>9 DEF Requeue, CoreOK, EndRun
  <2>2. CASE status[run[x].task] = "running"
    <3>1. usage[run[x].task] = "none"
      BY <1>9, <2>2 DEF Requeue, UsageInv, ClaimedIsUnused
    <3>2. Turn(run[x].task, "queued")
      BY <1>9, <2>1, <2>2, <3>1 DEF Requeue, Turn
    <3> QED
      BY <1>0, <2>1, <3>2, Calmly, TurnKeeps
  <2>3. CASE status[run[x].task] # "running"
    <3>1. UNCHANGED status
      BY <1>9, <2>3 DEF Requeue
    <3> QED
      BY <1>0, <2>1, <3>1, Calmly, QuietKeeps
  <2> QED
    BY <2>2, <2>3
<1>10. ASSUME NEW x \in Runs, PolicyAllows(x) \/ Execute(x) \/ Release(x)
       PROVE  Keeps
  <2>1. /\ UNCHANGED <<status, usage, canceling>>
        /\ \E at \in {"reauth", "settle", "unreserve", "close"} : Move(x, at)
    BY <1>10 DEF PolicyAllows, Execute, Release
  <2> QED
    BY <1>0, <2>1, Calmly, QuietKeeps
<1>11. ASSUME NEW x \in Runs, PolicyBlocks(x)
       PROVE  Keeps
  <2>1. /\ run[x].task \in Tasks /\ UNCHANGED <<usage, canceling>>
        /\ Move(x, "close") \/ Move(x, "release")
    BY <1>0, <1>11 DEF PolicyBlocks, CoreOK
  <2>2. UNCHANGED status \/ Turn(run[x].task, "failed")
    BY <1>11 DEF PolicyBlocks, Turn
  <2> QED
    BY <1>0, <2>1, <2>2, Calmly, QuietKeeps, TurnKeeps
<1>12. ASSUME NEW x \in Runs, Reserve(x)
       PROVE  Keeps
  <2>1. /\ run[x].task \in Tasks /\ UNCHANGED <<status, canceling>>
        /\ Move(x, "exec") \/ Move(x, "failLeased")
    BY <1>0, <1>12 DEF Reserve, CoreOK
  <2>2. CASE UNCHANGED usage
    BY <1>0, <2>1, <2>2, Calmly, QuietKeeps
  <2>3. CASE usage[run[x].task] = "none" /\ usage' = [usage EXCEPT ![run[x].task] = "reserved"]
    <3>1. Use(run[x].task, "reserved")
      BY <1>12, <2>1, <2>3, OwnedUse DEF Reserve, Use
    <3> QED
      BY <1>0, <2>1, <3>1, Calmly, UseKeeps
  <2> QED
    BY <1>12, <2>2, <2>3 DEF Reserve
<1>13. ASSUME NEW x \in Runs, Settle(x)
       PROVE  Keeps
  <2>1. run[x].task \in Tasks /\ UNCHANGED <<status, canceling>>
    BY <1>0, <1>13 DEF Settle, CoreOK
  <2>2. CASE usage[run[x].task] = "reserved"
    <3>1. Use(run[x].task, "settled") /\ Move(x, "complete")
      BY <1>13, <2>1, <2>2 DEF Settle, Use
    <3>2. usage'[run[x].task] = "settled"
      BY <2>1, <3>1 DEF Use, UsageInv
    <3>3. Calm
      BY <1>0, <3>1, <3>2 DEF Calm, Move, CoreOK
    <3> QED
      BY <1>0, <2>1, <3>1, <3>3, Calmly, UseKeeps
  <2>3. CASE usage[run[x].task] # "reserved"
    <3>1. UNCHANGED usage /\ Move(x, "unreserve")
      BY <1>13, <2>3 DEF Settle
    <3> QED
      BY <1>0, <2>1, <3>1, Calmly, QuietKeeps
  <2> QED
    BY <2>2, <2>3
<1>14. ASSUME NEW x \in Runs, Unreserve(x)
       PROVE  Keeps
  <2>1. run[x].task \in Tasks /\ UNCHANGED <<status, canceling>> /\ Move(x, "failLeased")
    BY <1>0, <1>14 DEF Unreserve, CoreOK
  <2>2. UNCHANGED usage \/ Use(run[x].task, "failed")
    <3>1. CASE usage[run[x].task] = "reserved"
      BY <1>14, <2>1, <3>1 DEF Unreserve, Use
    <3>2. CASE usage[run[x].task] # "reserved"
      BY <1>14, <3>2 DEF Unreserve, UsageInv
    <3> QED
      BY <3>1, <3>2
  <2> QED
    BY <1>0, <2>1, <2>2, Calmly, QuietKeeps, UseKeeps
<1>15. ASSUME NEW x \in Runs, Complete(x)
       PROVE  Keeps
  <2>1. run[x].task \in Tasks /\ UNCHANGED <<usage, canceling>> /\ Move(x, "release")
    BY <1>0, <1>15 DEF Complete, CoreOK
  <2>2. CASE status[run[x].task] = "running"
    <3>1. usage[run[x].task] = "settled"
      BY <1>15 DEF Complete, UsageInv, ResultIsSettled
    <3>2. Turn(run[x].task, "completed")
      BY <1>15, <2>1, <2>2, <3>1 DEF Complete, Turn
    <3> QED
      BY <1>0, <2>1, <3>2, Calmly, TurnKeeps
  <2>3. CASE status[run[x].task] # "running"
    <3>1. UNCHANGED status
      BY <1>0, <1>15, <2>3 DEF Complete, CoreOK
    <3> QED
      BY <1>0, <2>1, <3>1, Calmly, QuietKeeps
  <2> QED
    BY <2>2, <2>3
<1>16. ASSUME NEW x \in Runs, Fail(x)
       PROVE  Keeps
  <2> DEFINE mine == IF run[x].at = "failQueued" THEN "queued" ELSE "running"
  <2>1. /\ run[x].task \in Tasks /\ UNCHANGED <<usage, canceling>>
        /\ \E at \in {"close", "releaseError", "releaseIdle"} : Move(x, at)
    BY <1>0, <1>16 DEF Fail, CoreOK
  <2>2. CASE status[run[x].task] = mine
    <3>1. Turn(run[x].task, "failed")
      BY <1>16, <2>1, <2>2 DEF Fail, Turn
    <3> QED
      BY <1>0, <2>1, <3>1, Calmly, TurnKeeps
  <2>3. CASE status[run[x].task] # mine
    <3>1. UNCHANGED status
      BY <1>0, <1>16, <2>3 DEF Fail, CoreOK
    <3> QED
      BY <1>0, <2>1, <3>1, Calmly, QuietKeeps
  <2> QED
    BY <2>2, <2>3
<1>17. ASSUME NEW x \in Runs, CloseRun(x) \/ RunRejects(x)
       PROVE  Keeps
  <2>1. UNCHANGED <<status, usage, canceling>> /\ Forget({x})
    BY <1>17 DEF CloseRun, RunRejects, EndRun
  <2> QED
    BY <1>0, <2>1, Calmly, QuietKeeps
<1>18. ASSUME NEW x \in Runs, RunFault(x)
       PROVE  Keeps
  <2>1. /\ run[x].task \in Tasks /\ UNCHANGED canceling
        /\ \E at \in {"failQueued", "failRunning", "failLeased", "unreserve"} : Move(x, at)
    BY <1>0, <1>18, CaughtStages DEF RunFault, CoreOK
  <2>2. \/ UNCHANGED <<status, usage>>
        \/ \E s : Turn(run[x].task, s)
        \/ \E u : Use(run[x].task, u)
    BY <1>0, <1>18, FaultCommits
  <2> QED
    BY <1>0, <2>1, <2>2, Calmly, QuietKeeps, TurnKeeps, UseKeeps
<1>19. ASSUME NEW p \in Procs, NEW t \in Tasks, RecoverTask(p, t)
       PROVE  Keeps
  <2>1. UNCHANGED <<canceling, run>>
    BY <1>19 DEF RecoverTask
  <2>2. CASE status[t] = "running" /\ t \in old /\ usage[t] = "reserved"
    <3>1. Lapse(t)
      BY <1>19, <2>2 DEF RecoverTask, Lapse
    <3> QED
      BY <1>0, <2>1, <3>1, LapseKeeps
  <2>3. CASE status[t] = "running" /\ t \in old /\ usage[t] # "reserved"
    <3>1. Turn(t, "failed")
      BY <1>19, <2>3 DEF RecoverTask, Turn, UsageInv
    <3> QED
      BY <1>0, <2>1, <3>1, Calmly, TurnKeeps
  <2>4. CASE ~(status[t] = "running" /\ t \in old)
    <3>1. UNCHANGED <<status, usage>>
      BY <1>19, <2>4 DEF RecoverTask
    <3> QED
      BY <1>0, <2>1, <3>1, Calmly, QuietKeeps
  <2> QED
    BY <2>2, <2>3, <2>4
<1>20. ASSUME NEW p \in Procs, NEW t \in Tasks, NEW x \in Runs, Launch(p, t, x)
       PROVE  Keeps
  <2>1. UNCHANGED <<status, usage, canceling>>
    BY <1>20 DEF Launch
  <2>2. Calm
    BY <1>0, <1>20 DEF Launch, Calm, CoreOK
  <2> QED
    BY <1>0, <2>1, <2>2, Calmly, QuietKeeps
<1>21. ASSUME NEW p \in Procs, Exit(p) \/ Crash(p)
       PROVE  Keeps
  <2>1. UNCHANGED <<status, usage, canceling>> /\ Forget(RunsOf(p))
    BY <1>21 DEF Exit, Crash, Vanish
  <2> QED
    BY <1>0, <2>1, Calmly, QuietKeeps
<1> QED
  BY <1>1, <1>2, <1>3, <1>4, <1>5, <1>6, <1>7, <1>8, <1>9, <1>10, <1>11, <1>12, <1>13,
     <1>14, <1>15, <1>16, <1>17, <1>18, <1>19, <1>20, <1>21
  DEF Next, TaskStep, ControlStep, Proceed, PollStep, LaunchStep

-----------------------------------------------------------------------------
(* A stopped process has nothing left, and leases are given back.          *)

\* A process that stopped in order has no timer, no poll and no activation.
Drained ==
    \A p \in Procs : stage[p] = "stopped"
                        => queued[p] = {} /\ poll[p].at = "none" /\ RunsOf(p) = {}

\* Who does not accept tasks has no timer.
TimersOff == \A p \in Procs : ~Accepting(p) => queued[p] = {}

DrainInv == TimersOff /\ Drained

\* Until the first fault or crash, an agent's lease belongs to an activation
\* that has it for its own task and has yet to give it back; so only a fault
\* or a crash leaves an agent leased for ever.
HoldStages == Leased \cup {"release", "releaseIdle", "releaseError"}
Holds(x, a) == /\ lease[a] = x /\ leaseTask[a] = run[x].task
               /\ Owner[run[x].task] = a /\ run[x].at \in HoldStages
LeaseIsHeld ==
    faults = 0 => \A a \in Agents : lease[a] # NoLease => \E x \in Runs : Holds(x, a)

\* No start has failed so far.
StartsWell == faults = 0 => \A p \in Procs : stage[p] # "failed"

LeaseInv == CoreOK /\ RestOK /\ DrainInv /\ StartsWell /\ LeaseIsHeld

\* Only a process that accepts tasks gets new activations.
LEMMA NoNewRuns ==
    ASSUME RunsOK, RunEffect
    PROVE  \A p \in Procs : ~Accepting(p) => RunsOf(p)' \subseteq RunsOf(p)
<1> USE ConstantAssumption DEF RunsOK, RunsOf
<1>1. CASE Stays
  BY <1>1 DEF Stays
<1>2. ASSUME NEW x \in Runs, NEW r \in RunType, Goes(x, r) \/ Begins(x, r)
      PROVE  \A p \in Procs : ~Accepting(p) => RunsOf(p)' \subseteq RunsOf(p)
  BY <1>2 DEF Goes, Begins
<1>3. ASSUME NEW x \in Runs, NEW r \in RunType, Starts(x, r)
      PROVE  \A p \in Procs : ~Accepting(p) => RunsOf(p)' \subseteq RunsOf(p)
  BY <1>3 DEF Starts
<1>4. ASSUME NEW x \in Runs, Leaves(x) \/ Ends(x)
      PROVE  \A p \in Procs : ~Accepting(p) => RunsOf(p)' \subseteq RunsOf(p)
  BY <1>4 DEF Leaves, Ends, EndRun, Forget, FreeRun
<1>5. ASSUME NEW q \in Procs, Vanishes(q)
      PROVE  \A p \in Procs : ~Accepting(p) => RunsOf(p)' \subseteq RunsOf(p)
  BY <1>5 DEF Vanishes, FreeRun
<1> QED
  BY <1>1, <1>2, <1>3, <1>4, <1>5 DEF RunEffect

\* Every step keeps stopped processes empty.
LEMMA DrainStep ==
    ASSUME CoreOK, RestOK, DrainInv, [Next]_vars
    PROVE  DrainInv'
<1>0. \A p \in Procs : ~Accepting(p) => RunsOf(p)' \subseteq RunsOf(p)
  BY RunSteps, NoNewRuns DEF CoreOK, RunsOK, RunType
<1>a. ASSUME UNCHANGED <<stage, poll>>, \A p \in Procs : ~Accepting(p) => queued'[p] = {}
      PROVE  DrainInv'
  BY <1>0, <1>a DEF DrainInv, TimersOff, Drained, Accepting
<1> USE DEF RestOK, DrainInv, TimersOff, Accepting, procVars
<1>1. ASSUME UNCHANGED <<stage, poll, queued>>
      PROVE  DrainInv'
  BY <1>1, <1>a
<1>2. ASSUME NEW p \in Procs, NEW ts, queued' = Enqueued(p, ts), UNCHANGED <<stage, poll>>
      PROVE  DrainInv'
  BY <1>2, <1>a DEF Enqueued
<1>3. ASSUME \E t \in Tasks : CancelRead(t) \/ CancelWrite(t) \/ Age(t)
      PROVE  DrainInv'
  BY <1>1, <1>3 DEF CancelRead, CancelWrite, Age
<1>4. ASSUME NEW p \in Procs, NEW t \in Tasks, Assign(p, t)
      PROVE  DrainInv'
  BY <1>2, <1>4 DEF Assign
<1>5. ASSUME \E a \in Agents : ControlStep(a)
      PROVE  DrainInv'
  BY <1>1, <1>5 DEF ControlStep, Pause, Resume, BackgroundOn, BackgroundOff, Control
<1>6. ASSUME NEW x \in Runs, ReadTask(x)
      PROVE  DrainInv'
  <2>1. CASE UNCHANGED queued
    BY <1>1, <1>6, <2>1 DEF ReadTask
  <2>2. CASE queued' = Enqueued(run[x].proc, {run[x].task})
    <3>1. \A p \in Procs : ~Accepting(p) => queued'[p] = {}
      BY <2>2 DEF Enqueued
    <3> QED
      BY <1>6, <1>a, <3>1 DEF ReadTask
  <2> QED
    BY <1>6, <2>1, <2>2 DEF ReadTask
<1>7. ASSUME NEW x \in Runs, Requeue(x)
      PROVE  DrainInv'
  <2>1. \A p \in Procs : ~Accepting(p) => queued'[p] = {}
    BY <1>7 DEF Requeue, Enqueued
  <2> QED
    BY <1>7, <1>a, <2>1 DEF Requeue
<1>8. ASSUME NEW x \in Runs,
             \/ Authorize(x) \/ ClaimTask(x) \/ ClaimAgent(x) \/ PolicyAllows(x)
             \/ PolicyBlocks(x) \/ Reserve(x) \/ Execute(x) \/ Settle(x) \/ Unreserve(x)
             \/ Complete(x) \/ Fail(x) \/ Release(x) \/ CloseRun(x) \/ RunFault(x)
             \/ RunRejects(x)
      PROVE  DrainInv'
  BY <1>1, <1>8 DEF Authorize, ClaimTask, ClaimAgent, PolicyAllows, PolicyBlocks, Reserve,
     Execute, Settle, Unreserve, Complete, Fail, Release, CloseRun, RunFault, RunRejects
<1>9. CASE Revoke \/ UNCHANGED vars
  BY <1>1, <1>9 DEF Revoke, vars
<1>10. ASSUME NEW p \in Procs, NEW t \in Tasks, NEW x \in Runs, Launch(p, t, x)
       PROVE  DrainInv'
  <2>1. \A q \in Procs : ~Accepting(q) => queued'[q] = {}
    BY <1>10 DEF Launch
  <2> QED
    BY <1>10, <1>a, <2>1 DEF Launch
<1>11. ASSUME NEW p \in Procs, PollStart(p)
       PROVE  DrainInv'
  BY <1>0, <1>11 DEF PollStart, Drained
<1>12. ASSUME NEW p \in Procs, NEW t \in Tasks, RecoverTask(p, t)
       PROVE  DrainInv'
  BY <1>0, <1>12 DEF RecoverTask, Drained
<1>13. ASSUME NEW p \in Procs, PollSelect(p)
       PROVE  DrainInv'
  BY <1>0, <1>13 DEF PollSelect, Enqueued, NoPoll, Drained
<1>14. ASSUME NEW p \in Procs, Start(p)
       PROVE  DrainInv'
  BY <1>0, <1>14 DEF Start, Drained
<1>15. ASSUME NEW p \in Procs, PollFault(p)
       PROVE  DrainInv'
  BY <1>0, <1>15 DEF PollFault, NoPoll, Drained
<1>16. ASSUME NEW p \in Procs, StopBegin(p)
       PROVE  DrainInv'
  BY <1>0, <1>16 DEF StopBegin, Drained
<1>17. ASSUME NEW p \in Procs, StopEnd(p)
       PROVE  DrainInv'
  BY <1>0, <1>17 DEF StopEnd, Drained
<1>18. ASSUME NEW p \in Procs, Exit(p) \/ Crash(p)
       PROVE  DrainInv'
  BY <1>0, <1>18 DEF Exit, Crash, Vanish, Drained
<1> QED
  BY <1>3, <1>4, <1>5, <1>6, <1>7, <1>8, <1>9, <1>10, <1>11, <1>12, <1>13, <1>14, <1>15,
     <1>16, <1>17, <1>18
  DEF Next, TaskStep, Proceed, PollStep, LaunchStep

\* Activations that keep or move on with their leases.
LEMMA HoldersMove ==
    ASSUME LeaseIsHeld, faults = 0, UNCHANGED <<lease, leaseTask>>,
           \A x \in Runs : run[x].at \in HoldStages
                              => run'[x].task = run[x].task /\ run'[x].at \in HoldStages
    PROVE  LeaseIsHeld'
BY DEF LeaseIsHeld, Holds

\* One activation moves on; it still holds what it held.
LEMMA HolderMoves ==
    ASSUME CoreOK, LeaseIsHeld, faults = 0, NEW x \in Runs, NEW at, Move(x, at),
           run[x].at \in HoldStages => at \in HoldStages, UNCHANGED <<lease, leaseTask>>
    PROVE  LeaseIsHeld'
<1>1. \A y \in Runs : run[y].at \in HoldStages
                         => run'[y].task = run[y].task /\ run'[y].at \in HoldStages
  BY DEF CoreOK, Move
<1> QED
  BY <1>1, HoldersMove

\* An activation that ends, or that may, held nothing.
LEMMA HolderEnds ==
    ASSUME CoreOK, LeaseIsHeld, faults = 0, NEW x \in Runs, Forget({x}),
           run[x].at \notin HoldStages, UNCHANGED leaseTask
    PROVE  LeaseIsHeld'
<1>1. \A a \in Agents : lease[a] # x
  BY ConstantAssumption DEF LeaseIsHeld, Holds
<1>2. lease' = lease
  BY <1>1 DEF Forget, CoreOK
<1>3. \A y \in Runs : run[y].at \in HoldStages => run'[y] = run[y]
  BY DEF Forget
<1> QED
  BY <1>2, <1>3, HoldersMove

\* The agent's lease is cleared, and one activation, which held at most this
\* lease, may be about to end.
LEMMA HolderGivesBack ==
    ASSUME CoreOK, LeaseIsHeld, faults = 0, NEW a \in Agents, NEW s, ClearLease(a, s),
           \/ UNCHANGED run
           \/ \E x \in Runs : Owner[run[x].task] = a /\ Move(x, "close")
    PROVE  LeaseIsHeld'
<1> SUFFICES ASSUME NEW b \in Agents, lease'[b] # NoLease
             PROVE  \E y \in Runs : Holds(y, b)'
  BY DEF LeaseIsHeld
<1>1. b # a /\ lease'[b] = lease[b] /\ leaseTask'[b] = leaseTask[b]
  BY DEF ClearLease, CoreOK
<1>2. PICK y \in Runs : Holds(y, b)
  BY <1>1 DEF LeaseIsHeld
<1>3. run'[y] = run[y]
  BY <1>1, <1>2 DEF Move, CoreOK, Holds
<1> QED
  BY <1>1, <1>2, <1>3 DEF Holds

\* Every step without a fault keeps the leases held.
LEMMA LeaseStep ==
    ASSUME LeaseInv, [Next]_vars, faults' = 0
    PROVE  LeaseIsHeld' /\ StartsWell'
<1>0. /\ CoreOK /\ LeaseIsHeld /\ faults \in Nat
      /\ faults + 1 # 0
  BY ConstantAssumption DEF LeaseInv, RestOK
<1> USE DEF taskVars, agentVars, procVars, budget
<1>a. ASSUME UNCHANGED <<lease, leaseTask, run, faults>>
      PROVE  LeaseIsHeld'
  BY <1>0, <1>a, HoldersMove
<1>b. ASSUME UNCHANGED <<stage, faults>>
      PROVE  StartsWell'
  BY <1>b DEF LeaseInv, StartsWell
<1>1. ASSUME \/ \E t \in Tasks : TaskStep(t)
             \/ \E a \in Agents : ControlStep(a)
             \/ Revoke \/ UNCHANGED vars
             \/ \E p \in Procs : PollStart(p)
      PROVE  LeaseIsHeld' /\ StartsWell'
  BY <1>1, <1>a, <1>b DEF TaskStep, ControlStep, Assign, CancelRead, CancelWrite, Age, Pause,
     Resume, BackgroundOn, BackgroundOff, Control, Act, Revoke, PollStart, vars
<1>2. ASSUME NEW p \in Procs, PollSelect(p) \/ Start(p) \/ StopBegin(p) \/ StopEnd(p)
      PROVE  LeaseIsHeld' /\ StartsWell'
  BY <1>2, <1>a DEF PollSelect, Start, StopBegin, StopEnd, Act, LeaseInv, RestOK, StartsWell
<1>3. ASSUME NEW x \in Runs, RunFault(x) \/ RunRejects(x)
      PROVE  LeaseIsHeld' /\ StartsWell'
  BY <1>0, <1>3 DEF RunFault, RunRejects, Faulty
<1>4. ASSUME NEW p \in Procs, PollFault(p) \/ Crash(p)
      PROVE  LeaseIsHeld' /\ StartsWell'
  BY <1>0, <1>4 DEF PollFault, Crash, Faulty
<1>5. ASSUME NEW p \in Procs, Exit(p)
      PROVE  LeaseIsHeld' /\ StartsWell'
  <2>1. faults = 0 /\ stage[p] = "stopped" /\ RunsOf(p) = {}
    BY <1>5 DEF Exit, LeaseInv, StartsWell, DrainInv, Drained
  <2>2. lease' = lease /\ run' = run
    BY <1>0, <1>5, <2>1 DEF Exit, Vanish, Forget, CoreOK
  <2>3. StartsWell'
    BY <1>5, <2>1 DEF Exit, Vanish, LeaseInv, RestOK, StartsWell
  <2> QED
    BY <1>5, <1>a, <2>2, <2>3 DEF Exit, Vanish
<1>6. ASSUME NEW x \in Runs, ReadTask(x)
      PROVE  LeaseIsHeld' /\ StartsWell'
  <2>1. faults = 0 /\ run[x].at \notin HoldStages /\ UNCHANGED leaseTask
    BY <1>6 DEF ReadTask, HoldStages, Leased
  <2>2. Forget({x}) \/ (Move(x, "auth") /\ UNCHANGED lease)
    BY <1>6 DEF ReadTask
  <2> QED
    BY <1>0, <1>6, <1>b, <2>1, <2>2, HolderMoves, HolderEnds DEF ReadTask
<1>7. ASSUME NEW x \in Runs, ClaimTask(x)
      PROVE  LeaseIsHeld' /\ StartsWell'
  <2>1. faults = 0 /\ run[x].at \notin HoldStages /\ UNCHANGED leaseTask
    BY <1>7 DEF ClaimTask, HoldStages, Leased
  <2>2. Forget({x}) \/ (Move(x, "lease") /\ UNCHANGED lease)
    BY <1>7 DEF ClaimTask, EndRun
  <2> QED
    BY <1>0, <1>7, <1>b, <2>1, <2>2, HolderMoves, HolderEnds DEF ClaimTask
<1>8. ASSUME NEW x \in Runs, Requeue(x) \/ CloseRun(x)
      PROVE  LeaseIsHeld' /\ StartsWell'
  <2>1. /\ faults = 0 /\ run[x].at \notin HoldStages /\ UNCHANGED leaseTask
        /\ Forget({x})
    BY <1>8 DEF Requeue, CloseRun, EndRun, HoldStages, Leased
  <2> QED
    BY <1>0, <1>8, <1>b, <2>1, HolderEnds DEF Requeue, CloseRun
<1>9. ASSUME NEW x \in Runs,
             \/ Authorize(x) \/ PolicyAllows(x) \/ Reserve(x) \/ Execute(x) \/ Settle(x)
             \/ Unreserve(x) \/ Complete(x) \/ Fail(x)
      PROVE  LeaseIsHeld' /\ StartsWell'
  <2>1. faults = 0 /\ UNCHANGED <<lease, leaseTask, stage>>
    BY <1>0, <1>9 DEF Authorize, PolicyAllows, Reserve, Execute, Settle, Unreserve, Complete,
       Fail, Faulty
  <2>2. \E at : Move(x, at) /\ (run[x].at \in HoldStages => at \in HoldStages)
    BY SMTT(30), <1>9 DEF Authorize, PolicyAllows, Reserve, Execute, Settle, Unreserve, Complete,
       Fail, HoldStages, Leased
  <2> QED
    BY <1>0, <1>b, <2>1, <2>2, HolderMoves
<1>10. ASSUME NEW x \in Runs, ClaimAgent(x)
       PROVE  LeaseIsHeld' /\ StartsWell'
  <2> DEFINE a == Owner[run[x].task]
  <2>1. faults = 0 /\ run[x].at \notin HoldStages /\ UNCHANGED stage
    BY <1>10 DEF ClaimAgent, HoldStages, Leased
  <2>2. CASE Available(a)
    <3>1. TakeLease(x) /\ Move(x, "policy")
      BY <1>10, <2>2 DEF ClaimAgent
    <3>2. /\ \A b \in Agents : lease'[b] = IF b = a THEN x ELSE lease[b]
          /\ \A b \in Agents : leaseTask'[b] = IF b = a THEN run[x].task ELSE leaseTask[b]
          /\ run'[x].task = run[x].task /\ run'[x].at = "policy"
          /\ \A y \in Runs : y # x => run'[y] = run[y]
      BY <1>0, <3>1 DEF TakeLease, Move, CoreOK
    <3>3. Holds(x, a)'
      <4>1. a \in Agents
        BY <1>0, <1>10, ConstantAssumption DEF ClaimAgent, CoreOK
      <4> QED
        BY <3>2, <4>1 DEF Holds, HoldStages, Leased
    <3>4. \A b \in Agents, y \in Runs : b # a /\ Holds(y, b) => Holds(y, b)'
      BY <2>1, <3>2 DEF Holds
    <3>5. LeaseIsHeld'
      BY <1>0, <2>1, <3>2, <3>3, <3>4 DEF LeaseIsHeld
    <3> QED
      BY <1>10, <1>b, <2>1, <3>5 DEF ClaimAgent
  <2>3. CASE ~Available(a)
    <3>1. Move(x, "requeue") /\ UNCHANGED <<lease, leaseTask>>
      BY <1>10, <2>3 DEF ClaimAgent
    <3> QED
      BY <1>0, <1>10, <1>b, <2>1, <3>1, HolderMoves DEF ClaimAgent
  <2> QED
    BY <2>2, <2>3
<1>11. ASSUME NEW x \in Runs, PolicyBlocks(x) \/ Release(x)
       PROVE  LeaseIsHeld' /\ StartsWell'
  <2> DEFINE a == Owner[run[x].task]
  <2>1. faults = 0 /\ a \in Agents /\ UNCHANGED stage
    BY <1>0, <1>11, ConstantAssumption DEF PolicyBlocks, Release, CoreOK
  <2>2. StartsWell'
    BY <1>11, <1>b, <2>1 DEF PolicyBlocks, Release
  <2>3. CASE Move(x, "release") /\ UNCHANGED <<lease, leaseTask>>
    BY <1>0, <2>1, <2>2, <2>3, HolderMoves DEF HoldStages
  <2>4. CASE Move(x, "close") /\ \E s : ClearLease(a, s)
    BY <1>0, <2>1, <2>2, <2>4, HolderGivesBack
  <2>5. CASE Move(x, "close") /\ lease[a] # x /\ UNCHANGED <<lease, leaseTask>>
    <3>1. \A b \in Agents, y \in Runs : Holds(y, b) => y # x
      BY <2>5 DEF Holds
    <3>2. \A y \in Runs : y # x => run'[y] = run[y]
      BY <1>0, <2>5 DEF Move, CoreOK
    <3>3. \A b \in Agents, y \in Runs : Holds(y, b) => Holds(y, b)'
      BY <2>5, <3>1, <3>2 DEF Holds
    <3> QED
      BY <1>0, <2>1, <2>2, <2>5, <3>3 DEF LeaseIsHeld
  <2> QED
    BY <1>11, <2>3, <2>4, <2>5 DEF PolicyBlocks, Release
<1>12. ASSUME NEW p \in Procs, NEW t \in Tasks, RecoverTask(p, t)
       PROVE  LeaseIsHeld' /\ StartsWell'
  <2>1. faults = 0 /\ Owner[t] \in Agents /\ UNCHANGED <<stage, run>>
    BY <1>12, ConstantAssumption DEF RecoverTask
  <2>2. (\E s : ClearLease(Owner[t], s)) \/ UNCHANGED <<lease, leaseTask>>
    BY <1>12 DEF RecoverTask
  <2> QED
    BY <1>0, <1>12, <1>a, <1>b, <2>1, <2>2, HolderGivesBack DEF RecoverTask
<1>13. ASSUME NEW p \in Procs, NEW t \in Tasks, NEW x \in Runs, Launch(p, t, x)
       PROVE  LeaseIsHeld' /\ StartsWell'
  <2>1. /\ faults = 0 /\ UNCHANGED <<lease, leaseTask, stage>>
        /\ \A y \in Runs : run[y].at \in HoldStages => run'[y] = run[y]
    BY <1>0, <1>13 DEF Launch, CoreOK, HoldStages, Leased
  <2> QED
    BY <1>0, <1>13, <1>b, <2>1, HoldersMove DEF Launch
<1> QED
  BY <1>1, <1>2, <1>3, <1>4, <1>5, <1>6, <1>7, <1>8, <1>9, <1>10, <1>11, <1>12, <1>13
  DEF Next, Proceed, PollStep, LaunchStep

-----------------------------------------------------------------------------
(* The theorems.                                                           *)

LEMMA InitInv == Init => FenceInv /\ ControlInv
BY ConstantAssumption
   DEF Init, FenceInv, Fences, ControlInv, CoreOK, OneOwner, Outcome, Owns, LeaseFences, BusyIsLeased,
       PausedIsHeld, FreeRun, Statuses, RunStages, Unclaimed, Claimed, Leased, Ending

\* The stages, statuses and lease columns have the types the code gives them.
THEOREM CoreTypes == Spec => []CoreOK
<1>1. Init => CoreOK
  BY InitInv DEF FenceInv
<1>2. CoreOK /\ [Next]_vars => CoreOK'
  BY CoreStep
<1> QED
  BY <1>1, <1>2, PTL DEF Spec

\* All variables keep their types, and the counter never falls below zero: the
\* finally block of each activation undoes that activation's own increment.
THEOREM Types == Spec => []TypeOK
<1> DEFINE IInv == CoreOK /\ RestOK /\ Placed /\ Counting
<1>1. Init => IInv
  <2> SUFFICES ASSUME Init
               PROVE  IInv
    OBVIOUS
  <2>1. CoreOK
    BY InitInv DEF FenceInv
  <2>2. RestOK /\ Placed
    BY ConstantAssumption DEF Init, RestOK, Placed, FreeRun, NoPoll
  <2>3. \A p \in Procs : Active(p) = {} /\ running[p] = 0
    BY DEF Init, Active, Counted, FreeRun, RunsOf
  <2>4. Counting
    BY <2>3, FS_EmptySet DEF Counting, Init
  <2> QED
    BY <2>1, <2>2, <2>4
<1>2. IInv /\ [Next]_vars => IInv'
  <2> SUFFICES ASSUME IInv, [Next]_vars
               PROVE  IInv'
    OBVIOUS
  <2>1. RunsOK
    BY DEF CoreOK, RunsOK, RunType
  <2>2. RunEffect
    BY <2>1, RunSteps
  <2> QED
    BY <2>1, <2>2, CoreStep, RestKept, RunsKept
<1>3. IInv => TypeOK
  BY DEF CoreOK, RestOK, Counting, TypeOK
<1> QED
  BY <1>1, <1>2, <1>3, PTL DEF Spec

\* While a task is running, the activation that claimed it and took the lease
\* still has the lease: pauses, restarts, recoveries, faults and crashes
\* included.
THEOREM Fencing == Spec => []LeaseFences
<1>1. Init => FenceInv
  BY InitInv
<1>2. FenceInv /\ [Next]_vars => FenceInv'
  BY CoreStep, FenceStep DEF FenceInv
<1>3. FenceInv => LeaseFences
  BY DEF FenceInv, Fences
<1> QED
  BY <1>1, <1>2, <1>3, PTL DEF Spec

\* A busy agent has a lease and is not on hold.
THEOREM Busy == Spec => []BusyIsLeased
<1>1. Init => ControlInv
  BY InitInv
<1>2. ControlInv /\ [Next]_vars => ControlInv'
  BY CoreStep, ControlStepInv DEF ControlInv
<1>3. ControlInv => BusyIsLeased
  BY DEF ControlInv
<1> QED
  BY <1>1, <1>2, <1>3, PTL DEF Spec

\* Only a user takes an agent out of the paused status.
THEOREM Pausing == Spec => PauseStays
<1>1. Init => ControlInv
  BY InitInv
<1>2. ControlInv /\ [Next]_vars => ControlInv'
  BY CoreStep, ControlStepInv DEF ControlInv
<1>3. ControlInv /\ [Next]_vars
      => [\A a \in Agents : agent[a] = "paused" /\ agent'[a] # "paused"
                               => acts' = acts + 1]_vars
  BY PauseStep
<1> QED
  BY <1>1, <1>2, <1>3, PTL DEF Spec, PauseStays

\* A canceled task stays canceled.
THEOREM Canceling == Spec => CanceledStays
<1>1. CoreOK /\ [Next]_vars
      => [\A t \in Tasks : status[t] = "canceled" => status'[t] = "canceled"]_vars
  BY CancelStep
<1> QED
  BY <1>1, CoreTypes, PTL DEF Spec, CanceledStays

\* The orchestrator implements TaskExecution, for any number of tasks, agents,
\* processes, faults and acts: a task uses the provider at most once, never goes
\* back to the queue once it may have used it, is completed only on a settled
\* use, and stays canceled when it is.
THEOREM Implements == Spec => ExecutesTasks
<1> DEFINE IInv == FenceInv /\ UsageInv
<1>1. Init => IInv /\ Execution!Init
  <2> SUFFICES ASSUME Init
               PROVE  IInv /\ Execution!Init
    OBVIOUS
  <2>1. FenceInv
    BY InitInv
  <2>2. UsageInv
    BY DEF Init, UsageInv, CancelsTasks, QueuedIsUnused, ClaimedIsUnused, ResultIsSettled, FreeRun
  <2> QED
    BY <2>1, <2>2 DEF Init, Execution!Init
<1>2. IInv /\ [Next]_vars => IInv' /\ [Execution!Next]_(Execution!vars)
  BY CoreStep, FenceStep, ExecutionStep DEF FenceInv, Keeps
<1> QED
  BY <1>1, <1>2, PTL DEF Spec, ExecutesTasks, Execution!Spec

\* Once the stop function has returned, the process has no timer, no poll and no
\* activation of the orchestrator left.
THEOREM DrainedStop == Spec => []Drained
<1> DEFINE IInv == CoreOK /\ RestOK /\ DrainInv
<1>1. Init => IInv
  BY InitInv, ConstantAssumption
     DEF FenceInv, Init, RestOK, DrainInv, TimersOff, Drained, NoPoll
<1>2. IInv /\ [Next]_vars => IInv'
  BY CoreStep, RestKept, DrainStep
<1>3. IInv => Drained
  BY DEF DrainInv
<1> QED
  BY <1>1, <1>2, <1>3, PTL DEF Spec

\* Until the first fault or crash, who has an agent's lease is an activation that
\* has it for its own task and goes on to give it back, or to lose it to a
\* recovery: neither users nor orderly restarts leave an agent leased for ever.
THEOREM LeasesComeBack == Spec => []LeaseIsHeld
<1>1. Init => LeaseInv
  BY InitInv, ConstantAssumption
     DEF FenceInv, Init, LeaseInv, RestOK, DrainInv, TimersOff, Drained, NoPoll, StartsWell,
         LeaseIsHeld
<1>2. LeaseInv /\ [Next]_vars => LeaseInv'
  <2> SUFFICES ASSUME LeaseInv, [Next]_vars
               PROVE  LeaseInv'
    OBVIOUS
  <2>1. CoreOK' /\ RestOK' /\ DrainInv'
    BY CoreStep, RestKept, DrainStep DEF LeaseInv
  <2>2. faults' = 0 => LeaseIsHeld' /\ StartsWell'
    BY LeaseStep
  <2> QED
    BY <2>1, <2>2 DEF LeaseInv, LeaseIsHeld, StartsWell
<1>3. LeaseInv => LeaseIsHeld
  BY DEF LeaseInv
<1> QED
  BY <1>1, <1>2, <1>3, PTL DEF Spec
=============================================================================
