---------------------- MODULE AutonomySchedulerProofs ----------------------
(***************************************************************************)
(* Proofs about AutonomyScheduler, for any schedules, processes and bounds *)
(* and with or without repeat jobs.                                        *)
(***************************************************************************)
EXTENDS AutonomyScheduler, TLAPS

\* A claimed schedule is due: the claim requires it, and whatever takes the due
\* date away gives the claim back in the same statement.
ClaimedIsDue == \A s \in Schedules : status[s] = "running" => s \in due

PeriodInv == TypeOK /\ ClaimedIsDue

RunTable == [Procs -> [Schedules -> [at : Stages, ver : Nat]]]

-----------------------------------------------------------------------------
(* A run that moves on or ends keeps the types.                            *)

LEMMA FaultyType ==
    ASSUME TypeOK, Faulty
    PROVE  faults' \in 0..MaxFaults
BY SchedulerAssumption DEF TypeOK, Faulty

LEMMA GotoType ==
    ASSUME TypeOK, NEW p \in Procs, NEW s \in Schedules, NEW at \in Stages,
           Goto(p, s, at)
    PROVE  run' \in RunTable
<1>1. run \in RunTable
  BY DEF TypeOK, RunTable
<1>2. [run[p][s] EXCEPT !.at = at] \in [at : Stages, ver : Nat]
  BY <1>1 DEF RunTable
<1>3. run' = [run EXCEPT ![p] = [run[p] EXCEPT ![s] = [run[p][s] EXCEPT !.at = at]]]
  BY DEF Goto
<1> QED
  BY <1>1, <1>2, <1>3 DEF RunTable

LEMMA EndType ==
    ASSUME TypeOK, NEW p \in Procs, NEW s \in Schedules, End(p, s)
    PROVE  run' \in RunTable
BY DEF TypeOK, RunTable, End, NoRun, Stages

LEMMA CommittedType ==
    ASSUME TypeOK, NEW p \in Procs, NEW s \in Schedules, NEW at \in Stages,
           Committed(p, s, at)
    PROVE  run' \in RunTable /\ faults' \in 0..MaxFaults
<1>1. "fail" \in Stages
  BY DEF Stages
<1>2. CASE Goto(p, s, at) /\ UNCHANGED faults
  BY <1>2, GotoType DEF TypeOK
<1>3. CASE Faulty /\ Goto(p, s, "fail")
  BY <1>1, <1>3, GotoType, FaultyType
<1> QED
  BY <1>2, <1>3 DEF Committed

\* The conditional updates of a run have one shape.
LEMMA PauseType ==
    ASSUME TypeOK, NEW p \in Procs, NEW s \in Schedules, NEW at, NEW e,
           PauseFrom(p, s, at, e)
    PROVE  TypeOK'
<1>1. "note" \in Stages
  BY DEF Stages
<1>2. run' \in RunTable /\ faults' \in 0..MaxFaults
  <2>1. CASE Holds(p, s, e)
    BY <1>1, <2>1, CommittedType DEF PauseFrom
  <2>2. CASE ~Holds(p, s, e)
    BY <2>2, EndType DEF PauseFrom, TypeOK
  <2> QED
    BY <2>1, <2>2
<1>3. status' \in [Schedules -> Statuses]
  BY DEF TypeOK, PauseFrom, Statuses
<1> QED
  BY <1>2, <1>3 DEF TypeOK, PauseFrom, RunTable, dbVars, userVars, procVars, budget

-----------------------------------------------------------------------------
\* Every step keeps the types.
LEMMA TypeStep ==
    ASSUME TypeOK, [Next]_vars
    PROVE  TypeOK'
<1> USE SchedulerAssumption DEF dbVars, userVars, procVars, budget, TypeOK,
        Statuses, Stages
<1>1. ASSUME NEW s \in Schedules, CreateSchedule(s)
      PROVE  TypeOK'
  BY <1>1 DEF CreateSchedule
<1>2. ASSUME NEW s \in Schedules, PauseSchedule(s)
      PROVE  TypeOK'
  BY <1>2 DEF PauseSchedule, Act
<1>3. ASSUME NEW s \in Schedules, RevokeSchedule(s)
      PROVE  TypeOK'
  BY <1>3 DEF RevokeSchedule, Act
<1>4. ASSUME NEW s \in Schedules, ResumeSchedule(s)
      PROVE  TypeOK'
  BY <1>4 DEF ResumeSchedule, Act
<1>5. ASSUME NEW s \in Schedules, Tick(s)
      PROVE  TypeOK'
  BY <1>5 DEF Tick
<1>6. CASE PauseAgent
  BY <1>6 DEF PauseAgent, Act
<1>7. CASE ResumeAgent
  BY <1>7 DEF ResumeAgent, Act
<1>8. CASE BackgroundOn
  BY <1>8 DEF BackgroundOn, Act
<1>9. CASE BackgroundOff
  BY <1>9 DEF BackgroundOff, Act
<1>10. CASE PauseSchedules
  <2>1. faults' \in 0..MaxFaults
    BY <1>10, FaultyType DEF PauseSchedules
  <2> QED
    BY <1>10, <2>1 DEF PauseSchedules
<1>11. CASE Rotate
  BY <1>11 DEF Rotate, Act
<1>12. ASSUME NEW p \in Procs, PollDue(p)
      PROVE  TypeOK'
  BY <1>12 DEF PollDue, Record
<1>13. ASSUME NEW p \in Procs, NEW rec \in picked[p], Launch(p, rec)
      PROVE  TypeOK'
  BY <1>13 DEF Launch, NoRun, Begun
<1>14. ASSUME NEW p \in Procs, Start(p)
      PROVE  TypeOK'
  BY <1>14 DEF Start
<1>15. ASSUME NEW p \in Procs, Stop(p)
      PROVE  TypeOK'
  BY <1>15 DEF Stop, Act
<1>16. ASSUME NEW p \in Procs, Crash(p)
      PROVE  TypeOK'
  BY <1>16 DEF Crash, Faulty, NoRun
<1>17. ASSUME NEW p \in Procs, NEW s \in Schedules, Repeat(p, s)
      PROVE  TypeOK'
  BY <1>17 DEF Repeat, Begun, Record
<1>18. ASSUME NEW p \in Procs, NEW s \in Schedules, Authorize(p, s)
      PROVE  TypeOK'
  <2>1. PICK at \in {"claim", "authPause"} : Goto(p, s, at)
    BY <1>18 DEF Authorize
  <2>2. run' \in RunTable
    BY <2>1, GotoType
  <2> QED
    BY <1>18, <2>2, FaultyType DEF Authorize, RunTable
<1>19. ASSUME NEW p \in Procs, NEW s \in Schedules, AuthPause(p, s)
      PROVE  TypeOK'
  BY <1>19, PauseType DEF AuthPause
<1>20. ASSUME NEW p \in Procs, NEW s \in Schedules, Claim(p, s)
      PROVE  TypeOK'
  <2>1. run' \in RunTable /\ faults' \in 0..MaxFaults
    <3>1. CASE Holds(p, s, "active") /\ s \in due
      BY <1>20, <3>1, CommittedType DEF Claim
    <3>2. CASE ~(Holds(p, s, "active") /\ s \in due)
      BY <1>20, <3>2, EndType DEF Claim
    <3> QED
      BY <3>1, <3>2
  <2> QED
    BY <1>20, <2>1 DEF Claim, RunTable
<1>21. ASSUME NEW p \in Procs, NEW s \in Schedules, ReadAgent(p, s)
      PROVE  TypeOK'
  <2>1. PICK at \in {"policy", "agentPause"} : Goto(p, s, at)
    BY <1>21 DEF ReadAgent
  <2>2. run' \in RunTable
    BY <2>1, GotoType
  <2> QED
    BY <1>21, <2>2 DEF ReadAgent, RunTable
<1>22. ASSUME NEW p \in Procs, NEW s \in Schedules, AgentPause(p, s)
      PROVE  TypeOK'
  BY <1>22, PauseType DEF AgentPause
<1>23. ASSUME NEW p \in Procs, NEW s \in Schedules, EvaluatePolicy(p, s)
      PROVE  TypeOK'
  <2>1. PICK at \in {"create", "policyPause"} : Goto(p, s, at)
    BY <1>23 DEF EvaluatePolicy
  <2>2. run' \in RunTable
    BY <2>1, GotoType
  <2> QED
    BY <1>23, <2>2 DEF EvaluatePolicy, RunTable
<1>24. ASSUME NEW p \in Procs, NEW s \in Schedules, PolicyPause(p, s)
      PROVE  TypeOK'
  BY <1>24, PauseType DEF PolicyPause
<1>25. ASSUME NEW p \in Procs, NEW s \in Schedules, Create(p, s)
      PROVE  TypeOK'
  <2>1. run' \in RunTable /\ faults' \in 0..MaxFaults
    <3>1. CASE Holds(p, s, "running")
      BY <1>25, <3>1, CommittedType DEF Create
    <3>2. CASE ~(Holds(p, s, "running"))
      BY <1>25, <3>2, EndType DEF Create
    <3> QED
      BY <3>1, <3>2
  <2>2. Append(tasks[s], run[p][s].ver) \in Seq(Nat)
    OBVIOUS
  <2>3. tasks' \in [Schedules -> Seq(Nat)]
    BY <1>25, <2>2 DEF Create
  <2> QED
    BY <1>25, <2>1, <2>3 DEF Create, RunTable
<1>26. ASSUME NEW p \in Procs, NEW s \in Schedules, Note(p, s)
      PROVE  TypeOK'
  BY <1>26, EndType DEF Note, RunTable
<1>27. ASSUME NEW p \in Procs, NEW s \in Schedules, Fail(p, s)
      PROVE  TypeOK'
  BY <1>27, EndType DEF Fail, RunTable
<1>28. ASSUME NEW p \in Procs, NEW s \in Schedules, RunFault(p, s)
      PROVE  TypeOK'
  <2>1. run' \in RunTable
    BY <1>28, GotoType, EndType DEF RunFault
  <2> QED
    BY <1>28, <2>1, FaultyType DEF RunFault, RunTable
<1>29. CASE UNCHANGED vars
  BY <1>29 DEF vars
<1> QED
  BY <1>1, <1>2, <1>3, <1>4, <1>5, <1>6, <1>7, <1>8, <1>9, <1>10, <1>11,
     <1>12, <1>13, <1>14, <1>15, <1>16, <1>17, <1>18, <1>19, <1>20, <1>21,
     <1>22, <1>23, <1>24, <1>25, <1>26, <1>27, <1>28, <1>29
  DEF Next, UserStep, AgentStep, Proceed, LaunchStep

\* Every step keeps claimed schedules due.
LEMMA ClaimedStep ==
    ASSUME TypeOK, ClaimedIsDue, [Next]_vars
    PROVE  ClaimedIsDue'
<1> USE DEF dbVars, userVars, procVars, budget, TypeOK, ClaimedIsDue
<1>1. ASSUME NEW s \in Schedules, CreateSchedule(s)
      PROVE  ClaimedIsDue'
  BY <1>1 DEF CreateSchedule
<1>2. ASSUME NEW s \in Schedules, PauseSchedule(s)
      PROVE  ClaimedIsDue'
  BY <1>2 DEF PauseSchedule
<1>3. ASSUME NEW s \in Schedules, RevokeSchedule(s)
      PROVE  ClaimedIsDue'
  BY <1>3 DEF RevokeSchedule
<1>4. ASSUME NEW s \in Schedules, ResumeSchedule(s)
      PROVE  ClaimedIsDue'
  BY <1>4 DEF ResumeSchedule
<1>5. ASSUME NEW s \in Schedules, Tick(s)
      PROVE  ClaimedIsDue'
  BY <1>5 DEF Tick
<1>6. CASE PauseAgent
  BY <1>6 DEF PauseAgent
<1>7. CASE ResumeAgent
  BY <1>7 DEF ResumeAgent
<1>8. CASE BackgroundOn
  BY <1>8 DEF BackgroundOn
<1>9. CASE BackgroundOff
  BY <1>9 DEF BackgroundOff
<1>10. CASE PauseSchedules
  BY <1>10 DEF PauseSchedules
<1>11. CASE Rotate
  BY <1>11 DEF Rotate
<1>12. ASSUME NEW p \in Procs, PollDue(p)
      PROVE  ClaimedIsDue'
  BY <1>12 DEF PollDue, Record
<1>13. ASSUME NEW p \in Procs, NEW rec \in picked[p], Launch(p, rec)
      PROVE  ClaimedIsDue'
  BY <1>13 DEF Launch
<1>14. ASSUME NEW p \in Procs, Start(p)
      PROVE  ClaimedIsDue'
  BY <1>14 DEF Start
<1>15. ASSUME NEW p \in Procs, Stop(p)
      PROVE  ClaimedIsDue'
  BY <1>15 DEF Stop
<1>16. ASSUME NEW p \in Procs, Crash(p)
      PROVE  ClaimedIsDue'
  BY <1>16 DEF Crash
<1>17. ASSUME NEW p \in Procs, NEW s \in Schedules, Repeat(p, s)
      PROVE  ClaimedIsDue'
  BY <1>17 DEF Repeat, Record
<1>18. ASSUME NEW p \in Procs, NEW s \in Schedules, Authorize(p, s)
      PROVE  ClaimedIsDue'
  BY <1>18 DEF Authorize
<1>19. ASSUME NEW p \in Procs, NEW s \in Schedules, AuthPause(p, s)
      PROVE  ClaimedIsDue'
  BY <1>19 DEF AuthPause, PauseFrom, Holds, Committed
<1>20. ASSUME NEW p \in Procs, NEW s \in Schedules, Claim(p, s)
      PROVE  ClaimedIsDue'
  BY <1>20 DEF Claim, Holds, Committed
<1>21. ASSUME NEW p \in Procs, NEW s \in Schedules, ReadAgent(p, s)
      PROVE  ClaimedIsDue'
  BY <1>21 DEF ReadAgent
<1>22. ASSUME NEW p \in Procs, NEW s \in Schedules, AgentPause(p, s)
      PROVE  ClaimedIsDue'
  BY <1>22 DEF AgentPause, PauseFrom, Holds, Committed
<1>23. ASSUME NEW p \in Procs, NEW s \in Schedules, EvaluatePolicy(p, s)
      PROVE  ClaimedIsDue'
  BY <1>23 DEF EvaluatePolicy
<1>24. ASSUME NEW p \in Procs, NEW s \in Schedules, PolicyPause(p, s)
      PROVE  ClaimedIsDue'
  BY <1>24 DEF PolicyPause, PauseFrom, Holds, Committed
<1>25. ASSUME NEW p \in Procs, NEW s \in Schedules, Create(p, s)
      PROVE  ClaimedIsDue'
  BY <1>25 DEF Create, Holds, Committed
<1>26. ASSUME NEW p \in Procs, NEW s \in Schedules, Note(p, s)
      PROVE  ClaimedIsDue'
  BY <1>26 DEF Note
<1>27. ASSUME NEW p \in Procs, NEW s \in Schedules, Fail(p, s)
      PROVE  ClaimedIsDue'
  BY <1>27 DEF Fail, Holds
<1>28. ASSUME NEW p \in Procs, NEW s \in Schedules, RunFault(p, s)
      PROVE  ClaimedIsDue'
  BY <1>28 DEF RunFault
<1>29. CASE UNCHANGED vars
  BY <1>29 DEF vars
<1> QED
  BY <1>1, <1>2, <1>3, <1>4, <1>5, <1>6, <1>7, <1>8, <1>9, <1>10, <1>11,
     <1>12, <1>13, <1>14, <1>15, <1>16, <1>17, <1>18, <1>19, <1>20, <1>21,
     <1>22, <1>23, <1>24, <1>25, <1>26, <1>27, <1>28, <1>29
  DEF Next, UserStep, AgentStep, Proceed, LaunchStep

-----------------------------------------------------------------------------

\* The types are an invariant: the statuses of a schedule are the five the
\* routes and the scheduler write.
THEOREM Types == Spec => []TypeOK
<1>1. Init => TypeOK
  <2> SUFFICES ASSUME Init
               PROVE  TypeOK
    OBVIOUS
  <2>1. /\ status \in [Schedules -> Statuses] /\ ver \in [Schedules -> Nat]
        /\ picked \in [Procs -> SUBSET [s : Schedules, ver : Nat]]
        /\ run \in [Procs -> [Schedules -> [at : Stages, ver : Nat]]]
    BY DEF Init, Statuses, Stages, NoRun
  <2>2. /\ tasks \in [Schedules -> Seq(Nat)] /\ up \in [Procs -> BOOLEAN]
        /\ due \in SUBSET Schedules
    BY DEF Init
  <2>3. userVer \in Nat /\ hold \in SUBSET {"pause", "background"} /\ switching \in BOOLEAN
    BY DEF Init
  <2>4. ticks \in 0..MaxTicks /\ acts \in 0..MaxActs /\ faults \in 0..MaxFaults
    BY SchedulerAssumption DEF Init
  <2> QED
    BY <2>1, <2>2, <2>3, <2>4 DEF TypeOK
<1>2. TypeOK /\ [Next]_vars => TypeOK'
  BY TypeStep
<1> QED
  BY <1>1, <1>2, PTL DEF Spec

\* A claimed schedule is due, in every reachable state.
THEOREM Claims == Spec => []PeriodInv
<1>1. Init => ClaimedIsDue
  BY DEF Init, ClaimedIsDue
<1>2. TypeOK /\ ClaimedIsDue /\ [Next]_vars => ClaimedIsDue'
  BY ClaimedStep
<1>3. Spec => []ClaimedIsDue
  BY <1>1, <1>2, Types, PTL DEF Spec
<1> QED
  BY <1>3, Types, PTL DEF PeriodInv


\* A step that creates a task takes the due date of its schedule with it.
LEMMA PeriodStep ==
    ASSUME PeriodInv, [Next]_vars
    PROVE  \A b \in Schedules : tasks'[b] # tasks[b] => b \in due \ due'
<1> USE DEF dbVars, userVars, procVars, budget, PeriodInv, TypeOK,
        ClaimedIsDue
<1>1. ASSUME NEW s \in Schedules, CreateSchedule(s)
      PROVE  \A b \in Schedules : tasks'[b] # tasks[b] => b \in due \ due'
  BY <1>1 DEF CreateSchedule
<1>2. ASSUME NEW s \in Schedules, PauseSchedule(s)
      PROVE  \A b \in Schedules : tasks'[b] # tasks[b] => b \in due \ due'
  BY <1>2 DEF PauseSchedule
<1>3. ASSUME NEW s \in Schedules, RevokeSchedule(s)
      PROVE  \A b \in Schedules : tasks'[b] # tasks[b] => b \in due \ due'
  BY <1>3 DEF RevokeSchedule
<1>4. ASSUME NEW s \in Schedules, ResumeSchedule(s)
      PROVE  \A b \in Schedules : tasks'[b] # tasks[b] => b \in due \ due'
  BY <1>4 DEF ResumeSchedule
<1>5. ASSUME NEW s \in Schedules, Tick(s)
      PROVE  \A b \in Schedules : tasks'[b] # tasks[b] => b \in due \ due'
  BY <1>5 DEF Tick
<1>6. CASE PauseAgent
  BY <1>6 DEF PauseAgent
<1>7. CASE ResumeAgent
  BY <1>7 DEF ResumeAgent
<1>8. CASE BackgroundOn
  BY <1>8 DEF BackgroundOn
<1>9. CASE BackgroundOff
  BY <1>9 DEF BackgroundOff
<1>10. CASE PauseSchedules
  BY <1>10 DEF PauseSchedules
<1>11. CASE Rotate
  BY <1>11 DEF Rotate
<1>12. ASSUME NEW p \in Procs, PollDue(p)
      PROVE  \A b \in Schedules : tasks'[b] # tasks[b] => b \in due \ due'
  BY <1>12 DEF PollDue
<1>13. ASSUME NEW p \in Procs, NEW rec \in picked[p], Launch(p, rec)
      PROVE  \A b \in Schedules : tasks'[b] # tasks[b] => b \in due \ due'
  BY <1>13 DEF Launch
<1>14. ASSUME NEW p \in Procs, Start(p)
      PROVE  \A b \in Schedules : tasks'[b] # tasks[b] => b \in due \ due'
  BY <1>14 DEF Start
<1>15. ASSUME NEW p \in Procs, Stop(p)
      PROVE  \A b \in Schedules : tasks'[b] # tasks[b] => b \in due \ due'
  BY <1>15 DEF Stop
<1>16. ASSUME NEW p \in Procs, Crash(p)
      PROVE  \A b \in Schedules : tasks'[b] # tasks[b] => b \in due \ due'
  BY <1>16 DEF Crash
<1>17. ASSUME NEW p \in Procs, NEW s \in Schedules, Repeat(p, s)
      PROVE  \A b \in Schedules : tasks'[b] # tasks[b] => b \in due \ due'
  BY <1>17 DEF Repeat
<1>18. ASSUME NEW p \in Procs, NEW s \in Schedules, Authorize(p, s)
      PROVE  \A b \in Schedules : tasks'[b] # tasks[b] => b \in due \ due'
  BY <1>18 DEF Authorize
<1>19. ASSUME NEW p \in Procs, NEW s \in Schedules, AuthPause(p, s)
      PROVE  \A b \in Schedules : tasks'[b] # tasks[b] => b \in due \ due'
  BY <1>19 DEF AuthPause, PauseFrom, Holds
<1>20. ASSUME NEW p \in Procs, NEW s \in Schedules, Claim(p, s)
      PROVE  \A b \in Schedules : tasks'[b] # tasks[b] => b \in due \ due'
  BY <1>20 DEF Claim, Holds
<1>21. ASSUME NEW p \in Procs, NEW s \in Schedules, ReadAgent(p, s)
      PROVE  \A b \in Schedules : tasks'[b] # tasks[b] => b \in due \ due'
  BY <1>21 DEF ReadAgent
<1>22. ASSUME NEW p \in Procs, NEW s \in Schedules, AgentPause(p, s)
      PROVE  \A b \in Schedules : tasks'[b] # tasks[b] => b \in due \ due'
  BY <1>22 DEF AgentPause, PauseFrom, Holds
<1>23. ASSUME NEW p \in Procs, NEW s \in Schedules, EvaluatePolicy(p, s)
      PROVE  \A b \in Schedules : tasks'[b] # tasks[b] => b \in due \ due'
  BY <1>23 DEF EvaluatePolicy
<1>24. ASSUME NEW p \in Procs, NEW s \in Schedules, PolicyPause(p, s)
      PROVE  \A b \in Schedules : tasks'[b] # tasks[b] => b \in due \ due'
  BY <1>24 DEF PolicyPause, PauseFrom, Holds
<1>25. ASSUME NEW p \in Procs, NEW s \in Schedules, Create(p, s)
      PROVE  \A b \in Schedules : tasks'[b] # tasks[b] => b \in due \ due'
  BY <1>25 DEF Create, Holds
<1>26. ASSUME NEW p \in Procs, NEW s \in Schedules, Note(p, s)
      PROVE  \A b \in Schedules : tasks'[b] # tasks[b] => b \in due \ due'
  BY <1>26 DEF Note
<1>27. ASSUME NEW p \in Procs, NEW s \in Schedules, Fail(p, s)
      PROVE  \A b \in Schedules : tasks'[b] # tasks[b] => b \in due \ due'
  BY <1>27 DEF Fail, Holds
<1>28. ASSUME NEW p \in Procs, NEW s \in Schedules, RunFault(p, s)
      PROVE  \A b \in Schedules : tasks'[b] # tasks[b] => b \in due \ due'
  BY <1>28 DEF RunFault
<1>29. CASE UNCHANGED vars
  BY <1>29 DEF vars
<1> QED
  BY <1>1, <1>2, <1>3, <1>4, <1>5, <1>6, <1>7, <1>8, <1>9, <1>10, <1>11,
     <1>12, <1>13, <1>14, <1>15, <1>16, <1>17, <1>18, <1>19, <1>20, <1>21,
     <1>22, <1>23, <1>24, <1>25, <1>26, <1>27, <1>28, <1>29
  DEF Next, UserStep, AgentStep, Proceed, LaunchStep

\* A step that creates a task creates it under the current approval.
LEMMA ApprovalStep ==
    ASSUME TypeOK, [Next]_vars
    PROVE  \A b \in Schedules : tasks'[b] # tasks[b] => tasks'[b][Len(tasks'[b])] = ver[b]
<1> USE DEF dbVars, userVars, procVars, budget, TypeOK
<1>1. ASSUME NEW s \in Schedules, CreateSchedule(s)
      PROVE  \A b \in Schedules : tasks'[b] # tasks[b] => tasks'[b][Len(tasks'[b])] = ver[b]
  BY <1>1 DEF CreateSchedule
<1>2. ASSUME NEW s \in Schedules, PauseSchedule(s)
      PROVE  \A b \in Schedules : tasks'[b] # tasks[b] => tasks'[b][Len(tasks'[b])] = ver[b]
  BY <1>2 DEF PauseSchedule
<1>3. ASSUME NEW s \in Schedules, RevokeSchedule(s)
      PROVE  \A b \in Schedules : tasks'[b] # tasks[b] => tasks'[b][Len(tasks'[b])] = ver[b]
  BY <1>3 DEF RevokeSchedule
<1>4. ASSUME NEW s \in Schedules, ResumeSchedule(s)
      PROVE  \A b \in Schedules : tasks'[b] # tasks[b] => tasks'[b][Len(tasks'[b])] = ver[b]
  BY <1>4 DEF ResumeSchedule
<1>5. ASSUME NEW s \in Schedules, Tick(s)
      PROVE  \A b \in Schedules : tasks'[b] # tasks[b] => tasks'[b][Len(tasks'[b])] = ver[b]
  BY <1>5 DEF Tick
<1>6. CASE PauseAgent
  BY <1>6 DEF PauseAgent
<1>7. CASE ResumeAgent
  BY <1>7 DEF ResumeAgent
<1>8. CASE BackgroundOn
  BY <1>8 DEF BackgroundOn
<1>9. CASE BackgroundOff
  BY <1>9 DEF BackgroundOff
<1>10. CASE PauseSchedules
  BY <1>10 DEF PauseSchedules
<1>11. CASE Rotate
  BY <1>11 DEF Rotate
<1>12. ASSUME NEW p \in Procs, PollDue(p)
      PROVE  \A b \in Schedules : tasks'[b] # tasks[b] => tasks'[b][Len(tasks'[b])] = ver[b]
  BY <1>12 DEF PollDue
<1>13. ASSUME NEW p \in Procs, NEW rec \in picked[p], Launch(p, rec)
      PROVE  \A b \in Schedules : tasks'[b] # tasks[b] => tasks'[b][Len(tasks'[b])] = ver[b]
  BY <1>13 DEF Launch
<1>14. ASSUME NEW p \in Procs, Start(p)
      PROVE  \A b \in Schedules : tasks'[b] # tasks[b] => tasks'[b][Len(tasks'[b])] = ver[b]
  BY <1>14 DEF Start
<1>15. ASSUME NEW p \in Procs, Stop(p)
      PROVE  \A b \in Schedules : tasks'[b] # tasks[b] => tasks'[b][Len(tasks'[b])] = ver[b]
  BY <1>15 DEF Stop
<1>16. ASSUME NEW p \in Procs, Crash(p)
      PROVE  \A b \in Schedules : tasks'[b] # tasks[b] => tasks'[b][Len(tasks'[b])] = ver[b]
  BY <1>16 DEF Crash
<1>17. ASSUME NEW p \in Procs, NEW s \in Schedules, Repeat(p, s)
      PROVE  \A b \in Schedules : tasks'[b] # tasks[b] => tasks'[b][Len(tasks'[b])] = ver[b]
  BY <1>17 DEF Repeat
<1>18. ASSUME NEW p \in Procs, NEW s \in Schedules, Authorize(p, s)
      PROVE  \A b \in Schedules : tasks'[b] # tasks[b] => tasks'[b][Len(tasks'[b])] = ver[b]
  BY <1>18 DEF Authorize
<1>19. ASSUME NEW p \in Procs, NEW s \in Schedules, AuthPause(p, s)
      PROVE  \A b \in Schedules : tasks'[b] # tasks[b] => tasks'[b][Len(tasks'[b])] = ver[b]
  BY <1>19 DEF AuthPause, PauseFrom, Holds
<1>20. ASSUME NEW p \in Procs, NEW s \in Schedules, Claim(p, s)
      PROVE  \A b \in Schedules : tasks'[b] # tasks[b] => tasks'[b][Len(tasks'[b])] = ver[b]
  BY <1>20 DEF Claim, Holds
<1>21. ASSUME NEW p \in Procs, NEW s \in Schedules, ReadAgent(p, s)
      PROVE  \A b \in Schedules : tasks'[b] # tasks[b] => tasks'[b][Len(tasks'[b])] = ver[b]
  BY <1>21 DEF ReadAgent
<1>22. ASSUME NEW p \in Procs, NEW s \in Schedules, AgentPause(p, s)
      PROVE  \A b \in Schedules : tasks'[b] # tasks[b] => tasks'[b][Len(tasks'[b])] = ver[b]
  BY <1>22 DEF AgentPause, PauseFrom, Holds
<1>23. ASSUME NEW p \in Procs, NEW s \in Schedules, EvaluatePolicy(p, s)
      PROVE  \A b \in Schedules : tasks'[b] # tasks[b] => tasks'[b][Len(tasks'[b])] = ver[b]
  BY <1>23 DEF EvaluatePolicy
<1>24. ASSUME NEW p \in Procs, NEW s \in Schedules, PolicyPause(p, s)
      PROVE  \A b \in Schedules : tasks'[b] # tasks[b] => tasks'[b][Len(tasks'[b])] = ver[b]
  BY <1>24 DEF PolicyPause, PauseFrom, Holds
<1>25. ASSUME NEW p \in Procs, NEW s \in Schedules, Create(p, s)
      PROVE  \A b \in Schedules : tasks'[b] # tasks[b] => tasks'[b][Len(tasks'[b])] = ver[b]
  BY <1>25 DEF Create, Holds
<1>26. ASSUME NEW p \in Procs, NEW s \in Schedules, Note(p, s)
      PROVE  \A b \in Schedules : tasks'[b] # tasks[b] => tasks'[b][Len(tasks'[b])] = ver[b]
  BY <1>26 DEF Note
<1>27. ASSUME NEW p \in Procs, NEW s \in Schedules, Fail(p, s)
      PROVE  \A b \in Schedules : tasks'[b] # tasks[b] => tasks'[b][Len(tasks'[b])] = ver[b]
  BY <1>27 DEF Fail, Holds
<1>28. ASSUME NEW p \in Procs, NEW s \in Schedules, RunFault(p, s)
      PROVE  \A b \in Schedules : tasks'[b] # tasks[b] => tasks'[b][Len(tasks'[b])] = ver[b]
  BY <1>28 DEF RunFault
<1>29. CASE UNCHANGED vars
  BY <1>29 DEF vars
<1> QED
  BY <1>1, <1>2, <1>3, <1>4, <1>5, <1>6, <1>7, <1>8, <1>9, <1>10, <1>11,
     <1>12, <1>13, <1>14, <1>15, <1>16, <1>17, <1>18, <1>19, <1>20, <1>21,
     <1>22, <1>23, <1>24, <1>25, <1>26, <1>27, <1>28, <1>29
  DEF Next, UserStep, AgentStep, Proceed, LaunchStep

\* Only a user's step takes a paused or revoked schedule elsewhere.
LEMMA UserStepOnly ==
    ASSUME TypeOK, [Next]_vars
    PROVE  \A b \in Schedules : status[b] \in {"paused", "revoked"}
                  => status'[b] = status[b] \/ UserStep(b)
<1> USE DEF dbVars, userVars, procVars, budget, TypeOK
<1>1. ASSUME NEW s \in Schedules, CreateSchedule(s)
      PROVE  \A b \in Schedules : status[b] \in {"paused", "revoked"}
                  => status'[b] = status[b] \/ UserStep(b)
  BY <1>1 DEF CreateSchedule
<1>2. ASSUME NEW s \in Schedules, PauseSchedule(s)
      PROVE  \A b \in Schedules : status[b] \in {"paused", "revoked"}
                  => status'[b] = status[b] \/ UserStep(b)
  BY <1>2 DEF PauseSchedule, UserStep
<1>3. ASSUME NEW s \in Schedules, RevokeSchedule(s)
      PROVE  \A b \in Schedules : status[b] \in {"paused", "revoked"}
                  => status'[b] = status[b] \/ UserStep(b)
  BY <1>3 DEF RevokeSchedule, UserStep
<1>4. ASSUME NEW s \in Schedules, ResumeSchedule(s)
      PROVE  \A b \in Schedules : status[b] \in {"paused", "revoked"}
                  => status'[b] = status[b] \/ UserStep(b)
  BY <1>4 DEF ResumeSchedule, UserStep
<1>5. ASSUME NEW s \in Schedules, Tick(s)
      PROVE  \A b \in Schedules : status[b] \in {"paused", "revoked"}
                  => status'[b] = status[b] \/ UserStep(b)
  BY <1>5 DEF Tick
<1>6. CASE PauseAgent
  BY <1>6 DEF PauseAgent
<1>7. CASE ResumeAgent
  BY <1>7 DEF ResumeAgent
<1>8. CASE BackgroundOn
  BY <1>8 DEF BackgroundOn
<1>9. CASE BackgroundOff
  BY <1>9 DEF BackgroundOff
<1>10. CASE PauseSchedules
  BY <1>10 DEF PauseSchedules
<1>11. CASE Rotate
  BY <1>11 DEF Rotate
<1>12. ASSUME NEW p \in Procs, PollDue(p)
      PROVE  \A b \in Schedules : status[b] \in {"paused", "revoked"}
                  => status'[b] = status[b] \/ UserStep(b)
  BY <1>12 DEF PollDue
<1>13. ASSUME NEW p \in Procs, NEW rec \in picked[p], Launch(p, rec)
      PROVE  \A b \in Schedules : status[b] \in {"paused", "revoked"}
                  => status'[b] = status[b] \/ UserStep(b)
  BY <1>13 DEF Launch
<1>14. ASSUME NEW p \in Procs, Start(p)
      PROVE  \A b \in Schedules : status[b] \in {"paused", "revoked"}
                  => status'[b] = status[b] \/ UserStep(b)
  BY <1>14 DEF Start
<1>15. ASSUME NEW p \in Procs, Stop(p)
      PROVE  \A b \in Schedules : status[b] \in {"paused", "revoked"}
                  => status'[b] = status[b] \/ UserStep(b)
  BY <1>15 DEF Stop
<1>16. ASSUME NEW p \in Procs, Crash(p)
      PROVE  \A b \in Schedules : status[b] \in {"paused", "revoked"}
                  => status'[b] = status[b] \/ UserStep(b)
  BY <1>16 DEF Crash
<1>17. ASSUME NEW p \in Procs, NEW s \in Schedules, Repeat(p, s)
      PROVE  \A b \in Schedules : status[b] \in {"paused", "revoked"}
                  => status'[b] = status[b] \/ UserStep(b)
  BY <1>17 DEF Repeat
<1>18. ASSUME NEW p \in Procs, NEW s \in Schedules, Authorize(p, s)
      PROVE  \A b \in Schedules : status[b] \in {"paused", "revoked"}
                  => status'[b] = status[b] \/ UserStep(b)
  BY <1>18 DEF Authorize
<1>19. ASSUME NEW p \in Procs, NEW s \in Schedules, AuthPause(p, s)
      PROVE  \A b \in Schedules : status[b] \in {"paused", "revoked"}
                  => status'[b] = status[b] \/ UserStep(b)
  BY <1>19 DEF AuthPause, PauseFrom, Holds
<1>20. ASSUME NEW p \in Procs, NEW s \in Schedules, Claim(p, s)
      PROVE  \A b \in Schedules : status[b] \in {"paused", "revoked"}
                  => status'[b] = status[b] \/ UserStep(b)
  BY <1>20 DEF Claim, Holds
<1>21. ASSUME NEW p \in Procs, NEW s \in Schedules, ReadAgent(p, s)
      PROVE  \A b \in Schedules : status[b] \in {"paused", "revoked"}
                  => status'[b] = status[b] \/ UserStep(b)
  BY <1>21 DEF ReadAgent
<1>22. ASSUME NEW p \in Procs, NEW s \in Schedules, AgentPause(p, s)
      PROVE  \A b \in Schedules : status[b] \in {"paused", "revoked"}
                  => status'[b] = status[b] \/ UserStep(b)
  BY <1>22 DEF AgentPause, PauseFrom, Holds
<1>23. ASSUME NEW p \in Procs, NEW s \in Schedules, EvaluatePolicy(p, s)
      PROVE  \A b \in Schedules : status[b] \in {"paused", "revoked"}
                  => status'[b] = status[b] \/ UserStep(b)
  BY <1>23 DEF EvaluatePolicy
<1>24. ASSUME NEW p \in Procs, NEW s \in Schedules, PolicyPause(p, s)
      PROVE  \A b \in Schedules : status[b] \in {"paused", "revoked"}
                  => status'[b] = status[b] \/ UserStep(b)
  BY <1>24 DEF PolicyPause, PauseFrom, Holds
<1>25. ASSUME NEW p \in Procs, NEW s \in Schedules, Create(p, s)
      PROVE  \A b \in Schedules : status[b] \in {"paused", "revoked"}
                  => status'[b] = status[b] \/ UserStep(b)
  BY <1>25 DEF Create, Holds
<1>26. ASSUME NEW p \in Procs, NEW s \in Schedules, Note(p, s)
      PROVE  \A b \in Schedules : status[b] \in {"paused", "revoked"}
                  => status'[b] = status[b] \/ UserStep(b)
  BY <1>26 DEF Note
<1>27. ASSUME NEW p \in Procs, NEW s \in Schedules, Fail(p, s)
      PROVE  \A b \in Schedules : status[b] \in {"paused", "revoked"}
                  => status'[b] = status[b] \/ UserStep(b)
  BY <1>27 DEF Fail, Holds
<1>28. ASSUME NEW p \in Procs, NEW s \in Schedules, RunFault(p, s)
      PROVE  \A b \in Schedules : status[b] \in {"paused", "revoked"}
                  => status'[b] = status[b] \/ UserStep(b)
  BY <1>28 DEF RunFault
<1>29. CASE UNCHANGED vars
  BY <1>29 DEF vars
<1> QED
  BY <1>1, <1>2, <1>3, <1>4, <1>5, <1>6, <1>7, <1>8, <1>9, <1>10, <1>11,
     <1>12, <1>13, <1>14, <1>15, <1>16, <1>17, <1>18, <1>19, <1>20, <1>21,
     <1>22, <1>23, <1>24, <1>25, <1>26, <1>27, <1>28, <1>29
  DEF Next, UserStep, AgentStep, Proceed, LaunchStep

-----------------------------------------------------------------------------

\* At most one task for each time a nextRunAt passes (OncePerPeriod).
THEOREM Period == Spec => OncePerPeriod
<1>1. PeriodInv /\ [Next]_vars
        => [\A s \in Schedules : tasks'[s] # tasks[s] => s \in due \ due']_vars
  BY PeriodStep
<1> QED
  BY <1>1, Claims, PTL DEF Spec, OncePerPeriod

\* Tasks are created under the current approval (ApprovalIsCurrent).
THEOREM Approval == Spec => ApprovalIsCurrent
<1>1. TypeOK /\ [Next]_vars
        => [\A s \in Schedules : tasks'[s] # tasks[s]
               => tasks'[s][Len(tasks'[s])] = ver[s]]_vars
  BY ApprovalStep
<1> QED
  BY <1>1, Types, PTL DEF Spec, ApprovalIsCurrent

\* A paused or revoked schedule waits for its user (UserDecides).
THEOREM Decision == Spec => UserDecides
<1>1. TypeOK /\ [Next]_vars
        => [\A s \in Schedules : status[s] \in {"paused", "revoked"}
               => status'[s] = status[s] \/ UserStep(s)]_vars
  BY UserStepOnly
<1> QED
  BY <1>1, Types, PTL DEF Spec, UserDecides
=============================================================================
