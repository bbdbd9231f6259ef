----------------------- MODULE AutomationQueueProofs -----------------------
(***************************************************************************)
(* Proofs about AutomationQueue, for any jobs, processes, activations,     *)
(* limit and bounds.                                                       *)
(***************************************************************************)
EXTENDS AutomationQueue, FiniteSetTheorems, TLAPS

\* The rows, the requests and the budgets have their types.
DbOK ==
    /\ status \in [Jobs -> Statuses]
    /\ timed \in SUBSET Jobs /\ early \in SUBSET Jobs
    /\ gated \in SUBSET Jobs /\ logged \in SUBSET Jobs
    /\ jobVer \in [Jobs -> 0..MaxVersion] /\ userVer \in 0..MaxVersion
    /\ canceling \in SUBSET Jobs /\ overlap \in SUBSET Jobs
    /\ acts \in 0..MaxActs /\ faults \in 0..MaxFaults

\* So have the processes' stages and timers ...
StageOK ==
    /\ stage \in [Procs -> {"off", "starting", "up", "draining", "stopped",
                        "aborted", "failed"}]
    /\ queued \in [Procs -> SUBSET Jobs]

\* ... and their activations.
RunType == [at : RunStages, proc : Procs \cup {NoProc}, job : Jobs, ver : 0..MaxVersion]
RunOK == run \in [Runs -> RunType]

\* An activation that is not free belongs to a process.
Placed == \A x \in Runs : run[x].at # "free" => run[x].proc \in Procs

\* The activations a process counts.
Active(p) == {x \in RunsOf(p) : run[x].at \in Counted}

\* The counter is their number.
Counting ==
    /\ running \in [Procs -> Nat]
    /\ \A p \in Procs : IsFiniteSet(Active(p)) /\ running[p] = Cardinality(Active(p))

\* A poll that is about to log a reset has a slot for it.
PollOK ==
    /\ poll \in [Procs -> [at : {"none", "requeue", "requeueLog"}, slots : 0..Limit,
                           todo : SUBSET Jobs, cur : SUBSET Jobs]]
    /\ \A p \in Procs : poll[p].at = "requeueLog" => poll[p].slots > 0

TypeInv == DbOK /\ StageOK /\ RunOK /\ Placed /\ Counting /\ PollOK

\* A job that is worked on and was not retried meanwhile is not in the queue
\* and is not completed: whoever is to complete it is still at work.
WorkHeld ==
    \A x \in Runs : \A j \in Jobs :
        WorksOn(x, j) /\ j \notin overlap => status[j] \in {"running", "failed", "canceled"}

\* A process that does not accept jobs has no timer.
TimersOff == \A p \in Procs : ~Accepting(p) => queued[p] = {}

\* What a step does to the activations and to the counters: nothing; it sends
\* one activation on among the counted stages; or one starts, begins to
\* count, ends without having counted, ends in its finally block, or is lost
\* with its process.
Stays == UNCHANGED <<run, running>>
Goes(x, r) == /\ run[x].at \in Counted /\ r.at \in Counted
              /\ r.proc = run[x].proc /\ r.job = run[x].job
              /\ run' = [run EXCEPT ![x] = r]
              /\ UNCHANGED running
Starts(x, r) == /\ run[x].at = "free" /\ r.at = "read"
                /\ r.proc \in Procs /\ Accepting(r.proc)
                /\ run' = [run EXCEPT ![x] = r]
                /\ UNCHANGED running
Begins(x, r) == /\ run[x].at = "read" /\ r.at = "auth"
                /\ r.proc = run[x].proc /\ r.job = run[x].job
                /\ run' = [run EXCEPT ![x] = r]
                /\ running' = [running EXCEPT ![run[x].proc] = @ + 1]
Leaves(x) == /\ run[x].at = "read"
             /\ run' = [run EXCEPT ![x] = FreeRun]
             /\ UNCHANGED running
Ends(x) == run[x].at \in Counted /\ EndRun(x)
Vanishes(p) == /\ run' = [x \in Runs |-> IF run[x].proc = p THEN FreeRun ELSE run[x]]
               /\ running' = [running EXCEPT ![p] = 0]

RunEffect ==
    \/ Stays
    \/ \E x \in Runs, r \in RunType : Goes(x, r) \/ Starts(x, r) \/ Begins(x, r)
    \/ \E x \in Runs : Leaves(x) \/ Ends(x)
    \/ \E p \in Procs : Vanishes(p)

-----------------------------------------------------------------------------
(* Types.                                                                  *)

\* Rows, requests and budgets keep their types.
LEMMA DbKept ==
    ASSUME DbOK, RunOK, PollOK, [Next]_vars
    PROVE  DbOK'
<1> USE BoundAssumption DEF DbOK, RunOK, RunType, PollOK, dbVars, procVars,
        budget, Statuses, Finished, Due
<1>1. ASSUME NEW p \in Procs, NEW j \in Jobs, NEW later \in BOOLEAN, Create(p, j, later)
      PROVE  DbOK'
  BY <1>1 DEF Create
<1>2. ASSUME NEW j \in Jobs, FallDue(j)
      PROVE  DbOK'
  BY <1>2 DEF FallDue
<1>3. ASSUME NEW j \in Jobs, CancelRead(j)
      PROVE  DbOK'
  BY <1>3 DEF CancelRead, Act
<1>4. ASSUME NEW j \in Jobs, CancelWrite(j)
      PROVE  DbOK'
  BY <1>4 DEF CancelWrite
<1>5. ASSUME NEW j \in Jobs, RecoverStale(j)
      PROVE  DbOK'
  BY <1>5 DEF RecoverStale, Act
<1>6. ASSUME NEW p \in Procs, NEW j \in Jobs, Retry(p, j)
      PROVE  DbOK'
  BY <1>6 DEF Retry, Act, Reset
<1>7. ASSUME NEW x \in Runs, ReadJob(x)
      PROVE  DbOK'
  BY <1>7 DEF ReadJob
<1>8. ASSUME NEW x \in Runs, Authorize(x)
      PROVE  DbOK'
  BY <1>8 DEF Authorize
<1>9. ASSUME NEW x \in Runs, Claim(x)
      PROVE  DbOK'
  BY <1>9 DEF Claim
<1>10. ASSUME NEW x \in Runs, Reread(x)
      PROVE  DbOK'
  BY <1>10 DEF Reread
<1>11. ASSUME NEW x \in Runs, ExecuteThrows(x)
      PROVE  DbOK'
  BY <1>11 DEF ExecuteThrows
<1>12. ASSUME NEW x \in Runs, Complete(x)
      PROVE  DbOK'
  BY <1>12 DEF Complete
<1>13. ASSUME NEW x \in Runs, CloseRun(x)
      PROVE  DbOK'
  BY <1>13 DEF CloseRun
<1>14. ASSUME NEW x \in Runs, Fail(x)
      PROVE  DbOK'
  BY <1>14 DEF Fail
<1>15. ASSUME NEW x \in Runs, RunFault(x)
      PROVE  DbOK'
  BY <1>15 DEF RunFault, Faulty
<1>16. ASSUME NEW x \in Runs, RunRejects(x)
      PROVE  DbOK'
  BY <1>16 DEF RunRejects, Faulty
<1>17. ASSUME NEW p \in Procs, PollStart(p)
      PROVE  DbOK'
  BY <1>17 DEF PollStart
<1>18. ASSUME NEW p \in Procs, RequeueLog(p)
      PROVE  DbOK'
  BY <1>18 DEF RequeueLog
<1>19. ASSUME NEW p \in Procs, PollSelect(p)
      PROVE  DbOK'
  BY <1>19 DEF PollSelect
<1>20. ASSUME NEW p \in Procs, NEW j \in Jobs, RequeueReset(p, j)
      PROVE  DbOK'
  BY <1>20 DEF RequeueReset, Reset
<1>21. ASSUME NEW p \in Procs, NEW j \in Jobs, NEW x \in Runs, Launch(p, j, x)
      PROVE  DbOK'
  BY <1>21 DEF Launch
<1>22. ASSUME NEW p \in Procs, Start(p)
      PROVE  DbOK'
  BY <1>22 DEF Start
<1>23. ASSUME NEW p \in Procs, PollFault(p)
      PROVE  DbOK'
  BY <1>23 DEF PollFault, Faulty
<1>24. ASSUME NEW p \in Procs, StopBegin(p)
      PROVE  DbOK'
  BY <1>24 DEF StopBegin, Act
<1>25. ASSUME NEW p \in Procs, StopEnd(p)
      PROVE  DbOK'
  BY <1>25 DEF StopEnd
<1>26. ASSUME NEW p \in Procs, Exit(p)
      PROVE  DbOK'
  BY <1>26 DEF Exit, Vanish
<1>27. ASSUME NEW p \in Procs, Crash(p)
      PROVE  DbOK'
  BY <1>27 DEF Crash, Vanish, Faulty
<1>28. CASE Revoke
  BY <1>28 DEF Revoke
<1>29. CASE UNCHANGED vars
  BY <1>29 DEF vars
<1> QED
  BY <1>1, <1>2, <1>3, <1>4, <1>5, <1>6, <1>7, <1>8, <1>9, <1>10, <1>11,
     <1>12, <1>13, <1>14, <1>15, <1>16, <1>17, <1>18, <1>19, <1>20, <1>21,
     <1>22, <1>23, <1>24, <1>25, <1>26, <1>27, <1>28, <1>29
  DEF Next, JobStep, Proceed, PollStep, LaunchStep

\* Stages and timers keep theirs.
LEMMA StageKept ==
    ASSUME DbOK, StageOK, RunOK, PollOK, [Next]_vars
    PROVE  StageOK'
<1> USE BoundAssumption DEF DbOK, StageOK, RunOK, RunType, PollOK, dbVars,
        procVars, budget
<1>1. ASSUME NEW p \in Procs, NEW j \in Jobs, NEW later \in BOOLEAN, Create(p, j, later)
      PROVE  StageOK'
  BY <1>1 DEF Create, Enqueued
<1>2. ASSUME NEW j \in Jobs, FallDue(j)
      PROVE  StageOK'
  BY <1>2 DEF FallDue
<1>3. ASSUME NEW j \in Jobs, CancelRead(j)
      PROVE  StageOK'
  BY <1>3 DEF CancelRead
<1>4. ASSUME NEW j \in Jobs, CancelWrite(j)
      PROVE  StageOK'
  BY <1>4 DEF CancelWrite
<1>5. ASSUME NEW j \in Jobs, RecoverStale(j)
      PROVE  StageOK'
  BY <1>5 DEF RecoverStale
<1>6. ASSUME NEW p \in Procs, NEW j \in Jobs, Retry(p, j)
      PROVE  StageOK'
  BY <1>6 DEF Retry, Enqueued
<1>7. ASSUME NEW x \in Runs, ReadJob(x)
      PROVE  StageOK'
  BY <1>7 DEF ReadJob, Enqueued
<1>8. ASSUME NEW x \in Runs, Authorize(x)
      PROVE  StageOK'
  BY <1>8 DEF Authorize
<1>9. ASSUME NEW x \in Runs, Claim(x)
      PROVE  StageOK'
  BY <1>9 DEF Claim
<1>10. ASSUME NEW x \in Runs, Reread(x)
      PROVE  StageOK'
  BY <1>10 DEF Reread
<1>11. ASSUME NEW x \in Runs, ExecuteThrows(x)
      PROVE  StageOK'
  BY <1>11 DEF ExecuteThrows
<1>12. ASSUME NEW x \in Runs, Complete(x)
      PROVE  StageOK'
  BY <1>12 DEF Complete
<1>13. ASSUME NEW x \in Runs, CloseRun(x)
      PROVE  StageOK'
  BY <1>13 DEF CloseRun
<1>14. ASSUME NEW x \in Runs, Fail(x)
      PROVE  StageOK'
  BY <1>14 DEF Fail
<1>15. ASSUME NEW x \in Runs, RunFault(x)
      PROVE  StageOK'
  BY <1>15 DEF RunFault
<1>16. ASSUME NEW x \in Runs, RunRejects(x)
      PROVE  StageOK'
  BY <1>16 DEF RunRejects
<1>17. ASSUME NEW p \in Procs, PollStart(p)
      PROVE  StageOK'
  BY <1>17 DEF PollStart
<1>18. ASSUME NEW p \in Procs, RequeueLog(p)
      PROVE  StageOK'
  BY <1>18 DEF RequeueLog, Enqueued
<1>19. ASSUME NEW p \in Procs, PollSelect(p)
      PROVE  StageOK'
  BY <1>19 DEF PollSelect, Enqueued
<1>20. ASSUME NEW p \in Procs, NEW j \in Jobs, RequeueReset(p, j)
      PROVE  StageOK'
  BY <1>20 DEF RequeueReset
<1>21. ASSUME NEW p \in Procs, NEW j \in Jobs, NEW x \in Runs, Launch(p, j, x)
      PROVE  StageOK'
  BY <1>21 DEF Launch
<1>22. ASSUME NEW p \in Procs, Start(p)
      PROVE  StageOK'
  BY <1>22 DEF Start
<1>23. ASSUME NEW p \in Procs, PollFault(p)
      PROVE  StageOK'
  BY <1>23 DEF PollFault
<1>24. ASSUME NEW p \in Procs, StopBegin(p)
      PROVE  StageOK'
  BY <1>24 DEF StopBegin
<1>25. ASSUME NEW p \in Procs, StopEnd(p)
      PROVE  StageOK'
  BY <1>25 DEF StopEnd
<1>26. ASSUME NEW p \in Procs, Exit(p)
      PROVE  StageOK'
  BY <1>26 DEF Exit, Vanish
<1>27. ASSUME NEW p \in Procs, Crash(p)
      PROVE  StageOK'
  BY <1>27 DEF Crash, Vanish
<1>28. CASE Revoke
  BY <1>28 DEF Revoke
<1>29. CASE UNCHANGED vars
  BY <1>29 DEF vars
<1> QED
  BY <1>1, <1>2, <1>3, <1>4, <1>5, <1>6, <1>7, <1>8, <1>9, <1>10, <1>11,
     <1>12, <1>13, <1>14, <1>15, <1>16, <1>17, <1>18, <1>19, <1>20, <1>21,
     <1>22, <1>23, <1>24, <1>25, <1>26, <1>27, <1>28, <1>29
  DEF Next, JobStep, Proceed, PollStep, LaunchStep

\* A free slot is an activation like another.
LEMMA FreeRunType == FreeRun \in RunType
BY BoundAssumption DEF FreeRun, RunType, RunStages, Jobs

\* A move among the counted stages.
LEMMA MoveGoes ==
    ASSUME RunOK, NEW x \in Runs, NEW a \in Counted, run[x].at \in Counted,
           Move(x, a), UNCHANGED running
    PROVE  \E r \in RunType : Goes(x, r)
<1> DEFINE r == [run[x] EXCEPT !.at = a]
<1>1. run[x] \in RunType
  BY DEF RunOK
<1>2. r \in RunType /\ r.at = a /\ r.proc = run[x].proc /\ r.job = run[x].job
  BY <1>1 DEF RunType, Counted
<1>3. run' = [run EXCEPT ![x] = r]
  BY DEF Move, RunOK
<1>4. Goes(x, r)
  BY <1>2, <1>3 DEF Goes
<1> QED
  BY <1>2, <1>4

\* Every step has one of the effects.
LEMMA RunSteps ==
    ASSUME DbOK, RunOK, [Next]_vars
    PROVE  RunEffect
<1> USE DEF dbVars, procVars, budget
<1>1. ASSUME NEW p \in Procs, NEW j \in Jobs, NEW later \in BOOLEAN, Create(p, j, later)
      PROVE  RunEffect
  BY <1>1 DEF Create, RunEffect, Stays
<1>2. ASSUME NEW j \in Jobs, FallDue(j)
      PROVE  RunEffect
  BY <1>2 DEF FallDue, RunEffect, Stays
<1>3. ASSUME NEW j \in Jobs, CancelRead(j)
      PROVE  RunEffect
  BY <1>3 DEF CancelRead, RunEffect, Stays
<1>4. ASSUME NEW j \in Jobs, CancelWrite(j)
      PROVE  RunEffect
  BY <1>4 DEF CancelWrite, RunEffect, Stays
<1>5. ASSUME NEW j \in Jobs, RecoverStale(j)
      PROVE  RunEffect
  BY <1>5 DEF RecoverStale, RunEffect, Stays
<1>6. ASSUME NEW p \in Procs, NEW j \in Jobs, Retry(p, j)
      PROVE  RunEffect
  BY <1>6 DEF Retry, RunEffect, Stays
<1>7. ASSUME NEW x \in Runs, ReadJob(x)
      PROVE  RunEffect
  <2> DEFINE r == [run[x] EXCEPT !.at = "auth", !.ver = jobVer[run[x].job]]
  <2>1. run[x] \in RunType /\ jobVer[run[x].job] \in 0..MaxVersion
    BY DEF RunOK, RunType, DbOK
  <2>2. r \in RunType
    BY <2>1 DEF RunType, RunStages
  <2>3. r.at = "auth" /\ r.proc = run[x].proc /\ r.job = run[x].job
    BY <2>1 DEF RunType
  <2>4. CASE run' = [run EXCEPT ![x] = FreeRun] /\ UNCHANGED running
    BY <1>7, <2>4 DEF ReadJob, RunEffect, Leaves
  <2>5. CASE /\ running' = [running EXCEPT ![run[x].proc] = @ + 1]
             /\ run' = [run EXCEPT ![x] = r]
    <3>1. Begins(x, r)
      BY <1>7, <2>3, <2>5 DEF ReadJob, Begins
    <3> QED
      BY <2>2, <3>1 DEF RunEffect
  <2> QED
    BY <1>7, <2>4, <2>5 DEF ReadJob
<1>8. ASSUME NEW x \in Runs, Authorize(x)
      PROVE  RunEffect
  <2>1. PICK a \in Counted : Move(x, a) /\ run[x].at \in Counted
    BY <1>8 DEF Authorize, Counted, RunStages
  <2>2. UNCHANGED running
    BY <1>8 DEF Authorize
  <2> QED
    BY <2>1, <2>2, MoveGoes DEF RunEffect
<1>9. ASSUME NEW x \in Runs, Claim(x)
      PROVE  RunEffect
  <2>1. run[x].at \in Counted
    BY <1>9 DEF Claim, Counted, RunStages
  <2>2. CASE Move(x, "reread") /\ UNCHANGED running
    BY <2>1, <2>2, MoveGoes DEF RunEffect, Counted, RunStages
  <2>3. CASE EndRun(x)
    BY <2>1, <2>3 DEF RunEffect, Ends
  <2> QED
    BY <1>9, <2>2, <2>3 DEF Claim
<1>10. ASSUME NEW x \in Runs, Reread(x)
      PROVE  RunEffect
  <2> DEFINE r == [run[x] EXCEPT !.at = "reauth", !.ver = jobVer[run[x].job]]
  <2>1. run[x] \in RunType /\ jobVer[run[x].job] \in 0..MaxVersion
    BY DEF RunOK, RunType, DbOK
  <2>2. r \in RunType
    BY <2>1 DEF RunType, RunStages
  <2>3. r.at = "reauth" /\ r.proc = run[x].proc /\ r.job = run[x].job
    BY <2>1 DEF RunType
  <2>4. run' = [run EXCEPT ![x] = r] /\ run[x].at = "reread" /\ UNCHANGED running
    BY <1>10 DEF Reread, RunOK
  <2>5. Goes(x, r)
    BY <2>3, <2>4 DEF Goes, Counted, RunStages
  <2> QED
    BY <2>2, <2>5 DEF RunEffect
<1>11. ASSUME NEW x \in Runs, ExecuteThrows(x)
      PROVE  RunEffect
  <2>1. PICK a \in Counted : Move(x, a) /\ run[x].at \in Counted
    BY <1>11 DEF ExecuteThrows, Counted, RunStages
  <2>2. UNCHANGED running
    BY <1>11 DEF ExecuteThrows
  <2> QED
    BY <2>1, <2>2, MoveGoes DEF RunEffect
<1>12. ASSUME NEW x \in Runs, Complete(x)
      PROVE  RunEffect
  <2>1. PICK a \in Counted : Move(x, a) /\ run[x].at \in Counted
    BY <1>12 DEF Complete, Counted, RunStages
  <2>2. UNCHANGED running
    BY <1>12 DEF Complete
  <2> QED
    BY <2>1, <2>2, MoveGoes DEF RunEffect
<1>13. ASSUME NEW x \in Runs, CloseRun(x)
      PROVE  RunEffect
  BY <1>13 DEF CloseRun, RunEffect, Ends, Counted, RunStages
<1>14. ASSUME NEW x \in Runs, Fail(x)
      PROVE  RunEffect
  BY <1>14 DEF Fail, RunEffect, Ends, Counted, RunStages
<1>15. ASSUME NEW x \in Runs, RunFault(x)
      PROVE  RunEffect
  <2>1. PICK a \in Counted : Move(x, a) /\ run[x].at \in Counted
    BY <1>15 DEF RunFault, Counted, RunStages
  <2>2. UNCHANGED running
    BY <1>15 DEF RunFault
  <2> QED
    BY <2>1, <2>2, MoveGoes DEF RunEffect
<1>16. ASSUME NEW x \in Runs, RunRejects(x)
      PROVE  RunEffect
  BY <1>16 DEF RunRejects, RunEffect, Ends, Leaves, Counted, RunStages
<1>17. ASSUME NEW p \in Procs, PollStart(p)
      PROVE  RunEffect
  BY <1>17 DEF PollStart, RunEffect, Stays
<1>18. ASSUME NEW p \in Procs, RequeueLog(p)
      PROVE  RunEffect
  BY <1>18 DEF RequeueLog, RunEffect, Stays
<1>19. ASSUME NEW p \in Procs, PollSelect(p)
      PROVE  RunEffect
  BY <1>19 DEF PollSelect, RunEffect, Stays
<1>20. ASSUME NEW p \in Procs, NEW j \in Jobs, RequeueReset(p, j)
      PROVE  RunEffect
  BY <1>20 DEF RequeueReset, RunEffect, Stays
<1>21. ASSUME NEW p \in Procs, NEW j \in Jobs, NEW x \in Runs, Launch(p, j, x)
      PROVE  RunEffect
  <2> DEFINE r == [at |-> "read", proc |-> p, job |-> j, ver |-> 0]
  <2>1. r \in RunType
    BY BoundAssumption DEF RunType, RunStages
  <2>2. Starts(x, r)
    BY <1>21 DEF Launch, Starts
  <2> QED
    BY <2>1, <2>2 DEF RunEffect
<1>22. ASSUME NEW p \in Procs, Start(p)
      PROVE  RunEffect
  BY <1>22 DEF Start, RunEffect, Stays
<1>23. ASSUME NEW p \in Procs, PollFault(p)
      PROVE  RunEffect
  BY <1>23 DEF PollFault, RunEffect, Stays
<1>24. ASSUME NEW p \in Procs, StopBegin(p)
      PROVE  RunEffect
  BY <1>24 DEF StopBegin, RunEffect, Stays
<1>25. ASSUME NEW p \in Procs, StopEnd(p)
      PROVE  RunEffect
  BY <1>25 DEF StopEnd, RunEffect, Stays
<1>26. ASSUME NEW p \in Procs, Exit(p)
      PROVE  RunEffect
  BY <1>26 DEF Exit, Vanish, RunEffect, Vanishes
<1>27. ASSUME NEW p \in Procs, Crash(p)
      PROVE  RunEffect
  BY <1>27 DEF Crash, Vanish, RunEffect, Vanishes
<1>28. CASE Revoke
  BY <1>28 DEF Revoke, RunEffect, Stays
<1>29. CASE UNCHANGED vars
  BY <1>29 DEF vars, RunEffect, Stays
<1> QED
  BY <1>1, <1>2, <1>3, <1>4, <1>5, <1>6, <1>7, <1>8, <1>9, <1>10, <1>11,
     <1>12, <1>13, <1>14, <1>15, <1>16, <1>17, <1>18, <1>19, <1>20, <1>21,
     <1>22, <1>23, <1>24, <1>25, <1>26, <1>27, <1>28, <1>29
  DEF Next, JobStep, Proceed, PollStep, LaunchStep

\* The activations keep their types and their processes, and the counter
\* counts them: one that begins to count was not counted, one that ends was.
LEMMA RunsKept ==
    ASSUME RunOK, Placed, Counting, RunEffect
    PROVE  RunOK' /\ Placed' /\ Counting'
<1>1. CASE Stays
  BY <1>1 DEF Stays, RunOK, Placed, Counting, Active, RunsOf
<1>2. ASSUME NEW x \in Runs, NEW r \in RunType, Goes(x, r)
      PROVE  RunOK' /\ Placed' /\ Counting'
  <2>1. RunOK'
    BY <1>2 DEF Goes, RunOK
  <2>2. \A y \in Runs : /\ run'[y].proc = run[y].proc
                        /\ run'[y].at \in Counted <=> run[y].at \in Counted
                        /\ run[y].at = "free" => run'[y].at = "free"
    BY <1>2 DEF Goes, RunOK, Counted
  <2>3. Placed'
    BY <2>2 DEF Placed
  <2>4. \A p \in Procs : Active(p)' = Active(p)
    BY <2>2 DEF Active, RunsOf
  <2> QED
    BY <1>2, <2>1, <2>3, <2>4 DEF Counting, Goes
<1>3. ASSUME NEW x \in Runs, NEW r \in RunType, Starts(x, r)
      PROVE  RunOK' /\ Placed' /\ Counting'
  <2>1. RunOK' /\ Placed'
    BY <1>3 DEF Starts, RunOK, Placed
  <2>2. \A p \in Procs : Active(p)' = Active(p)
    BY <1>3 DEF Starts, RunOK, Active, RunsOf, Counted
  <2> QED
    BY <1>3, <2>1, <2>2 DEF Counting, Starts
<1>4. ASSUME NEW x \in Runs, NEW r \in RunType, Begins(x, r)
      PROVE  RunOK' /\ Placed' /\ Counting'
  <2>0. PICK q \in Procs : q = run[x].proc
    BY <1>4 DEF Begins, Placed
  <2>1. RunOK' /\ Placed' /\ q \in Procs
    BY <1>4 DEF Begins, RunOK, Placed
  <2>2. \A p \in Procs \ {q} : Active(p)' = Active(p)
    BY <1>4, <2>0 DEF Begins, RunOK, Active, RunsOf, Counted
  <2>3. Active(q)' = Active(q) \cup {x} /\ x \notin Active(q)
    BY <1>4, <2>0 DEF Begins, RunOK, Active, RunsOf, Counted, RunStages
  <2>4. /\ IsFiniteSet(Active(q) \cup {x})
        /\ Cardinality(Active(q) \cup {x}) = Cardinality(Active(q)) + 1
    BY <2>1, <2>3, FS_AddElement DEF Counting
  <2>5. /\ running' \in [Procs -> Nat] /\ running'[q] = running[q] + 1
        /\ \A p \in Procs \ {q} : running'[p] = running[p]
    BY <1>4, <2>0 DEF Begins, Counting
  <2>6. \A p \in Procs : /\ IsFiniteSet(Active(p)')
                         /\ running'[p] = Cardinality(Active(p)')
    <3>1. IsFiniteSet(Active(q)') /\ running'[q] = Cardinality(Active(q)')
      BY <2>1, <2>3, <2>4, <2>5 DEF Counting
    <3>2. \A p \in Procs \ {q} : /\ IsFiniteSet(Active(p)')
                                 /\ running'[p] = Cardinality(Active(p)')
      BY <2>2, <2>5 DEF Counting
    <3> QED
      BY <3>1, <3>2
  <2> QED
    BY <2>1, <2>5, <2>6 DEF Counting
<1>5. ASSUME NEW x \in Runs, Leaves(x)
      PROVE  RunOK' /\ Placed' /\ Counting'
  <2>1. RunOK' /\ Placed'
    BY <1>5, FreeRunType DEF Leaves, RunOK, Placed, FreeRun
  <2>2. \A p \in Procs : Active(p)' = Active(p)
    BY <1>5, BoundAssumption DEF Leaves, RunOK, Active, RunsOf, Counted, FreeRun
  <2> QED
    BY <1>5, <2>1, <2>2 DEF Counting, Leaves
<1>6. ASSUME NEW x \in Runs, Ends(x)
      PROVE  RunOK' /\ Placed' /\ Counting'
  <2>0. PICK q \in Procs : q = run[x].proc
    BY <1>6 DEF Ends, Placed, Counted
  <2>1. RunOK' /\ Placed'
    BY <1>6, FreeRunType DEF Ends, EndRun, RunOK, Placed, FreeRun
  <2>3. \A p \in Procs \ {q} : Active(p)' = Active(p)
    BY <1>6, <2>0, BoundAssumption DEF Ends, EndRun, RunOK, Active, RunsOf, FreeRun
  <2>4. Active(q)' = Active(q) \ {x} /\ x \in Active(q)
    <3>1. x \in Active(q)
      BY <1>6, <2>0 DEF Ends, Active, RunsOf
    <3>2. run'[x].at = "free" /\ \A y \in Runs \ {x} : run'[y] = run[y]
      BY <1>6 DEF Ends, EndRun, RunOK, FreeRun
    <3> QED
      BY <3>1, <3>2 DEF Active, RunsOf, Counted
  <2>5. /\ IsFiniteSet(Active(q) \ {x})
        /\ Cardinality(Active(q) \ {x}) = Cardinality(Active(q)) - 1
    BY <2>4, FS_RemoveElement DEF Counting
  <2>6. IsFiniteSet(Active(q) \ {x}) => Cardinality(Active(q) \ {x}) \in Nat
    BY FS_CardinalityType
  <2>7. running' \in [Procs -> Int] /\ running'[q] = running[q] - 1
        /\ \A p \in Procs \ {q} : running'[p] = running[p]
    BY <1>6, <2>0 DEF Ends, EndRun, Counting
  <2>8. \A p \in Procs : /\ IsFiniteSet(Active(p)')
                         /\ running'[p] = Cardinality(Active(p)') /\ running'[p] \in Nat
    <3>1. /\ IsFiniteSet(Active(q)') /\ running'[q] \in Nat
          /\ running'[q] = Cardinality(Active(q)')
      BY <2>4, <2>5, <2>6, <2>7 DEF Counting
    <3>2. \A p \in Procs \ {q} : /\ IsFiniteSet(Active(p)') /\ running'[p] \in Nat
                                 /\ running'[p] = Cardinality(Active(p)')
      BY <2>3, <2>7 DEF Counting
    <3> QED
      BY <3>1, <3>2
  <2>9. running' \in [Procs -> Nat]
    BY <2>7, <2>8
  <2> QED
    BY <2>1, <2>8, <2>9 DEF Counting
<1>7. ASSUME NEW q \in Procs, Vanishes(q)
      PROVE  RunOK' /\ Placed' /\ Counting'
  <2>1. RunOK' /\ Placed'
    BY <1>7, FreeRunType DEF Vanishes, RunOK, Placed, FreeRun
  <2>2. \A p \in Procs \ {q} : Active(p)' = Active(p)
    BY <1>7, BoundAssumption DEF Vanishes, RunOK, Active, RunsOf, FreeRun
  <2>3. Active(q)' = {}
    BY <1>7, BoundAssumption DEF Vanishes, RunOK, Active, RunsOf, FreeRun, Counted
  <2>4. running' \in [Procs -> Nat] /\ running'[q] = 0
        /\ \A p \in Procs \ {q} : running'[p] = running[p]
    BY <1>7 DEF Vanishes, Counting
  <2> QED
    BY <2>1, <2>2, <2>3, <2>4, FS_EmptySet DEF Counting
<1> QED
  BY <1>1, <1>2, <1>3, <1>4, <1>5, <1>6, <1>7 DEF RunEffect

\* Polls keep their types: one starts only below the limit, and a reset uses
\* a slot it has.
LEMMA PollKept ==
    ASSUME PollOK, DbOK, Counting, [Next]_vars
    PROVE  PollOK'
<1> USE BoundAssumption DEF PollOK, DbOK, Counting, NoPoll, dbVars, procVars,
        budget
<1>1. ASSUME NEW p \in Procs, NEW j \in Jobs, NEW later \in BOOLEAN, Create(p, j, later)
      PROVE  PollOK'
  BY <1>1 DEF Create
<1>2. ASSUME NEW j \in Jobs, FallDue(j)
      PROVE  PollOK'
  BY <1>2 DEF FallDue
<1>3. ASSUME NEW j \in Jobs, CancelRead(j)
      PROVE  PollOK'
  BY <1>3 DEF CancelRead
<1>4. ASSUME NEW j \in Jobs, CancelWrite(j)
      PROVE  PollOK'
  BY <1>4 DEF CancelWrite
<1>5. ASSUME NEW j \in Jobs, RecoverStale(j)
      PROVE  PollOK'
  BY <1>5 DEF RecoverStale
<1>6. ASSUME NEW p \in Procs, NEW j \in Jobs, Retry(p, j)
      PROVE  PollOK'
  BY <1>6 DEF Retry
<1>7. ASSUME NEW x \in Runs, ReadJob(x)
      PROVE  PollOK'
  BY <1>7 DEF ReadJob
<1>8. ASSUME NEW x \in Runs, Authorize(x)
      PROVE  PollOK'
  BY <1>8 DEF Authorize
<1>9. ASSUME NEW x \in Runs, Claim(x)
      PROVE  PollOK'
  BY <1>9 DEF Claim
<1>10. ASSUME NEW x \in Runs, Reread(x)
      PROVE  PollOK'
  BY <1>10 DEF Reread
<1>11. ASSUME NEW x \in Runs, ExecuteThrows(x)
      PROVE  PollOK'
  BY <1>11 DEF ExecuteThrows
<1>12. ASSUME NEW x \in Runs, Complete(x)
      PROVE  PollOK'
  BY <1>12 DEF Complete
<1>13. ASSUME NEW x \in Runs, CloseRun(x)
      PROVE  PollOK'
  BY <1>13 DEF CloseRun
<1>14. ASSUME NEW x \in Runs, Fail(x)
      PROVE  PollOK'
  BY <1>14 DEF Fail
<1>15. ASSUME NEW x \in Runs, RunFault(x)
      PROVE  PollOK'
  BY <1>15 DEF RunFault
<1>16. ASSUME NEW x \in Runs, RunRejects(x)
      PROVE  PollOK'
  BY <1>16 DEF RunRejects
<1>17. ASSUME NEW p \in Procs, PollStart(p)
      PROVE  PollOK'
  BY <1>17 DEF PollStart
<1>18. ASSUME NEW p \in Procs, RequeueLog(p)
      PROVE  PollOK'
  BY <1>18 DEF RequeueLog
<1>19. ASSUME NEW p \in Procs, PollSelect(p)
      PROVE  PollOK'
  BY <1>19 DEF PollSelect
<1>20. ASSUME NEW p \in Procs, NEW j \in Jobs, RequeueReset(p, j)
      PROVE  PollOK'
  BY <1>20 DEF RequeueReset
<1>21. ASSUME NEW p \in Procs, NEW j \in Jobs, NEW x \in Runs, Launch(p, j, x)
      PROVE  PollOK'
  BY <1>21 DEF Launch
<1>22. ASSUME NEW p \in Procs, Start(p)
      PROVE  PollOK'
  BY <1>22 DEF Start
<1>23. ASSUME NEW p \in Procs, PollFault(p)
      PROVE  PollOK'
  BY <1>23 DEF PollFault
<1>24. ASSUME NEW p \in Procs, StopBegin(p)
      PROVE  PollOK'
  BY <1>24 DEF StopBegin
<1>25. ASSUME NEW p \in Procs, StopEnd(p)
      PROVE  PollOK'
  BY <1>25 DEF StopEnd
<1>26. ASSUME NEW p \in Procs, Exit(p)
      PROVE  PollOK'
  BY <1>26 DEF Exit, Vanish
<1>27. ASSUME NEW p \in Procs, Crash(p)
      PROVE  PollOK'
  BY <1>27 DEF Crash, Vanish
<1>28. CASE Revoke
  BY <1>28 DEF Revoke
<1>29. CASE UNCHANGED vars
  BY <1>29 DEF vars
<1> QED
  BY <1>1, <1>2, <1>3, <1>4, <1>5, <1>6, <1>7, <1>8, <1>9, <1>10, <1>11,
     <1>12, <1>13, <1>14, <1>15, <1>16, <1>17, <1>18, <1>19, <1>20, <1>21,
     <1>22, <1>23, <1>24, <1>25, <1>26, <1>27, <1>28, <1>29
  DEF Next, JobStep, Proceed, PollStep, LaunchStep

\* All of it together.
LEMMA TypeKept ==
    ASSUME TypeInv, [Next]_vars
    PROVE  TypeInv'
BY DbKept, StageKept, RunSteps, RunsKept, PollKept DEF TypeInv

LEMMA TypeInit ==
    ASSUME Init
    PROVE  TypeInv
<1>1. DbOK /\ StageOK /\ PollOK
  BY BoundAssumption DEF Init, DbOK, StageOK, PollOK, NoPoll, Statuses
<1>2. RunOK /\ Placed
  BY FreeRunType DEF Init, RunOK, Placed, FreeRun
<1>3. \A p \in Procs : Active(p) = {}
  BY BoundAssumption DEF Init, Active, RunsOf, FreeRun
<1>4. Counting
  BY <1>3, FS_EmptySet DEF Init, Counting
<1> QED
  BY <1>1, <1>2, <1>4 DEF TypeInv

\* Types: every variable keeps its type; a poll never counts a negative
\* number of slots, even while the counter is above the limit.
THEOREM Types == Spec => []TypeOK
<1>1. TypeInv => TypeOK
  BY DEF TypeInv, DbOK, StageOK, RunOK, RunType, Counting, PollOK, TypeOK
<1> QED
  BY <1>1, TypeInit, TypeKept, PTL DEF Spec

\* The counter: runningJobs is always the number of activations between its
\* increment and the finally block, whatever throws and in which order the
\* activations of the process end.
THEOREM Counter == Spec => []CounterMatches
<1>1. TypeInv => CounterMatches
  BY DEF TypeInv, Counting, Active, CounterMatches
<1> QED
  BY <1>1, TypeInit, TypeKept, PTL DEF Spec


-----------------------------------------------------------------------------
(* One run at a time.                                                      *)

\* A step that sends no activation to work on a job, and takes no job that is
\* worked on, and that nobody retried meanwhile, out of the states of WorkHeld.
Harmless ==
    /\ overlap \subseteq overlap'
    /\ \A x \in Runs : \A j \in Jobs : WorksOn(x, j)' => WorksOn(x, j)
    /\ \A j \in Jobs :
         \/ status'[j] \in {status[j], "running", "failed", "canceled"}
         \/ \A x \in Runs : WorksOn(x, j)' => j \in overlap'

\* A claim that finds its job due.
Claims(x) ==
    /\ Due(run[x].job)
    /\ status' = [status EXCEPT ![run[x].job] = "running"]
    /\ Move(x, "reread")
    /\ UNCHANGED overlap

\* Every step is harmless or such a claim.
LEMMA WorkSteps ==
    ASSUME TypeInv, WorkHeld, ExclusiveExecution, [Next]_vars
    PROVE  Harmless \/ \E y \in Runs : Claims(y)
<1> USE DEF TypeInv, dbVars, procVars, budget
<1>1. ASSUME NEW p \in Procs, NEW j \in Jobs, NEW later \in BOOLEAN, Create(p, j, later)
      PROVE  Harmless \/ \E y \in Runs : Claims(y)
  <2>1. UNCHANGED <<overlap, run>>
    BY <1>1 DEF Create
  <2>2. \A i \in Jobs : \/ status'[i] \in {status[i], "failed", "canceled"}
                       \/ status[i] \in {"none", "completed"}
    BY <1>1 DEF Create, TypeInv, DbOK, Statuses
  <2> QED
    BY <2>1, <2>2 DEF Harmless, WorkHeld, WorksOn
<1>2. ASSUME NEW j \in Jobs, FallDue(j)
      PROVE  Harmless \/ \E y \in Runs : Claims(y)
  BY <1>2 DEF FallDue, Harmless, WorksOn
<1>3. ASSUME NEW j \in Jobs, CancelRead(j)
      PROVE  Harmless \/ \E y \in Runs : Claims(y)
  BY <1>3 DEF CancelRead, Harmless, WorksOn
<1>4. ASSUME NEW j \in Jobs, CancelWrite(j)
      PROVE  Harmless \/ \E y \in Runs : Claims(y)
  <2>1. UNCHANGED <<overlap, run>>
    BY <1>4 DEF CancelWrite
  <2>2. \A i \in Jobs : \/ status'[i] \in {status[i], "failed", "canceled"}
                       \/ status[i] \in {"none", "completed"}
    BY <1>4 DEF CancelWrite, TypeInv, DbOK, Statuses
  <2> QED
    BY <2>1, <2>2 DEF Harmless, WorkHeld, WorksOn
<1>5. ASSUME NEW j \in Jobs, RecoverStale(j)
      PROVE  Harmless \/ \E y \in Runs : Claims(y)
  <2>1. UNCHANGED <<overlap, run>>
    BY <1>5 DEF RecoverStale
  <2>2. \A i \in Jobs : \/ status'[i] \in {status[i], "failed", "canceled"}
                       \/ status[i] \in {"none", "completed"}
    BY <1>5 DEF RecoverStale, TypeInv, DbOK, Statuses
  <2> QED
    BY <2>1, <2>2 DEF Harmless, WorkHeld, WorksOn
<1>6. ASSUME NEW p \in Procs, NEW j \in Jobs, Retry(p, j)
      PROVE  Harmless \/ \E y \in Runs : Claims(y)
  <2>1. status' = [status EXCEPT ![j] = "pending"] /\ UNCHANGED run
    BY <1>6 DEF Retry, Reset
  <2>2. overlap' = IF \E y \in Runs : WorksOn(y, j) THEN overlap \cup {j} ELSE overlap
    BY <1>6 DEF Retry, WorksOn
  <2> QED
    BY <2>1, <2>2 DEF Harmless, WorksOn, TypeInv, DbOK
<1>7. ASSUME NEW x \in Runs, ReadJob(x)
      PROVE  Harmless \/ \E y \in Runs : Claims(y)
  <2>1. UNCHANGED overlap
    BY <1>7 DEF ReadJob
  <2>2. \A y \in Runs : run'[y].at \in Working =>
          run[y].at \in Working /\ run'[y].job = run[y].job
    BY <1>7 DEF ReadJob, FreeRun, RunOK, RunType, Working
  <2>3. \A i \in Jobs : status'[i] \in {status[i], "running"}
    BY <1>7 DEF ReadJob, TypeInv, DbOK, Statuses
  <2> QED
    BY <2>1, <2>2, <2>3 DEF Harmless, WorksOn
<1>8. ASSUME NEW x \in Runs, Authorize(x)
      PROVE  Harmless \/ \E y \in Runs : Claims(y)
  <2>1. UNCHANGED overlap
    BY <1>8 DEF Authorize
  <2>2. \A y \in Runs : run'[y].at \in Working =>
          run[y].at \in Working /\ run'[y].job = run[y].job
    BY <1>8 DEF Authorize, Move, RunOK, RunType, Working
  <2>3. \A i \in Jobs : status'[i] \in {status[i], "running"}
    BY <1>8 DEF Authorize, TypeInv, DbOK, Statuses
  <2> QED
    BY <2>1, <2>2, <2>3 DEF Harmless, WorksOn
<1>9. ASSUME NEW x \in Runs, Claim(x)
      PROVE  Harmless \/ \E y \in Runs : Claims(y)
  <2>1. CASE ~Due(run[x].job)
    <3>1. UNCHANGED <<status, overlap>> /\ EndRun(x)
      BY <1>9, <2>1 DEF Claim
    <3>2. \A y \in Runs : run'[y].at \in Working =>
          run[y].at \in Working /\ run'[y].job = run[y].job
      BY <3>1 DEF EndRun, FreeRun, RunOK, RunType, Working
    <3> QED
      BY <3>1, <3>2 DEF Harmless, WorksOn
  <2>2. CASE Due(run[x].job)
    BY <1>9, <2>2 DEF Claim, Claims
  <2> QED
    BY <2>1, <2>2
<1>10. ASSUME NEW x \in Runs, Reread(x)
      PROVE  Harmless \/ \E y \in Runs : Claims(y)
  <2>1. UNCHANGED overlap
    BY <1>10 DEF Reread
  <2>2. \A y \in Runs : run'[y].at \in Working =>
          run[y].at \in Working /\ run'[y].job = run[y].job
    BY <1>10 DEF Reread, RunOK, RunType, Working
  <2>3. \A i \in Jobs : status'[i] \in {status[i], "running"}
    BY <1>10 DEF Reread, TypeInv, DbOK, Statuses
  <2> QED
    BY <2>1, <2>2, <2>3 DEF Harmless, WorksOn
<1>11. ASSUME NEW x \in Runs, ExecuteThrows(x)
      PROVE  Harmless \/ \E y \in Runs : Claims(y)
  <2>1. UNCHANGED overlap
    BY <1>11 DEF ExecuteThrows
  <2>2. \A y \in Runs : run'[y].at \in Working =>
          run[y].at \in Working /\ run'[y].job = run[y].job
    BY <1>11 DEF ExecuteThrows, Move, RunOK, RunType, Working
  <2>3. \A i \in Jobs : status'[i] \in {status[i], "running"}
    BY <1>11 DEF ExecuteThrows, TypeInv, DbOK, Statuses
  <2> QED
    BY <2>1, <2>2, <2>3 DEF Harmless, WorksOn
<1>12. ASSUME NEW x \in Runs, Complete(x)
      PROVE  Harmless \/ \E y \in Runs : Claims(y)
  <2> DEFINE j == run[x].job
  <2>1. UNCHANGED overlap
    BY <1>12 DEF Complete
  <2>2. \A y \in Runs : run'[y].at \in Working =>
          run[y].at \in Working /\ run'[y].job = run[y].job
    BY <1>12 DEF Complete, Move, RunOK, RunType, Working
  <2>3. run'[x].at \notin Working
    BY <1>12 DEF Complete, Move, RunOK, Working
  <2>4. \A i \in Jobs : i # run[x].job => status'[i] \in {status[i], "running"}
    BY <1>12 DEF Complete, TypeInv, DbOK, Statuses
  <2>5. run[x].at # "exec" => \A i \in Jobs : status'[i] \in {status[i], "running"}
    BY <1>12 DEF Complete, TypeInv, DbOK, Statuses
  <2>6. ASSUME NEW i \in Jobs, i = run[x].job, run[x].at = "exec"
        PROVE  \A y \in Runs : WorksOn(y, i)' => i \in overlap
    BY <2>2, <2>3, <2>6 DEF ExclusiveExecution, WorksOn, Working
  <2> QED
    BY <2>1, <2>2, <2>4, <2>5, <2>6 DEF Harmless, WorksOn
<1>13. ASSUME NEW x \in Runs, CloseRun(x)
      PROVE  Harmless \/ \E y \in Runs : Claims(y)
  <2>1. UNCHANGED overlap
    BY <1>13 DEF CloseRun
  <2>2. \A y \in Runs : run'[y].at \in Working =>
          run[y].at \in Working /\ run'[y].job = run[y].job
    BY <1>13 DEF CloseRun, EndRun, FreeRun, RunOK, RunType, Working
  <2>3. \A i \in Jobs : status'[i] \in {status[i], "running"}
    BY <1>13 DEF CloseRun, TypeInv, DbOK, Statuses
  <2> QED
    BY <2>1, <2>2, <2>3 DEF Harmless, WorksOn
<1>14. ASSUME NEW x \in Runs, Fail(x)
      PROVE  Harmless \/ \E y \in Runs : Claims(y)
  <2>1. UNCHANGED overlap
    BY <1>14 DEF Fail
  <2>2. \A y \in Runs : run'[y].at \in Working =>
          run[y].at \in Working /\ run'[y].job = run[y].job
    BY <1>14 DEF Fail, EndRun, FreeRun, RunOK, RunType, Working
  <2>3. \A i \in Jobs : status'[i] \in {status[i], "failed"}
    BY <1>14 DEF Fail, TypeInv, DbOK, Statuses
  <2> QED
    BY <2>1, <2>2, <2>3 DEF Harmless, WorksOn
<1>15. ASSUME NEW x \in Runs, RunFault(x)
      PROVE  Harmless \/ \E y \in Runs : Claims(y)
  <2> DEFINE j == run[x].job
  <2>1. UNCHANGED overlap
    BY <1>15 DEF RunFault
  <2>2. \A y \in Runs : run'[y].at \in Working =>
          run[y].at \in Working /\ run'[y].job = run[y].job
    BY <1>15 DEF RunFault, Move, RunOK, RunType, Working
  <2>3. run'[x].at \notin Working
    BY <1>15 DEF RunFault, Move, RunOK, Working
  <2>4. \A i \in Jobs : i # run[x].job => status'[i] \in {status[i], "running"}
    BY <1>15 DEF RunFault, TypeInv, DbOK, Statuses
  <2>5. run[x].at # "exec" => \A i \in Jobs : status'[i] \in {status[i], "running"}
    BY <1>15 DEF RunFault, TypeInv, DbOK, Statuses
  <2>6. ASSUME NEW i \in Jobs, i = run[x].job, run[x].at = "exec"
        PROVE  \A y \in Runs : WorksOn(y, i)' => i \in overlap
    BY <2>2, <2>3, <2>6 DEF ExclusiveExecution, WorksOn, Working
  <2> QED
    BY <2>1, <2>2, <2>4, <2>5, <2>6 DEF Harmless, WorksOn
<1>16. ASSUME NEW x \in Runs, RunRejects(x)
      PROVE  Harmless \/ \E y \in Runs : Claims(y)
  <2>1. UNCHANGED overlap
    BY <1>16 DEF RunRejects
  <2>2. \A y \in Runs : run'[y].at \in Working =>
          run[y].at \in Working /\ run'[y].job = run[y].job
    BY <1>16 DEF RunRejects, EndRun, FreeRun, RunOK, RunType, Working
  <2>3. \A i \in Jobs : status'[i] \in {status[i], "running"}
    BY <1>16 DEF RunRejects, TypeInv, DbOK, Statuses
  <2> QED
    BY <2>1, <2>2, <2>3 DEF Harmless, WorksOn
<1>17. ASSUME NEW p \in Procs, PollStart(p)
      PROVE  Harmless \/ \E y \in Runs : Claims(y)
  BY <1>17 DEF PollStart, Harmless, WorksOn
<1>18. ASSUME NEW p \in Procs, RequeueLog(p)
      PROVE  Harmless \/ \E y \in Runs : Claims(y)
  BY <1>18 DEF RequeueLog, Harmless, WorksOn
<1>19. ASSUME NEW p \in Procs, PollSelect(p)
      PROVE  Harmless \/ \E y \in Runs : Claims(y)
  BY <1>19 DEF PollSelect, Harmless, WorksOn
<1>20. ASSUME NEW p \in Procs, NEW j \in Jobs, RequeueReset(p, j)
      PROVE  Harmless \/ \E y \in Runs : Claims(y)
  <2>1. UNCHANGED <<overlap, run>>
    BY <1>20 DEF RequeueReset
  <2>2. \A i \in Jobs : \/ status'[i] \in {status[i], "failed", "canceled"}
                       \/ status[i] \in {"none", "completed"}
    BY <1>20 DEF RequeueReset, Reset, TypeInv, DbOK, Statuses
  <2> QED
    BY <2>1, <2>2 DEF Harmless, WorkHeld, WorksOn
<1>21. ASSUME NEW p \in Procs, NEW j \in Jobs, NEW x \in Runs, Launch(p, j, x)
      PROVE  Harmless \/ \E y \in Runs : Claims(y)
  <2>1. UNCHANGED overlap
    BY <1>21 DEF Launch
  <2>2. \A y \in Runs : run'[y].at \in Working =>
          run[y].at \in Working /\ run'[y].job = run[y].job
    BY <1>21 DEF Launch, RunOK, RunType, Working
  <2>3. \A i \in Jobs : status'[i] \in {status[i], "running"}
    BY <1>21 DEF Launch, TypeInv, DbOK, Statuses
  <2> QED
    BY <2>1, <2>2, <2>3 DEF Harmless, WorksOn
<1>22. ASSUME NEW p \in Procs, Start(p)
      PROVE  Harmless \/ \E y \in Runs : Claims(y)
  BY <1>22 DEF Start, Harmless, WorksOn
<1>23. ASSUME NEW p \in Procs, PollFault(p)
      PROVE  Harmless \/ \E y \in Runs : Claims(y)
  BY <1>23 DEF PollFault, Harmless, WorksOn
<1>24. ASSUME NEW p \in Procs, StopBegin(p)
      PROVE  Harmless \/ \E y \in Runs : Claims(y)
  BY <1>24 DEF StopBegin, Harmless, WorksOn
<1>25. ASSUME NEW p \in Procs, StopEnd(p)
      PROVE  Harmless \/ \E y \in Runs : Claims(y)
  BY <1>25 DEF StopEnd, Harmless, WorksOn
<1>26. ASSUME NEW p \in Procs, Exit(p)
      PROVE  Harmless \/ \E y \in Runs : Claims(y)
  <2>1. UNCHANGED overlap
    BY <1>26 DEF Exit, Vanish
  <2>2. \A y \in Runs : run'[y].at \in Working =>
          run[y].at \in Working /\ run'[y].job = run[y].job
    BY <1>26 DEF Exit, Vanish, FreeRun, RunOK, RunType, Working
  <2>3. \A i \in Jobs : status'[i] \in {status[i], "running"}
    BY <1>26 DEF Exit, Vanish, TypeInv, DbOK, Statuses
  <2> QED
    BY <2>1, <2>2, <2>3 DEF Harmless, WorksOn
<1>27. ASSUME NEW p \in Procs, Crash(p)
      PROVE  Harmless \/ \E y \in Runs : Claims(y)
  <2>1. UNCHANGED overlap
    BY <1>27 DEF Crash, Vanish
  <2>2. \A y \in Runs : run'[y].at \in Working =>
          run[y].at \in Working /\ run'[y].job = run[y].job
    BY <1>27 DEF Crash, Vanish, FreeRun, RunOK, RunType, Working
  <2>3. \A i \in Jobs : status'[i] \in {status[i], "running"}
    BY <1>27 DEF Crash, Vanish, TypeInv, DbOK, Statuses
  <2> QED
    BY <2>1, <2>2, <2>3 DEF Harmless, WorksOn
<1>28. CASE Revoke
  BY <1>28 DEF Revoke, Harmless, WorksOn
<1>29. CASE UNCHANGED vars
  BY <1>29 DEF vars, Harmless, WorksOn
<1> QED
  BY <1>1, <1>2, <1>3, <1>4, <1>5, <1>6, <1>7, <1>8, <1>9, <1>10, <1>11,
     <1>12, <1>13, <1>14, <1>15, <1>16, <1>17, <1>18, <1>19, <1>20, <1>21,
     <1>22, <1>23, <1>24, <1>25, <1>26, <1>27, <1>28, <1>29
  DEF Next, JobStep, Proceed, PollStep, LaunchStep

\* A claim lets a run in only where WorkHeld says that no other run is, since
\* the row it updates is due.
LEMMA WorkKept ==
    ASSUME TypeInv, WorkHeld, ExclusiveExecution, [Next]_vars
    PROVE  WorkHeld' /\ ExclusiveExecution'
<1>1. CASE Harmless
  BY <1>1 DEF Harmless, WorkHeld, ExclusiveExecution, WorksOn
<1>2. ASSUME NEW x \in Runs, Claims(x)
      PROVE  WorkHeld' /\ ExclusiveExecution'
  <2>0. PICK j \in Jobs : j = run[x].job
    BY DEF TypeInv, RunOK, RunType
  <2>1. UNCHANGED overlap /\ status[j] \in {"pending", "scheduled"}
    BY <1>2, <2>0 DEF Claims, Due
  <2>2. status'[j] = "running" /\ \A i \in Jobs \ {j} : status'[i] = status[i]
    BY <1>2, <2>0 DEF Claims, TypeInv, DbOK
  <2>3. \A y \in Runs \ {x} : \A i \in Jobs : WorksOn(y, i)' => WorksOn(y, i)
    BY <1>2 DEF Claims, Move, WorksOn, TypeInv, RunOK
  <2>4. \A i \in Jobs : WorksOn(x, i)' => i = j
    BY <1>2, <2>0 DEF Claims, Move, WorksOn, TypeInv, RunOK, RunType
  <2>5. \A y \in Runs : WorksOn(y, j) => j \in overlap
    BY <2>1 DEF WorkHeld
  <2>6. WorkHeld'
    BY <2>1, <2>2, <2>3, <2>4 DEF WorkHeld
  <2> QED
    BY <2>1, <2>3, <2>4, <2>5, <2>6 DEF ExclusiveExecution
<1> QED
  BY <1>1, <1>2, WorkSteps


\* Exclusive execution: unless somebody retried it while a run was working on
\* it, a job is never worked on by two runs, in whatever processes they are.
THEOREM Exclusive == Spec => []ExclusiveExecution
<1>1. Init => WorkHeld /\ ExclusiveExecution
  BY DEF Init, WorkHeld, ExclusiveExecution, WorksOn, Working, FreeRun
<1> QED
  BY <1>1, TypeInit, TypeKept, WorkKept, PTL DEF Spec


-----------------------------------------------------------------------------
(* The orderly stop and the cancellation.                                  *)

\* A worker whose stop has returned or rejected polls no more; one whose stop has
\* returned has no activation left.
StoppedIdle ==
    \A p \in Procs :
        /\ stage[p] \in {"stopped", "aborted"} => poll[p].at = "none"
        /\ stage[p] = "stopped" => RunsOf(p) = {}

\* A worker that is stopped after a step did not accept jobs before it.
StopStep ==
    \A q \in Procs :
        /\ stage'[q] \in {"stopped", "aborted"} => ~Accepting(q) /\ poll'[q].at = "none"
        /\ stage'[q] = "stopped" => RunsOf(q) = {}

\* A worker's timers go when it stops accepting, and it arms none after that.
LEMMA TimersKept ==
    ASSUME TypeInv, TimersOff, [Next]_vars
    PROVE  TimersOff'
<1> USE DEF TypeInv, StageOK, TimersOff, Accepting, dbVars, procVars, budget
<1>1. ASSUME NEW p \in Procs, NEW j \in Jobs, NEW later \in BOOLEAN, Create(p, j, later)
      PROVE  TimersOff'
  BY <1>1 DEF Create, Enqueued
<1>2. ASSUME NEW j \in Jobs, FallDue(j)
      PROVE  TimersOff'
  BY <1>2 DEF FallDue
<1>3. ASSUME NEW j \in Jobs, CancelRead(j)
      PROVE  TimersOff'
  BY <1>3 DEF CancelRead
<1>4. ASSUME NEW j \in Jobs, CancelWrite(j)
      PROVE  TimersOff'
  BY <1>4 DEF CancelWrite
<1>5. ASSUME NEW j \in Jobs, RecoverStale(j)
      PROVE  TimersOff'
  BY <1>5 DEF RecoverStale
<1>6. ASSUME NEW p \in Procs, NEW j \in Jobs, Retry(p, j)
      PROVE  TimersOff'
  BY <1>6 DEF Retry, Enqueued
<1>7. ASSUME NEW x \in Runs, ReadJob(x)
      PROVE  TimersOff'
  BY <1>7 DEF ReadJob, Enqueued
<1>8. ASSUME NEW x \in Runs, Authorize(x)
      PROVE  TimersOff'
  BY <1>8 DEF Authorize
<1>9. ASSUME NEW x \in Runs, Claim(x)
      PROVE  TimersOff'
  BY <1>9 DEF Claim
<1>10. ASSUME NEW x \in Runs, Reread(x)
      PROVE  TimersOff'
  BY <1>10 DEF Reread
<1>11. ASSUME NEW x \in Runs, ExecuteThrows(x)
      PROVE  TimersOff'
  BY <1>11 DEF ExecuteThrows
<1>12. ASSUME NEW x \in Runs, Complete(x)
      PROVE  TimersOff'
  BY <1>12 DEF Complete
<1>13. ASSUME NEW x \in Runs, CloseRun(x)
      PROVE  TimersOff'
  BY <1>13 DEF CloseRun
<1>14. ASSUME NEW x \in Runs, Fail(x)
      PROVE  TimersOff'
  BY <1>14 DEF Fail
<1>15. ASSUME NEW x \in Runs, RunFault(x)
      PROVE  TimersOff'
  BY <1>15 DEF RunFault
<1>16. ASSUME NEW x \in Runs, RunRejects(x)
      PROVE  TimersOff'
  BY <1>16 DEF RunRejects
<1>17. ASSUME NEW p \in Procs, PollStart(p)
      PROVE  TimersOff'
  BY <1>17 DEF PollStart
<1>18. ASSUME NEW p \in Procs, RequeueLog(p)
      PROVE  TimersOff'
  BY <1>18 DEF RequeueLog, Enqueued
<1>19. ASSUME NEW p \in Procs, PollSelect(p)
      PROVE  TimersOff'
  BY <1>19 DEF PollSelect, Enqueued
<1>20. ASSUME NEW p \in Procs, NEW j \in Jobs, RequeueReset(p, j)
      PROVE  TimersOff'
  BY <1>20 DEF RequeueReset
<1>21. ASSUME NEW p \in Procs, NEW j \in Jobs, NEW x \in Runs, Launch(p, j, x)
      PROVE  TimersOff'
  BY <1>21 DEF Launch
<1>22. ASSUME NEW p \in Procs, Start(p)
      PROVE  TimersOff'
  BY <1>22 DEF Start
<1>23. ASSUME NEW p \in Procs, PollFault(p)
      PROVE  TimersOff'
  BY <1>23 DEF PollFault
<1>24. ASSUME NEW p \in Procs, StopBegin(p)
      PROVE  TimersOff'
  BY <1>24 DEF StopBegin
<1>25. ASSUME NEW p \in Procs, StopEnd(p)
      PROVE  TimersOff'
  BY <1>25 DEF StopEnd
<1>26. ASSUME NEW p \in Procs, Exit(p)
      PROVE  TimersOff'
  BY <1>26 DEF Exit, Vanish
<1>27. ASSUME NEW p \in Procs, Crash(p)
      PROVE  TimersOff'
  BY <1>27 DEF Crash, Vanish
<1>28. CASE Revoke
  BY <1>28 DEF Revoke
<1>29. CASE UNCHANGED vars
  BY <1>29 DEF vars
<1> QED
  BY <1>1, <1>2, <1>3, <1>4, <1>5, <1>6, <1>7, <1>8, <1>9, <1>10, <1>11,
     <1>12, <1>13, <1>14, <1>15, <1>16, <1>17, <1>18, <1>19, <1>20, <1>21,
     <1>22, <1>23, <1>24, <1>25, <1>26, <1>27, <1>28, <1>29
  DEF Next, JobStep, Proceed, PollStep, LaunchStep

\* The stop returns only when the worker is idle, and a worker whose stop has
\* returned or rejected does not poll again.
LEMMA StopSteps ==
    ASSUME TypeInv, StoppedIdle, [Next]_vars
    PROVE  StopStep
<1> USE DEF TypeInv, StageOK, PollOK, StopStep, StoppedIdle, Accepting,
        dbVars, procVars, budget
<1>1. ASSUME NEW p \in Procs, NEW j \in Jobs, NEW later \in BOOLEAN, Create(p, j, later)
      PROVE  StopStep
  BY <1>1 DEF Create, NoPoll
<1>2. ASSUME NEW j \in Jobs, FallDue(j)
      PROVE  StopStep
  BY <1>2 DEF FallDue, NoPoll
<1>3. ASSUME NEW j \in Jobs, CancelRead(j)
      PROVE  StopStep
  BY <1>3 DEF CancelRead, NoPoll
<1>4. ASSUME NEW j \in Jobs, CancelWrite(j)
      PROVE  StopStep
  BY <1>4 DEF CancelWrite, NoPoll
<1>5. ASSUME NEW j \in Jobs, RecoverStale(j)
      PROVE  StopStep
  BY <1>5 DEF RecoverStale, NoPoll
<1>6. ASSUME NEW p \in Procs, NEW j \in Jobs, Retry(p, j)
      PROVE  StopStep
  BY <1>6 DEF Retry, NoPoll
<1>7. ASSUME NEW x \in Runs, ReadJob(x)
      PROVE  StopStep
  BY <1>7 DEF ReadJob, NoPoll
<1>8. ASSUME NEW x \in Runs, Authorize(x)
      PROVE  StopStep
  BY <1>8 DEF Authorize, NoPoll
<1>9. ASSUME NEW x \in Runs, Claim(x)
      PROVE  StopStep
  BY <1>9 DEF Claim, NoPoll
<1>10. ASSUME NEW x \in Runs, Reread(x)
      PROVE  StopStep
  BY <1>10 DEF Reread, NoPoll
<1>11. ASSUME NEW x \in Runs, ExecuteThrows(x)
      PROVE  StopStep
  BY <1>11 DEF ExecuteThrows, NoPoll
<1>12. ASSUME NEW x \in Runs, Complete(x)
      PROVE  StopStep
  BY <1>12 DEF Complete, NoPoll
<1>13. ASSUME NEW x \in Runs, CloseRun(x)
      PROVE  StopStep
  BY <1>13 DEF CloseRun, NoPoll
<1>14. ASSUME NEW x \in Runs, Fail(x)
      PROVE  StopStep
  BY <1>14 DEF Fail, NoPoll
<1>15. ASSUME NEW x \in Runs, RunFault(x)
      PROVE  StopStep
  BY <1>15 DEF RunFault, NoPoll
<1>16. ASSUME NEW x \in Runs, RunRejects(x)
      PROVE  StopStep
  BY <1>16 DEF RunRejects, NoPoll
<1>17. ASSUME NEW p \in Procs, PollStart(p)
      PROVE  StopStep
  BY <1>17 DEF PollStart, NoPoll
<1>18. ASSUME NEW p \in Procs, RequeueLog(p)
      PROVE  StopStep
  BY <1>18 DEF RequeueLog, NoPoll
<1>19. ASSUME NEW p \in Procs, PollSelect(p)
      PROVE  StopStep
  BY <1>19 DEF PollSelect, NoPoll
<1>20. ASSUME NEW p \in Procs, NEW j \in Jobs, RequeueReset(p, j)
      PROVE  StopStep
  BY <1>20 DEF RequeueReset, NoPoll
<1>21. ASSUME NEW p \in Procs, NEW j \in Jobs, NEW x \in Runs, Launch(p, j, x)
      PROVE  StopStep
  BY <1>21 DEF Launch, NoPoll
<1>22. ASSUME NEW p \in Procs, Start(p)
      PROVE  StopStep
  BY <1>22 DEF Start, NoPoll
<1>23. ASSUME NEW p \in Procs, PollFault(p)
      PROVE  StopStep
  BY <1>23 DEF PollFault, NoPoll
<1>24. ASSUME NEW p \in Procs, StopBegin(p)
      PROVE  StopStep
  BY <1>24 DEF StopBegin, NoPoll
<1>25. ASSUME NEW p \in Procs, StopEnd(p)
      PROVE  StopStep
  BY <1>25 DEF StopEnd, NoPoll
<1>26. ASSUME NEW p \in Procs, Exit(p)
      PROVE  StopStep
  BY <1>26 DEF Exit, Vanish, NoPoll
<1>27. ASSUME NEW p \in Procs, Crash(p)
      PROVE  StopStep
  BY <1>27 DEF Crash, Vanish, NoPoll
<1>28. CASE Revoke
  BY <1>28 DEF Revoke, NoPoll
<1>29. CASE UNCHANGED vars
  BY <1>29 DEF vars
<1> QED
  BY <1>1, <1>2, <1>3, <1>4, <1>5, <1>6, <1>7, <1>8, <1>9, <1>10, <1>11,
     <1>12, <1>13, <1>14, <1>15, <1>16, <1>17, <1>18, <1>19, <1>20, <1>21,
     <1>22, <1>23, <1>24, <1>25, <1>26, <1>27, <1>28, <1>29
  DEF Next, JobStep, Proceed, PollStep, LaunchStep

\* What CanceledStays says of a step.
CanceledStep ==
    \A i \in Jobs : status[i] = "canceled" /\ status'[i] # "canceled"
                        => status'[i] = "pending" /\ acts' = acts + 1

\* Every write to the row of a canceled job but a retry leaves it canceled.
LEMMA CanceledSteps ==
    ASSUME TypeInv, [Next]_vars
    PROVE  CanceledStep
<1> USE DEF TypeInv, DbOK, RunOK, RunType, CanceledStep, Finished, Due,
        dbVars, procVars, budget
<1>1. ASSUME NEW p \in Procs, NEW j \in Jobs, NEW later \in BOOLEAN, Create(p, j, later)
      PROVE  CanceledStep
  BY <1>1 DEF Create
<1>2. ASSUME NEW j \in Jobs, FallDue(j)
      PROVE  CanceledStep
  BY <1>2 DEF FallDue
<1>3. ASSUME NEW j \in Jobs, CancelRead(j)
      PROVE  CanceledStep
  BY <1>3 DEF CancelRead, Act
<1>4. ASSUME NEW j \in Jobs, CancelWrite(j)
      PROVE  CanceledStep
  BY <1>4 DEF CancelWrite
<1>5. ASSUME NEW j \in Jobs, RecoverStale(j)
      PROVE  CanceledStep
  BY <1>5 DEF RecoverStale, Act
<1>6. ASSUME NEW p \in Procs, NEW j \in Jobs, Retry(p, j)
      PROVE  CanceledStep
  BY <1>6 DEF Retry, Act, Reset
<1>7. ASSUME NEW x \in Runs, ReadJob(x)
      PROVE  CanceledStep
  BY <1>7 DEF ReadJob
<1>8. ASSUME NEW x \in Runs, Authorize(x)
      PROVE  CanceledStep
  BY <1>8 DEF Authorize
<1>9. ASSUME NEW x \in Runs, Claim(x)
      PROVE  CanceledStep
  BY <1>9 DEF Claim
<1>10. ASSUME NEW x \in Runs, Reread(x)
      PROVE  CanceledStep
  BY <1>10 DEF Reread
<1>11. ASSUME NEW x \in Runs, ExecuteThrows(x)
      PROVE  CanceledStep
  BY <1>11 DEF ExecuteThrows
<1>12. ASSUME NEW x \in Runs, Complete(x)
      PROVE  CanceledStep
  BY <1>12 DEF Complete
<1>13. ASSUME NEW x \in Runs, CloseRun(x)
      PROVE  CanceledStep
  BY <1>13 DEF CloseRun
<1>14. ASSUME NEW x \in Runs, Fail(x)
      PROVE  CanceledStep
  BY <1>14 DEF Fail
<1>15. ASSUME NEW x \in Runs, RunFault(x)
      PROVE  CanceledStep
  BY <1>15 DEF RunFault
<1>16. ASSUME NEW x \in Runs, RunRejects(x)
      PROVE  CanceledStep
  BY <1>16 DEF RunRejects
<1>17. ASSUME NEW p \in Procs, PollStart(p)
      PROVE  CanceledStep
  BY <1>17 DEF PollStart
<1>18. ASSUME NEW p \in Procs, RequeueLog(p)
      PROVE  CanceledStep
  BY <1>18 DEF RequeueLog
<1>19. ASSUME NEW p \in Procs, PollSelect(p)
      PROVE  CanceledStep
  BY <1>19 DEF PollSelect
<1>20. ASSUME NEW p \in Procs, NEW j \in Jobs, RequeueReset(p, j)
      PROVE  CanceledStep
  BY <1>20 DEF RequeueReset, Reset
<1>21. ASSUME NEW p \in Procs, NEW j \in Jobs, NEW x \in Runs, Launch(p, j, x)
      PROVE  CanceledStep
  BY <1>21 DEF Launch
<1>22. ASSUME NEW p \in Procs, Start(p)
      PROVE  CanceledStep
  BY <1>22 DEF Start
<1>23. ASSUME NEW p \in Procs, PollFault(p)
      PROVE  CanceledStep
  BY <1>23 DEF PollFault
<1>24. ASSUME NEW p \in Procs, StopBegin(p)
      PROVE  CanceledStep
  BY <1>24 DEF StopBegin, Act
<1>25. ASSUME NEW p \in Procs, StopEnd(p)
      PROVE  CanceledStep
  BY <1>25 DEF StopEnd
<1>26. ASSUME NEW p \in Procs, Exit(p)
      PROVE  CanceledStep
  BY <1>26 DEF Exit, Vanish
<1>27. ASSUME NEW p \in Procs, Crash(p)
      PROVE  CanceledStep
  BY <1>27 DEF Crash, Vanish
<1>28. CASE Revoke
  BY <1>28 DEF Revoke
<1>29. CASE UNCHANGED vars
  BY <1>29 DEF vars
<1> QED
  BY <1>1, <1>2, <1>3, <1>4, <1>5, <1>6, <1>7, <1>8, <1>9, <1>10, <1>11,
     <1>12, <1>13, <1>14, <1>15, <1>16, <1>17, <1>18, <1>19, <1>20, <1>21,
     <1>22, <1>23, <1>24, <1>25, <1>26, <1>27, <1>28, <1>29
  DEF Next, JobStep, Proceed, PollStep, LaunchStep

\* Only an accepting worker starts an activation, so no other gets one.
LEMMA IdleKept ==
    ASSUME TypeInv, StoppedIdle, [Next]_vars
    PROVE  StoppedIdle'
<1>1. StopStep /\ RunEffect
  BY StopSteps, RunSteps DEF TypeInv
<1>2. ASSUME NEW p \in Procs, ~Accepting(p), RunsOf(p) = {}
      PROVE  RunsOf(p)' = {}
  <2>1. \A x \in Runs : run[x].proc # p
    BY <1>2 DEF RunsOf
  <2>2. FreeRun.proc # p
    BY BoundAssumption DEF FreeRun
  <2>3. CASE Stays
    BY <2>1, <2>3 DEF Stays, RunsOf
  <2>4. CASE \E x \in Runs, r \in RunType : Goes(x, r) \/ Starts(x, r) \/ Begins(x, r)
    BY <1>2, <2>1, <2>4 DEF Goes, Starts, Begins, RunsOf, TypeInv, RunOK
  <2>5. CASE \E x \in Runs : Leaves(x) \/ Ends(x)
    BY <2>1, <2>2, <2>5 DEF Leaves, Ends, EndRun, RunsOf, TypeInv, RunOK
  <2>6. CASE \E q \in Procs : Vanishes(q)
    BY <2>1, <2>2, <2>6 DEF Vanishes, RunsOf
  <2> QED
    BY <1>1, <2>3, <2>4, <2>5, <2>6 DEF RunEffect
<1> QED
  BY <1>1, <1>2 DEF StopStep, StoppedIdle

\* The orderly stop: when it has returned, the worker holds no timer, no poll
\* and no activation, whatever was in flight when it was called; when a failing
\* poll has made it reject, activations may be left, but no timer and no poll.
THEOREM DrainedStop == Spec => []Drained
<1>1. Init => TimersOff /\ StoppedIdle
  BY DEF Init, TimersOff, StoppedIdle
<1>2. TimersOff /\ StoppedIdle => Drained
  BY DEF TimersOff, StoppedIdle, Drained, Accepting
<1> QED
  BY <1>1, <1>2, TypeInit, TypeKept, TimersKept, IdleKept, PTL DEF Spec

\* The cancellation: no late claim, result or failure of a run overwrites it;
\* only a deliberate retry, which counts as an act, brings the job back.
THEOREM CancelHolds == Spec => CanceledStays
<1>1. TypeInv /\ [Next]_vars =>
        [\A j \in Jobs : status[j] = "canceled" /\ status'[j] # "canceled"
                           => status'[j] = "pending" /\ acts' = acts + 1]_vars
  BY CanceledSteps DEF CanceledStep
<1> QED
  BY <1>1, TypeInit, TypeKept, PTL DEF Spec, CanceledStays

=============================================================================
