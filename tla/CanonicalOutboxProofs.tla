---------------------- MODULE CanonicalOutboxProofs ----------------------
(***************************************************************************)
(* Proofs about CanonicalOutbox, for any rows, processes and bounds.       *)
(***************************************************************************)
EXTENDS CanonicalOutbox, TLAPS

-----------------------------------------------------------------------------
(* What the shared parts of the actions preserve.                          *)

LEMMA LockRowsType ==
    ASSUME DbTypeOK, NEW w \in Workers, NEW B \in SUBSET Rows, LockRows(w, B)
    PROVE  DbTypeOK'
BY SentinelAssumption DEF DbTypeOK, LockRows, Statuses

LEMMA WriteReceiptType ==
    ASSUME DbTypeOK, NEW r \in Rows, WriteReceipt(r)
    PROVE  DbTypeOK'
BY DEF DbTypeOK, WriteReceipt, Statuses

LEMMA WriteFailureType ==
    ASSUME DbTypeOK, NEW w \in Workers, NEW r \in Rows, WriteFailure(w, r)
    PROVE  DbTypeOK'
<1> DEFINE verdict == IF seen[w][r] >= MaxAttempts THEN "DEAD_LETTER" ELSE "FAILED"
<1>1. verdict \in {"DEAD_LETTER", "FAILED"}
  OBVIOUS
<1>2. status' = [status EXCEPT ![r] = verdict]
  BY DEF WriteFailure
<1> HIDE DEF verdict
<1> QED
  BY <1>1, <1>2 DEF DbTypeOK, WriteFailure, Statuses

LEMMA DisownType ==
    ASSUME DbTypeOK, NEW w \in Workers, Disown(w),
           UNCHANGED <<status, attempts, lapsed, ripe>>
    PROVE  DbTypeOK'
BY SentinelAssumption DEF DbTypeOK, Disown

LEMMA AddJobType ==
    ASSUME BusTypeOK, NEW r \in Rows, AddJob(r)
    PROVE  BusTypeOK'
BY DEF BusTypeOK, AddJob, JobStates, busVars

LEMMA AdvanceType ==
    ASSUME WorkerTypeOK, Placed, NEW w \in Workers, NEW r \in Rows, Advance(w, r),
           UNCHANGED probing, failed' \in SUBSET Workers
    PROVE  WorkerTypeOK' /\ Placed'
BY DEF WorkerTypeOK, Placed, Advance, Stages

LEMMA ForgetType ==
    ASSUME WorkerTypeOK, Placed, NEW w \in Workers, NEW stage \in {"off", "idle"},
           Forget(w, stage)
    PROVE  WorkerTypeOK' /\ Placed'
BY DEF WorkerTypeOK, Placed, Forget, Stages

-----------------------------------------------------------------------------
(* The types.                                                              *)

\* Every step of the outbox keeps the types of the variables, and the lock on
\* exactly the PUBLISHING rows.
LEMMA TypeStep ==
    ASSUME TypeOK, [Next]_vars
    PROVE  TypeOK'
<1>0. DbTypeOK /\ BusTypeOK /\ WorkerTypeOK /\ Placed /\ faults \in 0..MaxFaults
  BY DEF TypeOK
<1> USE <1>0
<1>1. ASSUME NEW r \in Rows, Emit(r)
      PROVE  TypeOK'
  <2>1. DbTypeOK'
    BY <1>1 DEF Emit, Statuses, dbVars, DbTypeOK
  <2>2. BusTypeOK'
    BY <1>1 DEF Emit, busVars, BusTypeOK
  <2>3. WorkerTypeOK' /\ Placed'
    BY <1>1 DEF Emit, wkVars, WorkerTypeOK, Placed
  <2>4. faults' \in 0..MaxFaults
    BY <1>1 DEF Emit
  <2> QED
    BY <2>1, <2>2, <2>3, <2>4 DEF TypeOK
<1>2. ASSUME NEW r \in Rows, RetryDue(r)
      PROVE  TypeOK'
  <2>1. DbTypeOK'
    BY <1>2 DEF RetryDue, dbVars, DbTypeOK
  <2>2. BusTypeOK'
    BY <1>2 DEF RetryDue, busVars, BusTypeOK
  <2>3. WorkerTypeOK' /\ Placed'
    BY <1>2 DEF RetryDue, wkVars, WorkerTypeOK, Placed
  <2>4. faults' \in 0..MaxFaults
    BY <1>2 DEF RetryDue
  <2> QED
    BY <2>1, <2>2, <2>3, <2>4 DEF TypeOK
<1>3. ASSUME NEW r \in Rows, OrphanLapse(r)
      PROVE  TypeOK'
  <2>1. DbTypeOK'
    BY <1>3 DEF OrphanLapse, dbVars, DbTypeOK
  <2>2. BusTypeOK'
    BY <1>3 DEF OrphanLapse, busVars, BusTypeOK
  <2>3. WorkerTypeOK' /\ Placed'
    BY <1>3 DEF OrphanLapse, wkVars, WorkerTypeOK, Placed
  <2>4. faults' \in 0..MaxFaults
    BY <1>3 DEF OrphanLapse
  <2> QED
    BY <2>1, <2>2, <2>3, <2>4 DEF TypeOK
<1>4. ASSUME NEW r \in Rows, FinishJob(r)
      PROVE  TypeOK'
  <2>1. DbTypeOK'
    BY <1>4 DEF FinishJob, dbVars, DbTypeOK
  <2>2. BusTypeOK'
    BY <1>4 DEF FinishJob, JobStates, busVars, BusTypeOK
  <2>3. WorkerTypeOK' /\ Placed'
    BY <1>4 DEF FinishJob, wkVars, WorkerTypeOK, Placed
  <2>4. faults' \in 0..MaxFaults
    BY <1>4 DEF FinishJob
  <2> QED
    BY <2>1, <2>2, <2>3, <2>4 DEF TypeOK
<1>5. ASSUME NEW w \in Workers, Start(w)
      PROVE  TypeOK'
  <2>1. DbTypeOK'
    BY <1>5 DEF Start, dbVars, DbTypeOK
  <2>2. BusTypeOK'
    BY <1>5 DEF Start, busVars, BusTypeOK
  <2>3. WorkerTypeOK' /\ Placed'
    BY <1>5 DEF Start, Stages, wkVars, WorkerTypeOK, Placed
  <2>4. faults' \in 0..MaxFaults
    BY <1>5 DEF Start
  <2> QED
    BY <2>1, <2>2, <2>3, <2>4 DEF TypeOK
<1>6. ASSUME NEW w \in Workers, Claim(w)
      PROVE  TypeOK'
  <2>1. DbTypeOK'
    BY <1>6, LockRowsType DEF Claim, ClaimBatches, Claimable
  <2>2. BusTypeOK'
    BY <1>6 DEF Claim, busVars, BusTypeOK
  <2>3. WorkerTypeOK' /\ Placed'
    BY <1>6 DEF Claim, ClaimBatches, Claimable, Stages, DbTypeOK, wkVars, WorkerTypeOK, Placed
  <2>4. faults' \in 0..MaxFaults
    BY <1>6 DEF Claim
  <2> QED
    BY <2>1, <2>2, <2>3, <2>4 DEF TypeOK
<1>7. ASSUME NEW w \in Workers, EmptyProbe(w)
      PROVE  TypeOK'
  <2>1. DbTypeOK'
    BY <1>7 DEF EmptyProbe, dbVars, DbTypeOK
  <2>2. BusTypeOK'
    BY <1>7 DEF EmptyProbe, busVars, BusTypeOK
  <2>3. WorkerTypeOK' /\ Placed'
    BY <1>7 DEF EmptyProbe, wkVars, WorkerTypeOK, Placed
  <2>4. faults' \in 0..MaxFaults
    BY <1>7 DEF EmptyProbe
  <2> QED
    BY <2>1, <2>2, <2>3, <2>4 DEF TypeOK
<1>8. ASSUME NEW w \in Workers, ClaimReplyLost(w)
      PROVE  TypeOK'
  <2>1. DbTypeOK'
    BY <1>8, LockRowsType DEF ClaimReplyLost, ClaimBatches, Claimable
  <2>2. BusTypeOK'
    BY <1>8 DEF ClaimReplyLost, busVars, BusTypeOK
  <2>3. WorkerTypeOK' /\ Placed'
    BY <1>8 DEF ClaimReplyLost, wkVars, WorkerTypeOK, Placed
  <2>4. faults' \in 0..MaxFaults
    BY <1>8, SizeAssumption DEF ClaimReplyLost, Faulty
  <2> QED
    BY <2>1, <2>2, <2>3, <2>4 DEF TypeOK
<1>9. ASSUME NEW w \in Workers, RecordPublished(w)
      PROVE  TypeOK'
  <2>1. cur[w] \in Rows
    BY <1>9 DEF RecordPublished, Placed, WorkerTypeOK
  <2>2. DbTypeOK'
    BY <1>9, WriteReceiptType, <2>1 DEF RecordPublished, DbTypeOK
  <2>3. BusTypeOK'
    BY <1>9 DEF RecordPublished, busVars, BusTypeOK
  <2>4. WorkerTypeOK' /\ Placed'
    BY <1>9, AdvanceType, <2>1 DEF RecordPublished, WorkerTypeOK
  <2>5. faults' \in 0..MaxFaults
    BY <1>9 DEF RecordPublished
  <2> QED
    BY <2>2, <2>3, <2>4, <2>5 DEF TypeOK
<1>10. ASSUME NEW w \in Workers, ReceiptLockLost(w)
      PROVE  TypeOK'
  <2>1. DbTypeOK'
    BY <1>10 DEF ReceiptLockLost, dbVars, DbTypeOK
  <2>2. BusTypeOK'
    BY <1>10 DEF ReceiptLockLost, busVars, BusTypeOK
  <2>3. WorkerTypeOK' /\ Placed'
    BY <1>10 DEF ReceiptLockLost, Stages, wkVars, WorkerTypeOK, Placed
  <2>4. faults' \in 0..MaxFaults
    BY <1>10 DEF ReceiptLockLost
  <2> QED
    BY <2>1, <2>2, <2>3, <2>4 DEF TypeOK
<1>11. ASSUME NEW w \in Workers, ReceiptFault(w)
      PROVE  TypeOK'
  <2>1. cur[w] \in Rows
    BY <1>11 DEF ReceiptFault, Placed, WorkerTypeOK
  <2>2. DbTypeOK'
    BY <1>11, WriteReceiptType, <2>1 DEF ReceiptFault, dbVars, DbTypeOK
  <2>3. BusTypeOK'
    BY <1>11 DEF ReceiptFault, busVars, BusTypeOK
  <2>4. WorkerTypeOK' /\ Placed'
    BY <1>11, <2>1 DEF ReceiptFault, Stages, wkVars, WorkerTypeOK, Placed
  <2>5. faults' \in 0..MaxFaults
    BY <1>11, SizeAssumption DEF ReceiptFault, Faulty
  <2> QED
    BY <2>2, <2>3, <2>4, <2>5 DEF TypeOK
<1>12. ASSUME NEW w \in Workers, RecordFailure(w)
      PROVE  TypeOK'
  <2>1. cur[w] \in Rows
    BY <1>12 DEF RecordFailure, Placed, WorkerTypeOK
  <2>2. failed' \in SUBSET Workers
    BY <1>12 DEF RecordFailure, WorkerTypeOK
  <2>3. DbTypeOK'
    BY <1>12, WriteFailureType, <2>1, <2>2 DEF RecordFailure
  <2>4. BusTypeOK'
    BY <1>12 DEF RecordFailure, busVars, BusTypeOK
  <2>5. WorkerTypeOK' /\ Placed'
    BY <1>12, AdvanceType, <2>1, <2>2 DEF RecordFailure, WorkerTypeOK
  <2>6. faults' \in 0..MaxFaults
    BY <1>12 DEF RecordFailure
  <2> QED
    BY <2>3, <2>4, <2>5, <2>6 DEF TypeOK
<1>13. ASSUME NEW w \in Workers, FailureLockLost(w)
      PROVE  TypeOK'
  <2>1. DbTypeOK'
    BY <1>13, DisownType DEF FailureLockLost, AbandonBatch, DbTypeOK
  <2>2. BusTypeOK'
    BY <1>13 DEF FailureLockLost, busVars, BusTypeOK
  <2>3. WorkerTypeOK' /\ Placed'
    BY <1>13, ForgetType DEF FailureLockLost, AbandonBatch
  <2>4. faults' \in 0..MaxFaults
    BY <1>13 DEF FailureLockLost
  <2> QED
    BY <2>1, <2>2, <2>3, <2>4 DEF TypeOK
<1>14. ASSUME NEW w \in Workers, FailureFault(w)
      PROVE  TypeOK'
  <2>1. DbTypeOK'
    BY <1>14, DisownType DEF FailureFault, AbandonBatch, DbTypeOK
  <2>2. BusTypeOK'
    BY <1>14 DEF FailureFault, busVars, BusTypeOK
  <2>3. WorkerTypeOK' /\ Placed'
    BY <1>14, ForgetType DEF FailureFault, AbandonBatch
  <2>4. faults' \in 0..MaxFaults
    BY <1>14, SizeAssumption DEF FailureFault, Faulty
  <2> QED
    BY <2>1, <2>2, <2>3, <2>4 DEF TypeOK
<1>15. ASSUME NEW w \in Workers, EndBatch(w)
      PROVE  TypeOK'
  <2>1. DbTypeOK'
    BY <1>15, DisownType DEF EndBatch, DbTypeOK
  <2>2. BusTypeOK'
    BY <1>15 DEF EndBatch, busVars, BusTypeOK
  <2>3. WorkerTypeOK' /\ Placed'
    BY <1>15, ForgetType DEF EndBatch
  <2>4. faults' \in 0..MaxFaults
    BY <1>15 DEF EndBatch
  <2> QED
    BY <2>1, <2>2, <2>3, <2>4 DEF TypeOK
<1>16. ASSUME NEW w \in Workers, Stop(w)
      PROVE  TypeOK'
  <2>1. DbTypeOK'
    BY <1>16, DisownType DEF Stop, DbTypeOK
  <2>2. BusTypeOK'
    BY <1>16 DEF Stop, busVars, BusTypeOK
  <2>3. WorkerTypeOK' /\ Placed'
    BY <1>16, ForgetType DEF Stop
  <2>4. faults' \in 0..MaxFaults
    BY <1>16 DEF Stop
  <2> QED
    BY <2>1, <2>2, <2>3, <2>4 DEF TypeOK
<1>17. ASSUME NEW w \in Workers, Crash(w)
      PROVE  TypeOK'
  <2>1. DbTypeOK'
    BY <1>17, DisownType DEF Crash, DbTypeOK
  <2>2. BusTypeOK'
    BY <1>17 DEF Crash, busVars, BusTypeOK
  <2>3. WorkerTypeOK' /\ Placed'
    BY <1>17, ForgetType DEF Crash
  <2>4. faults' \in 0..MaxFaults
    BY <1>17, SizeAssumption DEF Crash, Faulty
  <2> QED
    BY <2>1, <2>2, <2>3, <2>4 DEF TypeOK
<1>18. ASSUME NEW w \in Workers, NEW r \in Rows, Publish(w, r)
      PROVE  TypeOK'
  <2>1. DbTypeOK'
    BY <1>18 DEF Publish, dbVars, DbTypeOK
  <2>2. BusTypeOK'
    BY <1>18, AddJobType DEF Publish, BusTypeOK
  <2>3. WorkerTypeOK' /\ Placed'
    BY <1>18 DEF Publish, Stages, wkVars, WorkerTypeOK, Placed
  <2>4. faults' \in 0..MaxFaults
    BY <1>18 DEF Publish
  <2> QED
    BY <2>1, <2>2, <2>3, <2>4 DEF TypeOK
<1>19. ASSUME NEW w \in Workers, NEW r \in Rows, PublishRejected(w, r)
      PROVE  TypeOK'
  <2>1. DbTypeOK'
    BY <1>19 DEF PublishRejected, dbVars, DbTypeOK
  <2>2. BusTypeOK'
    BY <1>19, AddJobType DEF PublishRejected, busVars, BusTypeOK
  <2>3. WorkerTypeOK' /\ Placed'
    BY <1>19 DEF PublishRejected, Stages, wkVars, WorkerTypeOK, Placed
  <2>4. faults' \in 0..MaxFaults
    BY <1>19 DEF PublishRejected
  <2> QED
    BY <2>1, <2>2, <2>3, <2>4 DEF TypeOK
<1>20. ASSUME NEW w \in Workers, NEW r \in Rows, OutrunLapse(w, r)
      PROVE  TypeOK'
  <2>1. DbTypeOK'
    BY <1>20 DEF OutrunLapse, Holds, dbVars, DbTypeOK
  <2>2. BusTypeOK'
    BY <1>20 DEF OutrunLapse, busVars, BusTypeOK
  <2>3. WorkerTypeOK' /\ Placed'
    BY <1>20 DEF OutrunLapse, wkVars, WorkerTypeOK, Placed
  <2>4. faults' \in 0..MaxFaults
    BY <1>20, SizeAssumption DEF OutrunLapse, Faulty
  <2> QED
    BY <2>1, <2>2, <2>3, <2>4 DEF TypeOK
<1>21. CASE UNCHANGED vars
  BY <1>21 DEF vars, dbVars, busVars, wkVars, TypeOK, DbTypeOK, BusTypeOK, WorkerTypeOK, Placed
<1> QED
  BY <1>1, <1>2, <1>3, <1>4, <1>5, <1>6, <1>7, <1>8, <1>9, <1>10, <1>11,
     <1>12, <1>13, <1>14, <1>15, <1>16, <1>17, <1>18, <1>19, <1>20, <1>21
  DEF Next, RowStep, Dispatch

\* At every moment the variables have their types, a row is locked exactly
\* while it is PUBLISHING, and an idle or stopped process holds no batch.
THEOREM TypeCorrect == Spec => []TypeOK
<1>1. Init => TypeOK
  BY SentinelAssumption, SizeAssumption
  DEF Init, TypeOK, DbTypeOK, BusTypeOK, WorkerTypeOK, Placed, Statuses, JobStates, Stages
<1>2. TypeOK /\ [Next]_vars => TypeOK'
  BY TypeStep
<1> QED
  BY <1>1, <1>2, PTL DEF Spec

-----------------------------------------------------------------------------
(* Safety.                                                                 *)

\* What ReceiptBacked rests on: the queue took the job before the receipt.
ReceiptEarned ==
    \A w \in Workers : pc[w] = "receipt" => created[cur[w]] > 0

ReceiptInv == ReceiptBacked /\ ReceiptEarned

\* Terminal jobs are retained, so a row has had a job exactly if it has one.
OneJob == \A r \in Rows : created[r] = IF job[r] = "absent" THEN 0 ELSE 1

\* Only committed rows are claimed.
BatchBorn == \A w \in Workers : \A r \in batch[w] : status[r] # "UNBORN"

JobInv == OneJob /\ BatchBorn

\* The inductive invariant.
IInv == TypeOK /\ OwnerIsCurrent /\ VerdictThreshold /\ ReceiptInv /\ JobInv

\* No step gives a row back to a loop that claimed it in an earlier attempt.
LEMMA OwnerStep ==
    ASSUME TypeOK, OwnerIsCurrent, [Next]_vars
    PROVE  OwnerIsCurrent'
<1>0. DbTypeOK /\ WorkerTypeOK /\ Placed
  BY DEF TypeOK
<1> USE <1>0, SentinelAssumption DEF OwnerIsCurrent, Holds, dbVars, busVars, wkVars, DbTypeOK, WorkerTypeOK, Placed
<1>1. ASSUME NEW r \in Rows, Emit(r)
      PROVE  OwnerIsCurrent'
  BY <1>1 DEF Emit
<1>2. ASSUME NEW r \in Rows, RetryDue(r)
      PROVE  OwnerIsCurrent'
  BY <1>2 DEF RetryDue
<1>3. ASSUME NEW r \in Rows, OrphanLapse(r)
      PROVE  OwnerIsCurrent'
  BY <1>3 DEF OrphanLapse
<1>4. ASSUME NEW r \in Rows, FinishJob(r)
      PROVE  OwnerIsCurrent'
  BY <1>4 DEF FinishJob
<1>5. ASSUME NEW w \in Workers, Start(w)
      PROVE  OwnerIsCurrent'
  BY <1>5 DEF Start
<1>6. ASSUME NEW w \in Workers, Claim(w)
      PROVE  OwnerIsCurrent'
  BY <1>6 DEF Claim, LockRows, ClaimBatches, Claimable
<1>7. ASSUME NEW w \in Workers, EmptyProbe(w)
      PROVE  OwnerIsCurrent'
  BY <1>7 DEF EmptyProbe
<1>8. ASSUME NEW w \in Workers, ClaimReplyLost(w)
      PROVE  OwnerIsCurrent'
  BY <1>8 DEF ClaimReplyLost, LockRows, ClaimBatches, Claimable
<1>9. ASSUME NEW w \in Workers, RecordPublished(w)
      PROVE  OwnerIsCurrent'
  BY <1>9 DEF RecordPublished, WriteReceipt, Advance, Holds
<1>10. ASSUME NEW w \in Workers, ReceiptLockLost(w)
      PROVE  OwnerIsCurrent'
  BY <1>10 DEF ReceiptLockLost
<1>11. ASSUME NEW w \in Workers, ReceiptFault(w)
      PROVE  OwnerIsCurrent'
  BY <1>11 DEF ReceiptFault, WriteReceipt, Holds
<1>12. ASSUME NEW w \in Workers, RecordFailure(w)
      PROVE  OwnerIsCurrent'
  BY <1>12 DEF RecordFailure, WriteFailure, Advance, Holds
<1>13. ASSUME NEW w \in Workers, FailureLockLost(w)
      PROVE  OwnerIsCurrent'
  BY <1>13 DEF FailureLockLost, AbandonBatch, Forget, Disown
<1>14. ASSUME NEW w \in Workers, FailureFault(w)
      PROVE  OwnerIsCurrent'
  BY SMTT(30), <1>14 DEF FailureFault, AbandonBatch, Forget, Disown
<1>15. ASSUME NEW w \in Workers, EndBatch(w)
      PROVE  OwnerIsCurrent'
  BY <1>15 DEF EndBatch, Forget, Disown
<1>16. ASSUME NEW w \in Workers, Stop(w)
      PROVE  OwnerIsCurrent'
  BY <1>16 DEF Stop, Forget, Disown
<1>17. ASSUME NEW w \in Workers, Crash(w)
      PROVE  OwnerIsCurrent'
  BY <1>17 DEF Crash, Forget, Disown
<1>18. ASSUME NEW w \in Workers, NEW r \in Rows, Publish(w, r)
      PROVE  OwnerIsCurrent'
  BY <1>18 DEF Publish, AddJob
<1>19. ASSUME NEW w \in Workers, NEW r \in Rows, PublishRejected(w, r)
      PROVE  OwnerIsCurrent'
  BY <1>19 DEF PublishRejected, AddJob
<1>20. ASSUME NEW w \in Workers, NEW r \in Rows, OutrunLapse(w, r)
      PROVE  OwnerIsCurrent'
  BY <1>20 DEF OutrunLapse
<1>21. CASE UNCHANGED vars
  BY <1>21 DEF vars
<1> QED
  BY <1>1, <1>2, <1>3, <1>4, <1>5, <1>6, <1>7, <1>8, <1>9, <1>10, <1>11,
     <1>12, <1>13, <1>14, <1>15, <1>16, <1>17, <1>18, <1>19, <1>20, <1>21
  DEF Next, RowStep, Dispatch

\* Every verdict on a failed row is taken on the row's current attempt count.
LEMMA ThresholdStep ==
    ASSUME TypeOK, OwnerIsCurrent, VerdictThreshold, [Next]_vars
    PROVE  VerdictThreshold'
<1>0. DbTypeOK /\ WorkerTypeOK /\ Placed
  BY DEF TypeOK
<1> USE <1>0, SizeAssumption DEF VerdictThreshold, dbVars, busVars, wkVars, DbTypeOK, WorkerTypeOK, Placed
<1>1. ASSUME NEW r \in Rows, Emit(r)
      PROVE  VerdictThreshold'
  BY <1>1 DEF Emit
<1>2. ASSUME NEW r \in Rows, RetryDue(r)
      PROVE  VerdictThreshold'
  BY <1>2 DEF RetryDue
<1>3. ASSUME NEW r \in Rows, OrphanLapse(r)
      PROVE  VerdictThreshold'
  BY <1>3 DEF OrphanLapse
<1>4. ASSUME NEW r \in Rows, FinishJob(r)
      PROVE  VerdictThreshold'
  BY <1>4 DEF FinishJob
<1>5. ASSUME NEW w \in Workers, Start(w)
      PROVE  VerdictThreshold'
  BY <1>5 DEF Start
<1>6. ASSUME NEW w \in Workers, Claim(w)
      PROVE  VerdictThreshold'
  BY <1>6 DEF Claim, LockRows, ClaimBatches, Claimable
<1>7. ASSUME NEW w \in Workers, EmptyProbe(w)
      PROVE  VerdictThreshold'
  BY <1>7 DEF EmptyProbe
<1>8. ASSUME NEW w \in Workers, ClaimReplyLost(w)
      PROVE  VerdictThreshold'
  BY <1>8 DEF ClaimReplyLost, LockRows, ClaimBatches, Claimable
<1>9. ASSUME NEW w \in Workers, RecordPublished(w)
      PROVE  VerdictThreshold'
  BY <1>9 DEF RecordPublished, WriteReceipt, Advance, Holds
<1>10. ASSUME NEW w \in Workers, ReceiptLockLost(w)
      PROVE  VerdictThreshold'
  BY <1>10 DEF ReceiptLockLost
<1>11. ASSUME NEW w \in Workers, ReceiptFault(w)
      PROVE  VerdictThreshold'
  BY <1>11 DEF ReceiptFault, WriteReceipt, Holds
<1>12. ASSUME NEW w \in Workers, RecordFailure(w)
      PROVE  VerdictThreshold'
  <2>1. cur[w] \in Rows /\ seen[w][cur[w]] = attempts[cur[w]]
    BY <1>12 DEF RecordFailure, OwnerIsCurrent
  <2> QED
    BY <1>12, <2>1 DEF RecordFailure, WriteFailure, Statuses
<1>13. ASSUME NEW w \in Workers, FailureLockLost(w)
      PROVE  VerdictThreshold'
  BY <1>13 DEF FailureLockLost, AbandonBatch, Forget, Disown
<1>14. ASSUME NEW w \in Workers, FailureFault(w)
      PROVE  VerdictThreshold'
  BY <1>14 DEF FailureFault, AbandonBatch, Forget, Disown
<1>15. ASSUME NEW w \in Workers, EndBatch(w)
      PROVE  VerdictThreshold'
  BY <1>15 DEF EndBatch, Forget, Disown
<1>16. ASSUME NEW w \in Workers, Stop(w)
      PROVE  VerdictThreshold'
  BY <1>16 DEF Stop, Forget, Disown
<1>17. ASSUME NEW w \in Workers, Crash(w)
      PROVE  VerdictThreshold'
  BY <1>17 DEF Crash, Forget, Disown
<1>18. ASSUME NEW w \in Workers, NEW r \in Rows, Publish(w, r)
      PROVE  VerdictThreshold'
  BY <1>18 DEF Publish, AddJob
<1>19. ASSUME NEW w \in Workers, NEW r \in Rows, PublishRejected(w, r)
      PROVE  VerdictThreshold'
  BY <1>19 DEF PublishRejected, AddJob
<1>20. ASSUME NEW w \in Workers, NEW r \in Rows, OutrunLapse(w, r)
      PROVE  VerdictThreshold'
  BY <1>20 DEF OutrunLapse
<1>21. CASE UNCHANGED vars
  BY <1>21 DEF vars
<1> QED
  BY <1>1, <1>2, <1>3, <1>4, <1>5, <1>6, <1>7, <1>8, <1>9, <1>10, <1>11,
     <1>12, <1>13, <1>14, <1>15, <1>16, <1>17, <1>18, <1>19, <1>20, <1>21
  DEF Next, RowStep, Dispatch

\* The queue remembers the job of every event, and makes one only for a committed event.
LEMMA JobStep ==
    ASSUME TypeOK, JobInv, [Next]_vars
    PROVE  JobInv'
<1>0. DbTypeOK /\ BusTypeOK /\ WorkerTypeOK /\ Placed
  BY DEF TypeOK
<1> USE <1>0, SentinelAssumption DEF JobInv, OneJob, BatchBorn, dbVars, busVars, wkVars, DbTypeOK, BusTypeOK, WorkerTypeOK, Placed
<1>1. ASSUME NEW r \in Rows, Emit(r)
      PROVE  JobInv'
  BY <1>1 DEF Emit
<1>2. ASSUME NEW r \in Rows, RetryDue(r)
      PROVE  JobInv'
  BY <1>2 DEF RetryDue
<1>3. ASSUME NEW r \in Rows, OrphanLapse(r)
      PROVE  JobInv'
  BY <1>3 DEF OrphanLapse
<1>4. ASSUME NEW r \in Rows, FinishJob(r)
      PROVE  JobInv'
  BY <1>4 DEF FinishJob
<1>5. ASSUME NEW w \in Workers, Start(w)
      PROVE  JobInv'
  BY <1>5 DEF Start
<1>6. ASSUME NEW w \in Workers, Claim(w)
      PROVE  JobInv'
  BY <1>6 DEF Claim, LockRows, ClaimBatches, Claimable
<1>7. ASSUME NEW w \in Workers, EmptyProbe(w)
      PROVE  JobInv'
  BY <1>7 DEF EmptyProbe
<1>8. ASSUME NEW w \in Workers, ClaimReplyLost(w)
      PROVE  JobInv'
  BY <1>8 DEF ClaimReplyLost, LockRows, ClaimBatches, Claimable
<1>9. ASSUME NEW w \in Workers, RecordPublished(w)
      PROVE  JobInv'
  BY <1>9 DEF RecordPublished, WriteReceipt, Advance, Holds
<1>10. ASSUME NEW w \in Workers, ReceiptLockLost(w)
      PROVE  JobInv'
  BY <1>10 DEF ReceiptLockLost
<1>11. ASSUME NEW w \in Workers, ReceiptFault(w)
      PROVE  JobInv'
  BY <1>11 DEF ReceiptFault, WriteReceipt, Holds
<1>12. ASSUME NEW w \in Workers, RecordFailure(w)
      PROVE  JobInv'
  BY <1>12 DEF RecordFailure, WriteFailure, Advance, Holds
<1>13. ASSUME NEW w \in Workers, FailureLockLost(w)
      PROVE  JobInv'
  BY <1>13 DEF FailureLockLost, AbandonBatch, Forget, Disown
<1>14. ASSUME NEW w \in Workers, FailureFault(w)
      PROVE  JobInv'
  BY <1>14 DEF FailureFault, AbandonBatch, Forget, Disown
<1>15. ASSUME NEW w \in Workers, EndBatch(w)
      PROVE  JobInv'
  BY SMTT(30), <1>15 DEF EndBatch, Forget, Disown
<1>16. ASSUME NEW w \in Workers, Stop(w)
      PROVE  JobInv'
  BY <1>16 DEF Stop, Forget, Disown
<1>17. ASSUME NEW w \in Workers, Crash(w)
      PROVE  JobInv'
  BY <1>17 DEF Crash, Forget, Disown
<1>18. ASSUME NEW w \in Workers, NEW r \in Rows, Publish(w, r)
      PROVE  JobInv'
  BY <1>18 DEF Publish, AddJob
<1>19. ASSUME NEW w \in Workers, NEW r \in Rows, PublishRejected(w, r)
      PROVE  JobInv'
  BY <1>19 DEF PublishRejected, AddJob
<1>20. ASSUME NEW w \in Workers, NEW r \in Rows, OutrunLapse(w, r)
      PROVE  JobInv'
  BY <1>20 DEF OutrunLapse
<1>21. CASE UNCHANGED vars
  BY <1>21 DEF vars
<1> QED
  BY <1>1, <1>2, <1>3, <1>4, <1>5, <1>6, <1>7, <1>8, <1>9, <1>10, <1>11,
     <1>12, <1>13, <1>14, <1>15, <1>16, <1>17, <1>18, <1>19, <1>20, <1>21
  DEF Next, RowStep, Dispatch

\* A process that is about to write a receipt has a job in the queue for it.
LEMMA EarnedStep ==
    ASSUME TypeOK, ReceiptInv, OneJob, [Next]_vars
    PROVE  ReceiptInv'
<1>0. DbTypeOK /\ BusTypeOK /\ WorkerTypeOK /\ Placed
  BY DEF TypeOK
<1> USE <1>0, SentinelAssumption DEF ReceiptInv, ReceiptBacked, ReceiptEarned, dbVars, busVars, wkVars, DbTypeOK, BusTypeOK, WorkerTypeOK, Placed
<1>1. ASSUME NEW r \in Rows, Emit(r)
      PROVE  ReceiptInv'
  BY <1>1 DEF Emit
<1>2. ASSUME NEW r \in Rows, RetryDue(r)
      PROVE  ReceiptInv'
  BY <1>2 DEF RetryDue
<1>3. ASSUME NEW r \in Rows, OrphanLapse(r)
      PROVE  ReceiptInv'
  BY <1>3 DEF OrphanLapse
<1>4. ASSUME NEW r \in Rows, FinishJob(r)
      PROVE  ReceiptInv'
  BY <1>4 DEF FinishJob
<1>5. ASSUME NEW w \in Workers, Start(w)
      PROVE  ReceiptInv'
  BY <1>5 DEF Start
<1>6. ASSUME NEW w \in Workers, Claim(w)
      PROVE  ReceiptInv'
  BY <1>6 DEF Claim, LockRows, ClaimBatches, Claimable
<1>7. ASSUME NEW w \in Workers, EmptyProbe(w)
      PROVE  ReceiptInv'
  BY <1>7 DEF EmptyProbe
<1>8. ASSUME NEW w \in Workers, ClaimReplyLost(w)
      PROVE  ReceiptInv'
  BY <1>8 DEF ClaimReplyLost, LockRows, ClaimBatches, Claimable
<1>9. ASSUME NEW w \in Workers, RecordPublished(w)
      PROVE  ReceiptInv'
  BY <1>9 DEF RecordPublished, WriteReceipt, Advance, Holds
<1>10. ASSUME NEW w \in Workers, ReceiptLockLost(w)
      PROVE  ReceiptInv'
  BY <1>10 DEF ReceiptLockLost
<1>11. ASSUME NEW w \in Workers, ReceiptFault(w)
      PROVE  ReceiptInv'
  BY <1>11 DEF ReceiptFault, WriteReceipt, Holds
<1>12. ASSUME NEW w \in Workers, RecordFailure(w)
      PROVE  ReceiptInv'
  BY <1>12 DEF RecordFailure, WriteFailure, Advance, Holds
<1>13. ASSUME NEW w \in Workers, FailureLockLost(w)
      PROVE  ReceiptInv'
  BY <1>13 DEF FailureLockLost, AbandonBatch, Forget, Disown
<1>14. ASSUME NEW w \in Workers, FailureFault(w)
      PROVE  ReceiptInv'
  BY <1>14 DEF FailureFault, AbandonBatch, Forget, Disown
<1>15. ASSUME NEW w \in Workers, EndBatch(w)
      PROVE  ReceiptInv'
  <2>1. UNCHANGED <<status, created, cur, pc>> \/ (UNCHANGED <<status, created>> /\ \E stage \in {"off", "idle"} : Forget(w, stage))
    BY <1>15 DEF EndBatch
  <2> QED
    BY <2>1 DEF Forget
<1>16. ASSUME NEW w \in Workers, Stop(w)
      PROVE  ReceiptInv'
  BY <1>16 DEF Stop, Forget, Disown
<1>17. ASSUME NEW w \in Workers, Crash(w)
      PROVE  ReceiptInv'
  BY <1>17 DEF Crash, Forget, Disown
<1>18. ASSUME NEW w \in Workers, NEW r \in Rows, Publish(w, r)
      PROVE  ReceiptInv'
  <2>1. created' \in [Rows -> Nat] /\ created'[r] > 0
    BY <1>18 DEF Publish, AddJob, OneJob
  <2>2. \A s \in Rows : created[s] > 0 => created'[s] > 0
    BY <1>18 DEF Publish, AddJob
  <2>3. /\ UNCHANGED status
        /\ pc' = [pc EXCEPT ![w] = "receipt"]
        /\ cur' = [cur EXCEPT ![w] = r]
    BY <1>18 DEF Publish
  <2> QED
    BY <2>1, <2>2, <2>3
<1>19. ASSUME NEW w \in Workers, NEW r \in Rows, PublishRejected(w, r)
      PROVE  ReceiptInv'
  <2>1. \A s \in Rows : created[s] > 0 => created'[s] > 0
    BY <1>19 DEF PublishRejected, AddJob
  <2>2. /\ UNCHANGED status
        /\ pc' = [pc EXCEPT ![w] = "failure"]
        /\ cur' = [cur EXCEPT ![w] = r]
    BY <1>19 DEF PublishRejected
  <2> QED
    BY <2>1, <2>2
<1>20. ASSUME NEW w \in Workers, NEW r \in Rows, OutrunLapse(w, r)
      PROVE  ReceiptInv'
  BY <1>20 DEF OutrunLapse
<1>21. CASE UNCHANGED vars
  BY <1>21 DEF vars
<1> QED
  BY <1>1, <1>2, <1>3, <1>4, <1>5, <1>6, <1>7, <1>8, <1>9, <1>10, <1>11,
     <1>12, <1>13, <1>14, <1>15, <1>16, <1>17, <1>18, <1>19, <1>20, <1>21
  DEF Next, RowStep, Dispatch

LEMMA Inductive == Spec => []IInv
<1>1. Init => IInv
  BY SentinelAssumption, SizeAssumption
  DEF Init, IInv, TypeOK, DbTypeOK, BusTypeOK, WorkerTypeOK, Placed, Statuses,
      JobStates, Stages, OwnerIsCurrent, VerdictThreshold, ReceiptInv,
      ReceiptBacked, ReceiptEarned, JobInv, OneJob, BatchBorn
<1>2. IInv /\ [Next]_vars => IInv'
  BY TypeStep, OwnerStep, ThresholdStep, EarnedStep, JobStep DEF IInv, JobInv
<1> QED
  BY <1>1, <1>2, PTL DEF Spec

\* A loop that still holds the lock of a row of its batch claimed it in the
\* row's current attempt, for any number of processes and lapsed locks.
THEOREM Fencing == Spec => []OwnerIsCurrent
BY Inductive, PTL DEF IInv

\* A row is dead-lettered only when its attempts are used up, and retried only
\* when they are not.
THEOREM Threshold == Spec => []VerdictThreshold
BY Inductive, PTL DEF IInv

\* A published row has its job in the queue.
THEOREM Backed == Spec => []ReceiptBacked
<1>1. IInv => ReceiptBacked
  BY DEF IInv, ReceiptInv
<1> QED
  BY Inductive, <1>1, PTL

-----------------------------------------------------------------------------
(* Refinement.                                                             *)

\* A step that creates no job and moves no row in or out of the three groups
\* unborn, published and dead-lettered is invisible in EventDelivery.
LEMMA Invisible ==
    ASSUME UNCHANGED created,
           \A r \in Rows : \A g \in {"UNBORN", "PUBLISHED", "DEAD_LETTER"} :
               status[r] = g <=> status'[r] = g
    PROVE  UNCHANGED Delivery!vars
BY DEF Delivery!vars, BornRows, Verdicts

\* An attempt to add a job is a hand-over, or nothing new.
LEMMA AddIsHandOver ==
    ASSUME IInv, NEW w \in Workers, NEW r \in batch[w], UNCHANGED status,
           AddJob(r) \/ UNCHANGED busVars
    PROVE  [Delivery!Next]_(Delivery!vars)
<1>1. r \in Rows /\ status[r] # "UNBORN" /\ created \in [Rows -> Nat]
  BY DEF IInv, TypeOK, BusTypeOK, WorkerTypeOK, JobInv, BatchBorn
<1>2. UNCHANGED <<BornRows, Verdicts>>
  BY DEF BornRows, Verdicts
<1>3. CASE UNCHANGED busVars
  BY <1>2, <1>3 DEF busVars, Delivery!vars
<1>4. CASE AddJob(r) /\ job[r] = "absent"
  <2>1. created[r] = 0 /\ created' = [created EXCEPT ![r] = 1]
    BY <1>1, <1>4 DEF AddJob, IInv, JobInv, OneJob
  <2>2. Delivery!HandOver(r)
    BY <1>1, <1>2, <2>1 DEF Delivery!HandOver, BornRows
  <2> QED
    BY <1>1, <2>2 DEF Delivery!Next
<1>5. CASE AddJob(r) /\ job[r] # "absent"
  BY <1>2, <1>5 DEF AddJob, busVars, Delivery!vars
<1> QED
  BY <1>3, <1>4, <1>5

\* A receipt confirms the publication of a locked row.
LEMMA ReceiptIsConfirm ==
    ASSUME IInv, NEW r \in Rows, status[r] = "PUBLISHING", created[r] > 0,
           WriteReceipt(r), UNCHANGED created
    PROVE  [Delivery!Next]_(Delivery!vars)
<1>1. status' = [status EXCEPT ![r] = "PUBLISHED"] /\ status \in [Rows -> Statuses]
  BY DEF WriteReceipt, IInv, TypeOK, DbTypeOK
<1>2. created[r] = 1
  BY DEF IInv, JobInv, OneJob
<1>3. BornRows' = BornRows /\ r \in BornRows
  BY <1>1 DEF BornRows
<1>4. Verdicts[r] = "none" /\ Verdicts' = [Verdicts EXCEPT ![r] = "published"]
  BY <1>1 DEF Verdicts
<1> QED
  BY <1>2, <1>3, <1>4 DEF Delivery!Next, Delivery!ConfirmPublished

\* A recorded failure leaves a locked row for a retry, or gives it up.
LEMMA FailureIsGiveUp ==
    ASSUME IInv, NEW w \in Workers, NEW r \in Rows, status[r] = "PUBLISHING",
           WriteFailure(w, r), UNCHANGED created
    PROVE  [Delivery!Next]_(Delivery!vars)
<1>0. status \in [Rows -> Statuses]
  BY DEF IInv, TypeOK, DbTypeOK
<1>1. CASE status' = [status EXCEPT ![r] = "FAILED"]
  BY <1>0, <1>1, Invisible
<1>2. CASE status' = [status EXCEPT ![r] = "DEAD_LETTER"]
  <2>1. BornRows' = BornRows /\ r \in BornRows
    BY <1>0, <1>2 DEF BornRows
  <2>2. Verdicts[r] = "none" /\ Verdicts' = [Verdicts EXCEPT ![r] = "dead"]
    BY <1>0, <1>2 DEF Verdicts
  <2> QED
    BY <2>1, <2>2 DEF Delivery!Next, Delivery!GiveUp
<1> QED
  BY <1>1, <1>2 DEF WriteFailure

\* A claim changes no verdict: it takes rows that still await one.
LEMMA ClaimIsInvisible ==
    ASSUME IInv, NEW w \in Workers, NEW B \in SUBSET Claimable, LockRows(w, B),
           UNCHANGED created
    PROVE  UNCHANGED Delivery!vars
<1>1. status \in [Rows -> Statuses]
  BY DEF IInv, TypeOK, DbTypeOK
<1> QED
  BY <1>1, Invisible DEF LockRows, Claimable

LEMMA StepRefines ==
    ASSUME IInv, [Next]_vars
    PROVE  [Delivery!Next]_(Delivery!vars)
<1> USE DEF dbVars, busVars, wkVars
<1>1. ASSUME NEW r \in Rows, Emit(r)
      PROVE  [Delivery!Next]_(Delivery!vars)
  <2>1. status' = [status EXCEPT ![r] = "PENDING"] /\ status \in [Rows -> Statuses]
    BY <1>1 DEF Emit, IInv, TypeOK, DbTypeOK
  <2>2. Delivery!Commit(r)
    BY <1>1, <2>1 DEF Emit, Delivery!Commit, BornRows, Verdicts
  <2> QED
    BY <2>2 DEF Delivery!Next
<1>2. ASSUME NEW w \in Workers, NEW r \in Rows, Publish(w, r) \/ PublishRejected(w, r)
      PROVE  [Delivery!Next]_(Delivery!vars)
  BY <1>2, AddIsHandOver DEF Publish, PublishRejected
<1>3. ASSUME NEW w \in Workers, RecordPublished(w) \/ ReceiptFault(w)
      PROVE  [Delivery!Next]_(Delivery!vars)
  <2>1. cur[w] \in Rows /\ status[cur[w]] = "PUBLISHING" /\ created[cur[w]] > 0
    BY <1>3 DEF RecordPublished, ReceiptFault, Holds, IInv, TypeOK, Placed, WorkerTypeOK,
       ReceiptInv, ReceiptEarned
  <2>2. UNCHANGED created /\ (WriteReceipt(cur[w]) \/ UNCHANGED status)
    BY <1>3 DEF RecordPublished, ReceiptFault
  <2> QED
    BY <2>1, <2>2, ReceiptIsConfirm, Invisible
<1>4. ASSUME NEW w \in Workers, RecordFailure(w)
      PROVE  [Delivery!Next]_(Delivery!vars)
  <2>1. cur[w] \in Rows /\ status[cur[w]] = "PUBLISHING"
    BY <1>4 DEF RecordFailure, Holds, IInv, TypeOK, Placed, WorkerTypeOK
  <2> QED
    BY <1>4, <2>1, FailureIsGiveUp DEF RecordFailure
<1>5. ASSUME NEW w \in Workers, Claim(w) \/ ClaimReplyLost(w)
      PROVE  [Delivery!Next]_(Delivery!vars)
  <2>1. UNCHANGED created /\ \E B \in SUBSET Claimable : LockRows(w, B)
    BY <1>5 DEF Claim, ClaimReplyLost, ClaimBatches
  <2> QED
    BY <2>1, ClaimIsInvisible
<1>6. ASSUME NEW w \in Workers,
             \/ Start(w) \/ EmptyProbe(w) \/ ReceiptLockLost(w) \/ FailureLockLost(w)
             \/ FailureFault(w) \/ EndBatch(w) \/ Stop(w) \/ Crash(w)
      PROVE  [Delivery!Next]_(Delivery!vars)
  <2>1. UNCHANGED <<status, created>>
    BY <1>6 DEF Start, EmptyProbe, ReceiptLockLost, FailureLockLost, FailureFault,
       EndBatch, Stop, Crash
  <2> QED
    BY <2>1, Invisible
<1>7. ASSUME NEW r \in Rows,
             RetryDue(r) \/ OrphanLapse(r) \/ FinishJob(r) \/ \E w \in Workers : OutrunLapse(w, r)
      PROVE  [Delivery!Next]_(Delivery!vars)
  <2>1. UNCHANGED <<status, created>>
    BY <1>7 DEF RetryDue, OrphanLapse, FinishJob, OutrunLapse
  <2> QED
    BY <2>1, Invisible
<1>8. CASE UNCHANGED vars
  BY <1>8, Invisible DEF vars
<1> QED
  BY <1>1, <1>2, <1>3, <1>4, <1>5, <1>6, <1>7, <1>8 DEF Next, RowStep, Dispatch

\* The outbox implements EventDelivery: at most one job per event in spite of
\* crashes between the queue's acceptance and the receipt, and final verdicts.
THEOREM Refinement == Spec => DeliversEvents
<1>1. Init => Delivery!Init
  BY DEF Init, Delivery!Init, BornRows, Verdicts
<1>2. IInv /\ [Next]_vars => [Delivery!Next]_(Delivery!vars)
  BY StepRefines
<1> QED
  BY <1>1, <1>2, Inductive, PTL DEF Spec, DeliversEvents, Delivery!Spec
=============================================================================
