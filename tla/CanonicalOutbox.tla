-------------------------- MODULE CanonicalOutbox --------------------------
(***************************************************************************)
(* The transactional outbox of the canonical control plane and the worker  *)
(* that empties it: emit_canonical_event writes an event and its outbox    *)
(* row in one transaction; every worker process claims batches of due rows *)
(* under a timed lock, adds each to a BullMQ queue, and records a receipt. *)
(*                                                                         *)
(* Each database transaction is one step.  Between two of them anything    *)
(* may happen: the process dies, its lock lapses and another process       *)
(* claims the row, a reply is lost after the effect took place.            *)
(***************************************************************************)
EXTENDS Integers, FiniteSets

CONSTANTS
    Rows,          \* outbox rows, one per canonical event
    Workers,       \* dispatcher processes that can be up at the same time
    NoOne,         \* locked_by IS NULL
    Departed,      \* the worker id of an incarnation that no longer exists
    NoRow,
    BatchSize,     \* CANONICAL_OUTBOX_BATCH_SIZE
    MaxAttempts,   \* CANONICAL_OUTBOX_MAX_ATTEMPTS
    MaxFaults      \* bound on crashes, database faults and outrun locks

ASSUME SentinelAssumption ==
    /\ NoOne \notin Workers
    /\ Departed \notin Workers
    /\ NoOne # Departed
    /\ NoRow \notin Rows

ASSUME SizeAssumption ==
    /\ BatchSize \in Nat \ {0}
    /\ MaxAttempts \in Nat \ {0}
    /\ MaxFaults \in Nat

VARIABLES
    status,    \* status[r]: column status, "UNBORN" before the insert
    attempts,  \* attempts[r]: column attempts
    lockedBy,  \* lockedBy[r]: column locked_by
    lapsed,    \* rows whose locked_until is in the past
    ripe,      \* FAILED rows whose retry delay has passed
    job,       \* job[r]: the BullMQ job whose jobId is the row's id
    created,   \* created[r]: BullMQ jobs ever created for the row
    pc,        \* pc[w]: where the dispatcher of process w stands
    probing,   \* processes still in their startup batch
    failed,    \* probing processes whose batch has result.failed > 0
    batch,     \* batch[w]: claimed rows the loop has yet to finish
    cur,       \* cur[w]: the row the loop is working on
    seen,      \* seen[w][r]: attempts as RETURNING gave it to w's claim
    faults     \* faults spent so far

dbVars  == <<status, attempts, lockedBy, lapsed, ripe>>
busVars == <<job, created>>
wkVars  == <<pc, probing, failed, batch, cur, seen>>
vars    == <<dbVars, busVars, wkVars, faults>>

Statuses == {"UNBORN", "PENDING", "PUBLISHING", "PUBLISHED", "FAILED",
             "DEAD_LETTER"}
JobStates == {"absent", "waiting", "finished"}
Stages == {"off", "idle", "loop", "receipt", "failure"}

Settled(r) == status[r] \in {"PUBLISHED", "DEAD_LETTER"}

\* Mutant of Claimable: a lock that lapsed is never taken over.
ClaimableWithoutTakeover ==
    {r \in Rows : status[r] = "PENDING" \/ (status[r] = "FAILED" /\ r \in ripe)}

\* The WHERE clause of the claim: due and waiting, or locked too long.
Claimable == {r \in Rows : \/ status[r] = "PENDING"
                           \/ status[r] = "FAILED" /\ r \in ripe
                           \/ status[r] = "PUBLISHING" /\ r \in lapsed}

\* What a claim may return.  SKIP LOCKED passes over any row that an open
\* transaction holds, so neither the oldest rows nor a full batch is sure.
ClaimBatches ==
    {B \in SUBSET Claimable : B # {} /\ Cardinality(B) <= BatchSize}

\* Mutant of Holds: the receipt does not ask who locked the row.
HoldsWhoever(w, r) == status[r] = "PUBLISHING"

Holds(w, r) == status[r] = "PUBLISHING" /\ lockedBy[r] = w

Faulty == faults < MaxFaults /\ faults' = faults + 1

-----------------------------------------------------------------------------

Init ==
    /\ status = [r \in Rows |-> "UNBORN"]
    /\ attempts = [r \in Rows |-> 0]
    /\ lockedBy = [r \in Rows |-> NoOne]
    /\ lapsed = {}
    /\ ripe = {}
    /\ job = [r \in Rows |-> "absent"]
    /\ created = [r \in Rows |-> 0]
    /\ pc = [w \in Workers |-> "off"]
    /\ probing = {}
    /\ failed = {}
    /\ batch = [w \in Workers |-> {}]
    /\ cur = [w \in Workers |-> NoRow]
    /\ seen = [w \in Workers |-> [r \in Rows |-> 0]]
    /\ faults = 0

\* The body of the loop is over for the current row.
Advance(w, r) ==
    /\ pc' = [pc EXCEPT ![w] = "loop"]
    /\ batch' = [batch EXCEPT ![w] = @ \ {r}]
    /\ cur' = [cur EXCEPT ![w] = NoRow]
    /\ seen' = [seen EXCEPT ![w][r] = 0]

\* The dispatcher of w forgets everything: it exits or its batch rejects.
Forget(w, stage) ==
    /\ pc' = [pc EXCEPT ![w] = stage]
    /\ probing' = probing \ {w}
    /\ failed' = failed \ {w}
    /\ batch' = [batch EXCEPT ![w] = {}]
    /\ cur' = [cur EXCEPT ![w] = NoRow]
    /\ seen' = [seen EXCEPT ![w] = [r \in Rows |-> 0]]

\* A new incarnation draws a fresh UUID, so the locks a process leaves behind
\* belong to nobody: they are renamed to Departed.
Disown(w) ==
    lockedBy' = [r \in Rows |-> IF lockedBy[r] = w THEN Departed ELSE lockedBy[r]]

-----------------------------------------------------------------------------
(* The database side.                                                      *)

\* emit_canonical_event: the event and its outbox row, in one transaction.
Emit(r) ==
    /\ status[r] = "UNBORN"
    /\ status' = [status EXCEPT ![r] = "PENDING"]
    /\ UNCHANGED <<attempts, lockedBy, lapsed, ripe, busVars, wkVars, faults>>

\* The retry delay of a failed row has passed.
RetryDue(r) ==
    /\ status[r] = "FAILED" /\ r \notin ripe
    /\ ripe' = ripe \cup {r}
    /\ UNCHANGED <<status, attempts, lockedBy, lapsed, busVars, wkVars, faults>>

\* locked_until passes while no live loop still has the row in its batch.
OrphanLapse(r) ==
    /\ status[r] = "PUBLISHING" /\ r \notin lapsed
    /\ \A w \in Workers : ~(lockedBy[r] = w /\ r \in batch[w])
    /\ lapsed' = lapsed \cup {r}
    /\ UNCHANGED <<status, attempts, lockedBy, ripe, busVars, wkVars, faults>>

\* locked_until passes while its owner is still working through the batch:
\* the lock was taken for the whole batch and is never renewed.
OutrunLapse(w, r) ==
    /\ Holds(w, r) /\ r \in batch[w] /\ r \notin lapsed
    /\ Faulty
    /\ lapsed' = lapsed \cup {r}
    /\ UNCHANGED <<status, attempts, lockedBy, ripe, busVars, wkVars>>

-----------------------------------------------------------------------------
(* The dispatcher of process w.                                            *)

\* startCanonicalOutboxWorker: the first batch is a probe.
Start(w) ==
    /\ pc[w] = "off"
    /\ pc' = [pc EXCEPT ![w] = "idle"]
    /\ probing' = probing \cup {w}
    /\ UNCHANGED <<dbVars, busVars, failed, batch, cur, seen, faults>>

\* The claim's UPDATE, common to the claim that returns and the one whose
\* reply is lost.
LockRows(w, B) ==
    /\ status' = [r \in Rows |-> IF r \in B THEN "PUBLISHING" ELSE status[r]]
    /\ attempts' = [r \in Rows |-> IF r \in B THEN attempts[r] + 1 ELSE attempts[r]]
    /\ lockedBy' = [r \in Rows |-> IF r \in B THEN w ELSE lockedBy[r]]
    /\ lapsed' = lapsed \ B
    /\ ripe' = ripe \ B

\* Mutant of Claim: the attempt count of the candidate, not of the updated row.
ClaimStaleCount(w) ==
    /\ pc[w] = "idle"
    /\ \E B \in ClaimBatches :
        /\ LockRows(w, B)
        /\ batch' = [batch EXCEPT ![w] = B]
        /\ seen' = [seen EXCEPT ![w] = [r \in Rows |-> IF r \in B THEN attempts[r] ELSE 0]]
    /\ pc' = [pc EXCEPT ![w] = "loop"]
    /\ UNCHANGED <<busVars, probing, failed, cur, faults>>

\* claimOutboxRows returned at least one row.
Claim(w) ==
    /\ pc[w] = "idle"
    /\ \E B \in ClaimBatches :
        /\ LockRows(w, B)
        /\ batch' = [batch EXCEPT ![w] = B]
        /\ seen' = [seen EXCEPT ![w] = [r \in Rows |-> IF r \in B THEN attempts[r] + 1 ELSE 0]]
    /\ pc' = [pc EXCEPT ![w] = "loop"]
    /\ UNCHANGED <<busVars, probing, failed, cur, faults>>

\* A startup probe that is given no row succeeds.
EmptyProbe(w) ==
    /\ pc[w] = "idle" /\ w \in probing
    /\ probing' = probing \ {w}
    /\ UNCHANGED <<dbVars, busVars, pc, failed, batch, cur, seen, faults>>

\* The claim commits but its reply is lost: w does not know it owns the rows.
\* (A probing process exits then, as by Claim and Crash.)
ClaimReplyLost(w) ==
    /\ pc[w] = "idle" /\ w \notin probing
    /\ Faulty
    /\ \E B \in ClaimBatches : LockRows(w, B)
    /\ UNCHANGED <<busVars, wkVars>>

\* queue.add with jobId = the row's id: BullMQ ignores an id it still knows.
AddJob(r) ==
    IF job[r] = "absent"
    THEN /\ job' = [job EXCEPT ![r] = "waiting"]
         /\ created' = [created EXCEPT ![r] = @ + 1]
    ELSE UNCHANGED busVars

\* Mutant of FinishJob: removeOnComplete, as the other queues here configure.
FinishAndRemoveJob(r) ==
    /\ job[r] = "waiting"
    /\ job' = [job EXCEPT ![r] = "absent"]
    /\ UNCHANGED <<dbVars, created, wkVars, faults>>

\* The queue's consumer is through with the job; terminal jobs are retained.
FinishJob(r) ==
    /\ job[r] = "waiting"
    /\ job' = [job EXCEPT ![r] = "finished"]
    /\ UNCHANGED <<dbVars, created, wkVars, faults>>

\* publisher.publish resolves: Redis accepted the job.
Publish(w, r) ==
    /\ pc[w] = "loop" /\ r \in batch[w]
    /\ AddJob(r)
    /\ pc' = [pc EXCEPT ![w] = "receipt"]
    /\ cur' = [cur EXCEPT ![w] = r]
    /\ UNCHANGED <<dbVars, probing, failed, batch, seen, faults>>

\* publisher.publish rejects: Redis refused the job, or took it and the
\* answer got lost.
PublishRejected(w, r) ==
    /\ pc[w] = "loop" /\ r \in batch[w]
    /\ AddJob(r) \/ UNCHANGED busVars
    /\ pc' = [pc EXCEPT ![w] = "failure"]
    /\ cur' = [cur EXCEPT ![w] = r]
    /\ UNCHANGED <<dbVars, probing, failed, batch, seen, faults>>

\* The UPDATE of markOutboxPublished.
WriteReceipt(r) ==
    /\ status' = [status EXCEPT ![r] = "PUBLISHED"]
    /\ lockedBy' = [lockedBy EXCEPT ![r] = NoOne]
    /\ lapsed' = lapsed \ {r}
    /\ UNCHANGED <<attempts, ripe>>

\* markOutboxPublished, one row updated.
RecordPublished(w) ==
    LET r == cur[w] IN
    /\ pc[w] = "receipt" /\ Holds(w, r)
    /\ WriteReceipt(r)
    /\ Advance(w, r)
    /\ UNCHANGED <<busVars, probing, failed, faults>>

\* markOutboxPublished throws because the lock is no longer w's.
ReceiptLockLost(w) ==
    /\ pc[w] = "receipt" /\ ~Holds(w, cur[w])
    /\ pc' = [pc EXCEPT ![w] = "failure"]
    /\ UNCHANGED <<dbVars, busVars, probing, failed, batch, cur, seen, faults>>

\* The receipt transaction fails, before or after it committed.
ReceiptFault(w) ==
    /\ pc[w] = "receipt" /\ Holds(w, cur[w])
    /\ Faulty
    /\ WriteReceipt(cur[w]) \/ UNCHANGED dbVars
    /\ pc' = [pc EXCEPT ![w] = "failure"]
    /\ UNCHANGED <<busVars, probing, failed, batch, cur, seen>>

\* The UPDATE of markOutboxFailed: attempts is the value the claim returned.
WriteFailure(w, r) ==
    /\ status' = [status EXCEPT ![r] = IF seen[w][r] >= MaxAttempts
                                       THEN "DEAD_LETTER" ELSE "FAILED"]
    /\ lockedBy' = [lockedBy EXCEPT ![r] = NoOne]
    /\ lapsed' = lapsed \ {r}
    /\ UNCHANGED <<attempts, ripe>>

\* markOutboxFailed, one row updated.
RecordFailure(w) ==
    LET r == cur[w] IN
    /\ pc[w] = "failure" /\ Holds(w, r)
    /\ WriteFailure(w, r)
    /\ Advance(w, r)
    /\ failed' = failed \cup ({w} \cap probing)
    /\ UNCHANGED <<busVars, probing, faults>>

\* An exception leaves the loop: the rest of the batch is abandoned with its
\* locks.  A running dispatcher polls again, a probing one exits.
AbandonBatch(w) ==
    IF w \in probing
    THEN Forget(w, "off") /\ Disown(w)
    ELSE Forget(w, "idle") /\ UNCHANGED lockedBy

\* markOutboxFailed throws because the lock is no longer w's.
FailureLockLost(w) ==
    /\ pc[w] = "failure" /\ ~Holds(w, cur[w])
    /\ AbandonBatch(w)
    /\ UNCHANGED <<status, attempts, lapsed, ripe, busVars, faults>>

\* The failure transaction itself fails and rolls back.
FailureFault(w) ==
    /\ pc[w] = "failure" /\ Holds(w, cur[w])
    /\ Faulty
    /\ AbandonBatch(w)
    /\ UNCHANGED <<status, attempts, lapsed, ripe, busVars>>

\* The loop is through.  A probe with a failure stops the process.
EndBatch(w) ==
    /\ pc[w] = "loop" /\ batch[w] = {}
    /\ IF w \in failed
       THEN Forget(w, "off") /\ Disown(w)
       ELSE Forget(w, "idle") /\ UNCHANGED lockedBy
    /\ UNCHANGED <<status, attempts, lapsed, ripe, busVars, faults>>

\* The stop function waits for the active batch; rows of an abandoned batch
\* may still carry the id.
Stop(w) ==
    /\ pc[w] = "idle" /\ w \notin probing
    /\ Forget(w, "off") /\ Disown(w)
    /\ UNCHANGED <<status, attempts, lapsed, ripe, busVars, faults>>

\* The process dies.
Crash(w) ==
    /\ pc[w] # "off"
    /\ Faulty
    /\ Forget(w, "off") /\ Disown(w)
    /\ UNCHANGED <<status, attempts, lapsed, ripe, busVars>>

-----------------------------------------------------------------------------

Record(w) ==
    \/ RecordPublished(w) \/ ReceiptLockLost(w)
    \/ RecordFailure(w) \/ FailureLockLost(w)

Dispatch(w) ==
    \/ Start(w) \/ Claim(w) \/ EmptyProbe(w) \/ ClaimReplyLost(w)
    \/ \E r \in Rows : Publish(w, r) \/ PublishRejected(w, r) \/ OutrunLapse(w, r)
    \/ RecordPublished(w) \/ ReceiptLockLost(w) \/ ReceiptFault(w)
    \/ RecordFailure(w) \/ FailureLockLost(w) \/ FailureFault(w)
    \/ EndBatch(w) \/ Stop(w) \/ Crash(w)

RowStep(r) == Emit(r) \/ RetryDue(r) \/ OrphanLapse(r) \/ FinishJob(r)

Next == (\E r \in Rows : RowStep(r)) \/ (\E w \in Workers : Dispatch(w))

Spec == Init /\ [][Next]_vars

\* Timers fire, a live dispatcher goes on, a stopped one is started again.
Fairness ==
    /\ \A r \in Rows : WF_vars(RetryDue(r)) /\ WF_vars(OrphanLapse(r))
    /\ \A w \in Workers :
        /\ WF_vars(Start(w))
        /\ SF_vars(Claim(w))
        /\ WF_vars(EmptyProbe(w))
        /\ WF_vars(\E r \in Rows : Publish(w, r) \/ PublishRejected(w, r))
        /\ WF_vars(Record(w))
        /\ WF_vars(EndBatch(w))

FairSpec == Spec /\ Fairness

-----------------------------------------------------------------------------
(* Properties.                                                             *)

\* A row that is PUBLISHING, and only such a row, carries a lock, as the
\* table's trigger validate_outbox_update demands.
DbTypeOK ==
    /\ status \in [Rows -> Statuses]
    /\ attempts \in [Rows -> Nat]
    /\ lockedBy \in [Rows -> Workers \cup {NoOne, Departed}]
    /\ lapsed \in SUBSET Rows
    /\ ripe \in SUBSET Rows
    /\ \A r \in Rows : status[r] = "PUBLISHING" <=> lockedBy[r] # NoOne

BusTypeOK ==
    /\ job \in [Rows -> JobStates]
    /\ created \in [Rows -> Nat]

WorkerTypeOK ==
    /\ pc \in [Workers -> Stages]
    /\ probing \in SUBSET Workers
    /\ failed \in SUBSET Workers
    /\ batch \in [Workers -> SUBSET Rows]
    /\ cur \in [Workers -> Rows \cup {NoRow}]
    /\ seen \in [Workers -> [Rows -> Nat]]

\* The loop's current row belongs to its batch, and a process outside its
\* loop has no batch.
Placed ==
    \A w \in Workers :
        /\ pc[w] \in {"receipt", "failure"} => cur[w] \in batch[w]
        /\ pc[w] \in {"off", "idle"} => batch[w] = {}

\* The types of the rows, of the queue and of the processes' memory.
TypeOK == DbTypeOK /\ BusTypeOK /\ WorkerTypeOK /\ Placed /\ faults \in 0..MaxFaults

\* A row the loop still works on and still holds the lock of was claimed by
\* that very batch: the attempt count in the process's memory is the row's.
\* markOutboxFailed decides between retry and dead letter on that memory.
OwnerIsCurrent ==
    \A w \in Workers : \A r \in batch[w] :
        Holds(w, r) => seen[w][r] = attempts[r]

\* Whatever locks were lost and retaken, a row is dead-lettered only when its
\* attempts are used up, and is left for a retry only when they are not.
VerdictThreshold ==
    \A r \in Rows :
        /\ status[r] = "FAILED" => attempts[r] < MaxAttempts
        /\ status[r] = "DEAD_LETTER" => attempts[r] >= MaxAttempts

\* A receipt is never recorded for an event the queue did not take.
ReceiptBacked ==
    \A r \in Rows : status[r] = "PUBLISHED" => created[r] > 0

\* Every event committed with its outbox row is at last published or
\* dead-lettered, whatever processes die and whatever locks lapse.
EventuallySettled ==
    \A r \in Rows : status[r] # "UNBORN" ~> Settled(r)

\* What EventDelivery sees of the rows.
BornRows == {r \in Rows : status[r] # "UNBORN"}

Verdicts == [r \in Rows |-> CASE status[r] = "PUBLISHED" -> "published"
                             [] status[r] = "DEAD_LETTER" -> "dead"
                             [] OTHER -> "none"]

Delivery == INSTANCE EventDelivery WITH
    Events <- Rows, born <- BornRows, copies <- created, verdict <- Verdicts

\* The outbox keeps the promise of EventDelivery.
DeliversEvents == Delivery!Spec
=============================================================================
