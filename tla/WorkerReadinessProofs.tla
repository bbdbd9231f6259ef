----------------------- MODULE WorkerReadinessProofs -----------------------
(***************************************************************************)
(* Proofs about WorkerReadiness, for any components and bounds.            *)
(***************************************************************************)
EXTENDS WorkerReadiness, TLAPS

Writes == [status : {"READY", "DEGRADED", "STOPPING"}, bad : SUBSET Components,
           by : {"start", "timer", "report", "stop"}]

\* A write of DEGRADED names a component.  The first heartbeat and STOPPING
\* are alone in the queue, each in its stage; before and after the process
\* lives there is no write at all.
QueueShape ==
    /\ \A i \in 1..Len(queue) :
          /\ queue[i].status = "DEGRADED" => queue[i].bad # {}
          /\ queue[i].by = "stop" <=> queue[i].status = "STOPPING"
          /\ queue[i].by = "stop" => Len(queue) = 1 /\ stage = "stopping"
          /\ queue[i].by = "start" => Len(queue) = 1 /\ stage = "starting"
    /\ stage \in {"off", "exiting"} => queue = <<>>
    /\ stage = "starting" => Len(queue) = 1 /\ queue[1].by = "start"

\* What is owed is pending.
OwedIsPending == owed /\ stage # "off" => pending # {}

\* Once STOPPING is recorded, only another attempt at it can be queued.
NothingAfter ==
    row.status = "STOPPING" =>
        /\ stage \in {"stopping", "exiting", "off"}
        /\ pending = {}
        /\ \A i \in 1..Len(queue) : queue[i].by = "stop"

\* The timer is armed by a worker that is up, and cleared by its shutdown.
TimerStage == timer = "armed" => stage \in {"up", "draining"}

\* The shutdown goes on as long as an attempt is left.
AttemptLeft == attempts < MaxAttempts \/ stage # "stopping"

ReadinessInv ==
    /\ TypeOK /\ QueueShape /\ TimerStage /\ AttemptLeft
    /\ OwedIsPending /\ NothingAfter /\ HeartbeatGoesOn

-----------------------------------------------------------------------------
(* The queue.                                                              *)

LEMMA HeadTail ==
    ASSUME TypeOK, queue # <<>>
    PROVE  /\ queue \in Seq(Writes) /\ Len(queue) \in Nat \ {0}
           /\ Head(queue) = queue[1] /\ Head(queue) \in Writes
           /\ Tail(queue) \in Seq(Writes) /\ Len(Tail(queue)) = Len(queue) - 1
           /\ \A i \in 1..Len(Tail(queue)) :
                 i + 1 \in 1..Len(queue) /\ Tail(queue)[i] = queue[i + 1]
<1>1. queue \in Seq(Writes)
  BY DEF TypeOK, Writes
<1> HIDE DEF Writes
<1> QED
  BY <1>1

LEMMA Queued ==
    ASSUME TypeOK, NEW w \in Writes, queue' = Append(queue, w)
    PROVE  /\ queue' \in Seq(Writes) /\ Len(queue') = Len(queue) + 1
           /\ \A i \in 1..Len(queue) : queue'[i] = queue[i]
           /\ queue'[Len(queue) + 1] = w /\ Len(queue) \in Nat
<1>1. queue \in Seq(Writes)
  BY DEF TypeOK, Writes
<1> HIDE DEF Writes
<1> QED
  BY <1>1

LEMMA RecordedWrite ==
    ASSUME NEW b \in SUBSET Components, NEW by \in {"timer", "report"}
    PROVE  Write(Status(b), b, by) \in Writes
BY DEF Write, Status, Writes

\* The write at the head is settled: types and shape of the queue are kept.
LEMMA SettleQueue ==
    ASSUME TypeOK, QueueShape, queue # <<>>, NEW ok \in BOOLEAN, Settle(ok)
    PROVE  /\ queue' \in Seq(Writes)
           /\ stage' \in {"off", "starting", "up", "draining", "stopping", "exiting"}
           /\ timer' \in {"none", "armed", "waiting"}
           /\ QueueShape'
           /\ stage' # "off"
<1> USE HeadTail
<1>1. queue' \in Seq(Writes)
  BY DEF Settle
<1>2. /\ stage' \in {"off", "starting", "up", "draining", "stopping", "exiting"}
      /\ timer' \in {"none", "armed", "waiting"}
  BY DEF Settle, TypeOK
<1>3. stage # "off"
  BY DEF QueueShape
<1>4. stage' # "off"
  BY <1>3 DEF Settle
<1>5. QueueShape'
  <2>1. CASE queue[1].by \in {"start", "stop"}
    <3>1. Len(queue') = 0 /\ queue' = <<>>
      BY <2>1 DEF QueueShape, Settle
    <3>2. stage' # "starting"
      BY <2>1, <1>3 DEF QueueShape, Settle
    <3> QED
      BY <3>1, <3>2 DEF QueueShape
  <2>2. CASE queue[1].by \notin {"start", "stop"}
    <3>1. stage' = stage /\ stage \notin {"off", "exiting", "starting"}
      BY <2>2 DEF QueueShape, Settle
    <3>2. \A i \in 1..Len(queue') : queue'[i] = queue[i + 1] /\ i + 1 \in 1..Len(queue) /\ i + 1 > 1
      BY DEF Settle
    <3>3. \A i \in 1..Len(queue) : i > 1 => queue[i].by \notin {"start", "stop"}
      BY DEF QueueShape
    <3> QED
      BY <3>1, <3>2, <3>3 DEF QueueShape
  <2> QED
    BY <2>1, <2>2
<1> QED
  BY <1>1, <1>2, <1>4, <1>5

\* The attempts stay within their number.
LEMMA SettleAttempts ==
    ASSUME TypeOK, QueueShape, queue # <<>>, attempts < MaxAttempts \/ stage # "stopping",
           NEW ok \in BOOLEAN, Settle(ok)
    PROVE  /\ attempts' \in 0..MaxAttempts
           /\ attempts' < MaxAttempts \/ stage' # "stopping"
<1> USE HeadTail DEF MaxAttempts
<1>1. Head(queue).by = "stop" => stage = "stopping"
  BY DEF QueueShape
<1> QED
  BY <1>1 DEF Settle, TypeOK

\* A timer that is armed again belongs to a worker that is up.
LEMMA SettleTimer ==
    ASSUME TypeOK, QueueShape, TimerStage, queue # <<>>, NEW ok \in BOOLEAN, Settle(ok)
    PROVE  TimerStage'
<1> USE HeadTail
<1>1. Head(queue).by = "start" => stage = "starting"
  BY DEF QueueShape
<1>2. Head(queue).by = "stop" => stage = "stopping"
  BY DEF QueueShape
<1>3. Head(queue).by \notin {"start", "stop"} => stage \notin {"off", "exiting", "starting"}
  BY DEF QueueShape
<1> QED
  BY <1>1, <1>2, <1>3 DEF Settle, TimerStage, TypeOK, Writes

\* The head of the queue and the end it leads to.
LEMMA HeadIsStop ==
    ASSUME TypeOK, QueueShape, queue # <<>>, Head(queue).status = "STOPPING",
           NEW ok \in BOOLEAN, Settle(ok)
    PROVE  stage' \in {"stopping", "exiting"} /\ Len(queue') = 0 /\ queue' = <<>>
<1> USE HeadTail
<1>1. Head(queue).by = "stop" /\ Len(queue) = 1 /\ stage = "stopping"
  BY DEF QueueShape
<1> QED
  BY <1>1 DEF Settle

\* A heartbeat that waits stays in the queue until it is settled, and then the
\* timer is armed again.
LEMMA SettleHeartbeat ==
    ASSUME TypeOK, QueueShape, TimerStage, HeartbeatGoesOn, queue # <<>>,
           NEW ok \in BOOLEAN, Settle(ok)
    PROVE  HeartbeatGoesOn'
<1> USE HeadTail
<1> SUFFICES ASSUME stage' \in {"up", "draining"}
             PROVE  HeartbeatGoesOn'
  BY DEF HeartbeatGoesOn
<1>1. CASE Head(queue).by = "start"
  BY <1>1 DEF Settle, HeartbeatGoesOn
<1>2. CASE Head(queue).by = "stop"
  BY <1>2 DEF QueueShape, Settle
<1>3. CASE Head(queue).by = "timer"
  <2>1. stage # "stopping"
    BY <1>3 DEF Settle
  <2> QED
    BY <1>3, <2>1 DEF Settle, HeartbeatGoesOn
<1>4. CASE Head(queue).by = "report"
  <2>1. stage' = stage /\ timer' = timer /\ queue' = Tail(queue)
    BY <1>4 DEF Settle
  <2>2. CASE timer = "armed"
    BY <2>1, <2>2 DEF HeartbeatGoesOn
  <2>3. CASE timer # "armed"
    <3>1. PICK i \in 1..Len(queue) : timer = "waiting" /\ queue[i].by = "timer"
      BY <2>1, <2>3 DEF HeartbeatGoesOn
    <3>2. i # 1 /\ i - 1 \in 1..Len(queue') /\ queue'[i - 1] = queue[i]
      BY <1>4, <2>1, <3>1
    <3> QED
      BY <2>1, <3>1, <3>2 DEF HeartbeatGoesOn
  <2> QED
    BY <2>2, <2>3
<1> QED
  BY <1>1, <1>2, <1>3, <1>4 DEF Writes

-----------------------------------------------------------------------------
(* Each part of the invariant is kept by every step.                       *)

\* As long as the shutdown goes on, an attempt is left.
LEMMA AttemptsStep ==
    ASSUME TypeOK, QueueShape, AttemptLeft, [Next]_vars
    PROVE  AttemptLeft'
<1>1. CASE Begin
  BY <1>1 DEF AttemptLeft, Begin, Vanish, MaxAttempts
<1>2. CASE Beat
  BY <1>2 DEF AttemptLeft, Beat, Vanish, MaxAttempts
<1>3. CASE Flush
  <2>1. queue # <<>> /\ (Settle(TRUE) \/ UNCHANGED <<stage, timer, queue, attempts>>)
    BY <1>3 DEF Flush
  <2> QED
    BY <2>1, SettleAttempts DEF AttemptLeft
<1>4. CASE WriteFirst
  <2>1. queue # <<>> /\ (Settle(TRUE) \/ UNCHANGED <<stage, timer, queue, attempts>>)
    BY <1>4 DEF WriteFirst
  <2> QED
    BY <2>1, SettleAttempts DEF AttemptLeft
<1>5. CASE FlushFails
  <2>1. queue # <<>> /\ (Settle(FALSE) \/ UNCHANGED <<stage, timer, queue, attempts>>)
    BY <1>5 DEF FlushFails
  <2> QED
    BY <2>1, SettleAttempts DEF AttemptLeft
<1>6. CASE WriteFails
  <2>1. queue # <<>> /\ (Settle(FALSE) \/ UNCHANGED <<stage, timer, queue, attempts>>)
    BY <1>6 DEF WriteFails
  <2> QED
    BY <2>1, SettleAttempts DEF AttemptLeft
<1>7. CASE Shutdown
  BY <1>7 DEF AttemptLeft, Shutdown, Vanish, MaxAttempts
<1>8. CASE StopHeartbeat
  BY <1>8 DEF AttemptLeft, StopHeartbeat, Vanish, MaxAttempts
<1>9. CASE StopAttempt
  BY <1>9 DEF AttemptLeft, StopAttempt, Vanish, MaxAttempts
<1>10. CASE Exit
  BY <1>10 DEF AttemptLeft, Exit, Vanish, MaxAttempts
<1>11. CASE Crash
  BY <1>11 DEF AttemptLeft, Crash, Vanish, MaxAttempts
<1>12. ASSUME NEW c \in Components, Report(c)
      PROVE  AttemptLeft'
  BY <1>12 DEF AttemptLeft, Report, Vanish, MaxAttempts
<1>13. ASSUME NEW c \in Components, StopComponent(c)
      PROVE  AttemptLeft'
  BY <1>13 DEF AttemptLeft, StopComponent, Vanish, MaxAttempts
<1>14. CASE UNCHANGED vars
  BY <1>14 DEF AttemptLeft, vars, procVars
<1> QED
  BY <1>1, <1>2, <1>3, <1>4, <1>5, <1>6, <1>7, <1>8, <1>9, <1>10, <1>11, <1>12, <1>13, <1>14 DEF Next

\* The types.
LEMMA TypeStep ==
    ASSUME TypeOK, QueueShape, AttemptLeft, [Next]_vars
    PROVE  TypeOK'
<1>1. CASE Begin
  <2>1. Write("READY", {}, "start") \in Writes
    BY DEF Write, Writes, TypeOK
  <2>2. queue' \in Seq(Writes)
    BY <1>1, <2>1 DEF Begin
  <2> QED
    BY <1>1, <2>2 DEF Begin, TypeOK, Writes, Row, NoRow
<1>2. CASE Beat
  <2>1. bad' \in SUBSET Components
    BY <1>2 DEF Beat, TypeOK
  <2>2. queue' \in Seq(Writes)
    BY <1>2, <2>1, Queued, RecordedWrite DEF Beat, Recorded, TypeOK, Writes
  <2> QED
    BY <1>2, <2>1, <2>2 DEF Beat, TypeOK, Writes
<1>3. CASE Flush
  <2>1. queue # <<>> /\ (Settle(TRUE) \/ UNCHANGED <<stage, timer, queue, attempts>>)
    BY <1>3 DEF Flush
  <2>2. /\ queue' \in Seq(Writes)
        /\ stage' \in {"off", "starting", "up", "draining", "stopping", "exiting"}
        /\ timer' \in {"none", "armed", "waiting"}
        /\ attempts' \in 0..MaxAttempts
    BY <2>1, SettleQueue, SettleAttempts DEF AttemptLeft, TypeOK, Writes
  <2>3. row' \in [status : {"none", "READY", "DEGRADED", "STOPPING"}, bad : SUBSET Components]
    BY <1>3, HeadTail DEF Flush, Row, TypeOK, Writes
  <2>4. pending' \in SUBSET Components /\ owed' \in BOOLEAN /\ faults' \in 0..MaxFaults
    BY <1>3, HeadTail, ReadinessAssumption DEF Flush, Faulty, TypeOK, Writes
  <2> QED
    BY <1>3, <2>2, <2>3, <2>4 DEF Flush, TypeOK, Writes
<1>4. CASE WriteFirst
  <2>1. queue # <<>> /\ (Settle(TRUE) \/ UNCHANGED <<stage, timer, queue, attempts>>)
    BY <1>4 DEF WriteFirst
  <2>2. /\ queue' \in Seq(Writes)
        /\ stage' \in {"off", "starting", "up", "draining", "stopping", "exiting"}
        /\ timer' \in {"none", "armed", "waiting"}
        /\ attempts' \in 0..MaxAttempts
    BY <2>1, SettleQueue, SettleAttempts DEF AttemptLeft, TypeOK, Writes
  <2>3. row' \in [status : {"none", "READY", "DEGRADED", "STOPPING"}, bad : SUBSET Components]
    BY <1>4, HeadTail DEF WriteFirst, Row, TypeOK, Writes
  <2>4. pending' \in SUBSET Components /\ owed' \in BOOLEAN /\ faults' \in 0..MaxFaults
    BY <1>4, HeadTail, ReadinessAssumption DEF WriteFirst, Faulty, TypeOK, Writes
  <2> QED
    BY <1>4, <2>2, <2>3, <2>4 DEF WriteFirst, TypeOK, Writes
<1>5. CASE FlushFails
  <2>1. queue # <<>> /\ (Settle(FALSE) \/ UNCHANGED <<stage, timer, queue, attempts>>)
    BY <1>5 DEF FlushFails
  <2>2. /\ queue' \in Seq(Writes)
        /\ stage' \in {"off", "starting", "up", "draining", "stopping", "exiting"}
        /\ timer' \in {"none", "armed", "waiting"}
        /\ attempts' \in 0..MaxAttempts
    BY <2>1, SettleQueue, SettleAttempts DEF AttemptLeft, TypeOK, Writes
  <2>3. row' \in [status : {"none", "READY", "DEGRADED", "STOPPING"}, bad : SUBSET Components]
    BY <1>5, HeadTail DEF FlushFails, Row, TypeOK, Writes
  <2>4. pending' \in SUBSET Components /\ owed' \in BOOLEAN /\ faults' \in 0..MaxFaults
    BY <1>5, HeadTail, ReadinessAssumption DEF FlushFails, Faulty, TypeOK, Writes
  <2> QED
    BY <1>5, <2>2, <2>3, <2>4 DEF FlushFails, TypeOK, Writes
<1>6. CASE WriteFails
  <2>1. queue # <<>> /\ (Settle(FALSE) \/ UNCHANGED <<stage, timer, queue, attempts>>)
    BY <1>6 DEF WriteFails
  <2>2. /\ queue' \in Seq(Writes)
        /\ stage' \in {"off", "starting", "up", "draining", "stopping", "exiting"}
        /\ timer' \in {"none", "armed", "waiting"}
        /\ attempts' \in 0..MaxAttempts
    BY <2>1, SettleQueue, SettleAttempts DEF AttemptLeft, TypeOK, Writes
  <2>3. row' \in [status : {"none", "READY", "DEGRADED", "STOPPING"}, bad : SUBSET Components]
    BY <1>6, HeadTail DEF WriteFails, Row, TypeOK, Writes
  <2>4. pending' \in SUBSET Components /\ owed' \in BOOLEAN /\ faults' \in 0..MaxFaults
    BY <1>6, HeadTail, ReadinessAssumption DEF WriteFails, Faulty, TypeOK, Writes
  <2> QED
    BY <1>6, <2>2, <2>3, <2>4 DEF WriteFails, TypeOK, Writes
<1>7. CASE Shutdown
  BY <1>7 DEF Shutdown, TypeOK, MaxAttempts
<1>8. CASE StopHeartbeat
  BY <1>8 DEF StopHeartbeat, TypeOK, MaxAttempts
<1>9. CASE StopAttempt
  <2>1. Write("STOPPING", bad, "stop") \in Writes
    BY DEF Write, Writes, TypeOK
  <2>2. queue' \in Seq(Writes)
    BY <1>9, <2>1 DEF StopAttempt
  <2> QED
    BY <1>9, <2>2 DEF StopAttempt, TypeOK, Writes, Row, NoRow
<1>10. CASE Exit
  BY <1>10, ReadinessAssumption DEF Exit, Vanish, TypeOK, MaxAttempts
<1>11. CASE Crash
  BY <1>11, ReadinessAssumption DEF Crash, Vanish, TypeOK, MaxAttempts
<1>12. ASSUME NEW c \in Components, Report(c)
      PROVE  TypeOK'
  <2>1. bad' \in SUBSET Components
    BY <1>12 DEF Report, TypeOK
  <2>2. queue' \in Seq(Writes)
    BY <1>12, <2>1, Queued, RecordedWrite DEF Report, Recorded, TypeOK, Writes
  <2> QED
    BY <1>12, <2>1, <2>2 DEF Report, TypeOK, Writes
<1>13. ASSUME NEW c \in Components, StopComponent(c)
      PROVE  TypeOK'
  <2>1. bad' \in SUBSET Components
    BY <1>13 DEF StopComponent, TypeOK
  <2>2. queue' \in Seq(Writes)
    BY <1>13, <2>1, Queued, RecordedWrite DEF StopComponent, Recorded, TypeOK, Writes
  <2> QED
    BY <1>13, <2>1, <2>2 DEF StopComponent, TypeOK, Writes
<1>14. CASE UNCHANGED vars
  BY <1>14 DEF TypeOK, vars, procVars
<1> QED
  BY <1>1, <1>2, <1>3, <1>4, <1>5, <1>6, <1>7, <1>8, <1>9, <1>10, <1>11, <1>12, <1>13, <1>14 DEF Next

\* An armed timer belongs to a worker that is up.
LEMMA TimerStep ==
    ASSUME TypeOK, QueueShape, TimerStage, [Next]_vars
    PROVE  TimerStage'
<1>1. CASE Begin
  BY <1>1 DEF Begin, Vanish, TimerStage, TypeOK
<1>2. CASE Beat
  BY <1>2 DEF Beat, Vanish, TimerStage, TypeOK
<1>3. CASE Flush
  <2>1. queue # <<>> /\ (Settle(TRUE) \/ UNCHANGED <<stage, timer, queue, attempts>>)
    BY <1>3 DEF Flush
  <2> QED
    BY <2>1, SettleTimer DEF TimerStage
<1>4. CASE WriteFirst
  <2>1. queue # <<>> /\ (Settle(TRUE) \/ UNCHANGED <<stage, timer, queue, attempts>>)
    BY <1>4 DEF WriteFirst
  <2> QED
    BY <2>1, SettleTimer DEF TimerStage
<1>5. CASE FlushFails
  <2>1. queue # <<>> /\ (Settle(FALSE) \/ UNCHANGED <<stage, timer, queue, attempts>>)
    BY <1>5 DEF FlushFails
  <2> QED
    BY <2>1, SettleTimer DEF TimerStage
<1>6. CASE WriteFails
  <2>1. queue # <<>> /\ (Settle(FALSE) \/ UNCHANGED <<stage, timer, queue, attempts>>)
    BY <1>6 DEF WriteFails
  <2> QED
    BY <2>1, SettleTimer DEF TimerStage
<1>7. CASE Shutdown
  BY <1>7 DEF Shutdown, Vanish, TimerStage, TypeOK
<1>8. CASE StopHeartbeat
  BY <1>8 DEF StopHeartbeat, Vanish, TimerStage, TypeOK
<1>9. CASE StopAttempt
  BY <1>9 DEF StopAttempt, Vanish, TimerStage, TypeOK
<1>10. CASE Exit
  BY <1>10 DEF Exit, Vanish, TimerStage, TypeOK
<1>11. CASE Crash
  BY <1>11 DEF Crash, Vanish, TimerStage, TypeOK
<1>12. ASSUME NEW c \in Components, Report(c)
      PROVE  TimerStage'
  BY <1>12 DEF Report, Vanish, TimerStage, TypeOK
<1>13. ASSUME NEW c \in Components, StopComponent(c)
      PROVE  TimerStage'
  BY <1>13 DEF StopComponent, Vanish, TimerStage, TypeOK
<1>14. CASE UNCHANGED vars
  BY <1>14 DEF TimerStage, vars, procVars
<1> QED
  BY <1>1, <1>2, <1>3, <1>4, <1>5, <1>6, <1>7, <1>8, <1>9, <1>10, <1>11, <1>12, <1>13, <1>14 DEF Next

\* The shape of the queue.
LEMMA ShapeStep ==
    ASSUME TypeOK, QueueShape, TimerStage, [Next]_vars
    PROVE  QueueShape'
<1>1. CASE Begin
  BY <1>1 DEF Begin, QueueShape, Write
<1>2. CASE Beat
  <2>1. CASE UNCHANGED queue
    BY <1>2, <2>1 DEF Beat, QueueShape
  <2>2. CASE queue' = Recorded(bad, "timer")
    <3> DEFINE w == Write(Status(bad), bad, "timer")
    <3>1. w \in Writes /\ queue' = Append(queue, w)
      BY <1>2, <2>2, RecordedWrite DEF Beat, Recorded, TypeOK
    <3>2. w.by = "timer" /\ w.status # "STOPPING" /\ (w.status = "DEGRADED" => w.bad # {})
      BY DEF Write, Status
    <3>3. stage' = stage /\ stage \in {"up", "draining"}
      BY <1>2, <2>2, <3>1, Queued DEF TimerStage, Beat
    <3> HIDE DEF w
    <3>4. \A i \in 1..Len(queue) : queue[i].by \notin {"start", "stop"}
      BY <3>3 DEF QueueShape
    <3>5. \A i \in 1..Len(queue') : queue'[i] = w \/ (i \in 1..Len(queue) /\ queue'[i] = queue[i])
      BY <3>1, Queued
    <3> QED
      BY <3>2, <3>3, <3>4, <3>5 DEF QueueShape
  <2> QED
    BY <1>2, <2>1, <2>2 DEF Beat
<1>3. CASE Flush
  <2>1. queue # <<>> /\ (Settle(TRUE) \/ UNCHANGED <<stage, timer, queue, attempts>>)
    BY <1>3 DEF Flush
  <2>2. CASE Settle(TRUE)
    BY <2>1, <2>2, SettleQueue
  <2>3. CASE UNCHANGED <<stage, timer, queue, attempts>>
    BY <2>3 DEF QueueShape
  <2> QED
    BY <2>1, <2>2, <2>3
<1>4. CASE WriteFirst
  <2>1. queue # <<>> /\ (Settle(TRUE) \/ UNCHANGED <<stage, timer, queue, attempts>>)
    BY <1>4 DEF WriteFirst
  <2>2. CASE Settle(TRUE)
    BY <2>1, <2>2, SettleQueue
  <2>3. CASE UNCHANGED <<stage, timer, queue, attempts>>
    BY <2>3 DEF QueueShape
  <2> QED
    BY <2>1, <2>2, <2>3
<1>5. CASE FlushFails
  <2>1. queue # <<>> /\ (Settle(FALSE) \/ UNCHANGED <<stage, timer, queue, attempts>>)
    BY <1>5 DEF FlushFails
  <2>2. CASE Settle(FALSE)
    BY <2>1, <2>2, SettleQueue
  <2>3. CASE UNCHANGED <<stage, timer, queue, attempts>>
    BY <2>3 DEF QueueShape
  <2> QED
    BY <2>1, <2>2, <2>3
<1>6. CASE WriteFails
  <2>1. queue # <<>> /\ (Settle(FALSE) \/ UNCHANGED <<stage, timer, queue, attempts>>)
    BY <1>6 DEF WriteFails
  <2>2. CASE Settle(FALSE)
    BY <2>1, <2>2, SettleQueue
  <2>3. CASE UNCHANGED <<stage, timer, queue, attempts>>
    BY <2>3 DEF QueueShape
  <2> QED
    BY <2>1, <2>2, <2>3
<1>7. CASE Shutdown
  BY <1>7 DEF Shutdown, Vanish, QueueShape
<1>8. CASE StopHeartbeat
  BY <1>8 DEF StopHeartbeat, Vanish, QueueShape
<1>9. CASE StopAttempt
  BY <1>9 DEF StopAttempt, QueueShape, Write
<1>10. CASE Exit
  BY <1>10 DEF Exit, Vanish, QueueShape
<1>11. CASE Crash
  BY <1>11 DEF Crash, Vanish, QueueShape
<1>12. ASSUME NEW c \in Components, Report(c)
      PROVE  QueueShape'
  <2>1. CASE UNCHANGED queue
    BY <1>12, <2>1 DEF Report, QueueShape
  <2>2. CASE queue' = Recorded(bad', "report")
    <3> DEFINE w == Write(Status(bad'), bad', "report")
    <3>1. w \in Writes /\ queue' = Append(queue, w)
      BY <1>12, <2>2, RecordedWrite DEF Report, Recorded, TypeOK
    <3>2. w.by = "report" /\ w.status # "STOPPING" /\ (w.status = "DEGRADED" => w.bad # {})
      BY DEF Write, Status
    <3>3. stage' = stage /\ stage \in {"up", "draining"}
      BY <1>12, <2>2, <3>1, Queued DEF TimerStage, Report
    <3> HIDE DEF w
    <3>4. \A i \in 1..Len(queue) : queue[i].by \notin {"start", "stop"}
      BY <3>3 DEF QueueShape
    <3>5. \A i \in 1..Len(queue') : queue'[i] = w \/ (i \in 1..Len(queue) /\ queue'[i] = queue[i])
      BY <3>1, Queued
    <3> QED
      BY <3>2, <3>3, <3>4, <3>5 DEF QueueShape
  <2> QED
    BY <1>12, <2>1, <2>2 DEF Report
<1>13. ASSUME NEW c \in Components, StopComponent(c)
      PROVE  QueueShape'
  <2>1. CASE UNCHANGED queue
    BY <1>13, <2>1 DEF StopComponent, QueueShape
  <2>2. CASE queue' = Recorded(bad', "report")
    <3> DEFINE w == Write(Status(bad'), bad', "report")
    <3>1. w \in Writes /\ queue' = Append(queue, w)
      BY <1>13, <2>2, RecordedWrite DEF StopComponent, Recorded, TypeOK
    <3>2. w.by = "report" /\ w.status # "STOPPING" /\ (w.status = "DEGRADED" => w.bad # {})
      BY DEF Write, Status
    <3>3. stage' = stage /\ stage \in {"up", "draining"}
      BY <1>13, <2>2, <3>1, Queued DEF TimerStage, StopComponent
    <3> HIDE DEF w
    <3>4. \A i \in 1..Len(queue) : queue[i].by \notin {"start", "stop"}
      BY <3>3 DEF QueueShape
    <3>5. \A i \in 1..Len(queue') : queue'[i] = w \/ (i \in 1..Len(queue) /\ queue'[i] = queue[i])
      BY <3>1, Queued
    <3> QED
      BY <3>2, <3>3, <3>4, <3>5 DEF QueueShape
  <2> QED
    BY <1>13, <2>1, <2>2 DEF StopComponent
<1>14. CASE UNCHANGED vars
  BY <1>14 DEF QueueShape, vars, procVars
<1> QED
  BY <1>1, <1>2, <1>3, <1>4, <1>5, <1>6, <1>7, <1>8, <1>9, <1>10, <1>11, <1>12, <1>13, <1>14 DEF Next

\* What is owed is pending.
LEMMA OwedStep ==
    ASSUME TypeOK, QueueShape, OwedIsPending, [Next]_vars
    PROVE  OwedIsPending'
<1>1. CASE Begin
  BY <1>1 DEF Begin, Vanish, OwedIsPending
<1>2. CASE Beat
  BY <1>2 DEF Beat, Vanish, OwedIsPending
<1>3. CASE Flush
  BY <1>3 DEF Flush, OwedIsPending, QueueShape
<1>4. CASE WriteFirst
  <2>1. stage # "off" /\ ~owed
    BY <1>4 DEF WriteFirst, QueueShape, OwedIsPending
  <2>2. Head(queue).status = "DEGRADED" => Head(queue).bad # {}
    BY <1>4, HeadTail DEF WriteFirst, QueueShape
  <2> QED
    BY <1>4, <2>1, <2>2 DEF WriteFirst, OwedIsPending
<1>5. CASE FlushFails
  BY <1>5 DEF FlushFails, OwedIsPending, QueueShape
<1>6. CASE WriteFails
  <2>1. stage # "off" /\ ~owed
    BY <1>6 DEF WriteFails, QueueShape, OwedIsPending
  <2>2. Head(queue).status = "DEGRADED" => Head(queue).bad # {}
    BY <1>6, HeadTail DEF WriteFails, QueueShape
  <2> QED
    BY <1>6, <2>1, <2>2 DEF WriteFails, OwedIsPending
<1>7. CASE Shutdown
  BY <1>7 DEF Shutdown, Vanish, OwedIsPending
<1>8. CASE StopHeartbeat
  BY <1>8 DEF StopHeartbeat, Vanish, OwedIsPending
<1>9. CASE StopAttempt
  BY <1>9 DEF StopAttempt, Vanish, OwedIsPending
<1>10. CASE Exit
  BY <1>10 DEF Exit, Vanish, OwedIsPending
<1>11. CASE Crash
  BY <1>11 DEF Crash, Vanish, OwedIsPending
<1>12. ASSUME NEW c \in Components, Report(c)
      PROVE  OwedIsPending'
  BY <1>12 DEF Report, Vanish, OwedIsPending
<1>13. ASSUME NEW c \in Components, StopComponent(c)
      PROVE  OwedIsPending'
  BY <1>13 DEF StopComponent, Vanish, OwedIsPending
<1>14. CASE UNCHANGED vars
  BY <1>14 DEF OwedIsPending, vars, procVars
<1> QED
  BY <1>1, <1>2, <1>3, <1>4, <1>5, <1>6, <1>7, <1>8, <1>9, <1>10, <1>11, <1>12, <1>13, <1>14 DEF Next

\* Nothing but STOPPING follows STOPPING.
LEMMA AfterStep ==
    ASSUME TypeOK, QueueShape, TimerStage, NothingAfter, [Next]_vars
    PROVE  NothingAfter'
<1>1. CASE Begin
  BY <1>1 DEF Begin, NothingAfter, NoRow, Row
<1>2. CASE Beat
  BY <1>2 DEF Beat, NothingAfter, TimerStage
<1>3. CASE Flush
  BY <1>3 DEF Flush, Row, NothingAfter
<1>4. CASE WriteFirst
  <2> SUFFICES ASSUME row'.status = "STOPPING"
               PROVE  NothingAfter'
    BY DEF NothingAfter
  <2>1. Head(queue).status = "STOPPING"
    BY <1>4, HeadTail DEF WriteFirst, Row, NothingAfter, QueueShape
  <2>2. stage' \in {"stopping", "exiting"} /\ queue' = <<>> /\ Len(queue') = 0
    BY <1>4, <2>1, HeadIsStop DEF WriteFirst
  <2>3. pending' = {}
    BY <1>4, <2>1 DEF WriteFirst
  <2> QED
    BY <2>2, <2>3 DEF NothingAfter
<1>5. CASE FlushFails
  <2>1. row'.status # "STOPPING"
    BY <1>5 DEF FlushFails, Row, NothingAfter
  <2> QED
    BY <2>1 DEF NothingAfter
<1>6. CASE WriteFails
  <2> SUFFICES ASSUME row'.status = "STOPPING"
               PROVE  NothingAfter'
    BY DEF NothingAfter
  <2>1. Head(queue).status = "STOPPING"
    BY <1>6, HeadTail DEF WriteFails, Row, NothingAfter, QueueShape
  <2>2. stage' \in {"stopping", "exiting"} /\ queue' = <<>> /\ Len(queue') = 0
    BY <1>6, <2>1, HeadIsStop DEF WriteFails
  <2>3. pending' = {}
    BY <1>6, <2>1 DEF WriteFails
  <2> QED
    BY <2>2, <2>3 DEF NothingAfter
<1>7. CASE Shutdown
  BY <1>7 DEF Shutdown, Vanish, NothingAfter
<1>8. CASE StopHeartbeat
  BY <1>8 DEF StopHeartbeat, Vanish, NothingAfter
<1>9. CASE StopAttempt
  BY <1>9 DEF StopAttempt, NothingAfter, Write
<1>10. CASE Exit
  BY <1>10 DEF Exit, Vanish, NothingAfter
<1>11. CASE Crash
  BY <1>11 DEF Crash, Vanish, NothingAfter
<1>12. ASSUME NEW c \in Components, Report(c)
      PROVE  NothingAfter'
  BY <1>12 DEF Report, Vanish, NothingAfter
<1>13. ASSUME NEW c \in Components, StopComponent(c)
      PROVE  NothingAfter'
  BY <1>13 DEF StopComponent, Vanish, NothingAfter
<1>14. CASE UNCHANGED vars
  BY <1>14 DEF NothingAfter, vars, procVars
<1> QED
  BY <1>1, <1>2, <1>3, <1>4, <1>5, <1>6, <1>7, <1>8, <1>9, <1>10, <1>11, <1>12, <1>13, <1>14 DEF Next

\* The heartbeat goes on.
LEMMA HeartbeatStep ==
    ASSUME TypeOK, QueueShape, TimerStage, HeartbeatGoesOn, [Next]_vars
    PROVE  HeartbeatGoesOn'
<1>1. CASE Begin
  BY <1>1 DEF Begin, Vanish, HeartbeatGoesOn, QueueShape
<1>2. CASE Beat
  <2>1. CASE UNCHANGED queue
    BY <1>2, <2>1, Queued, RecordedWrite DEF Beat, Recorded, HeartbeatGoesOn, TypeOK
  <2>2. CASE queue' = Recorded(bad, "timer")
    <3> DEFINE w == Write(Status(bad), bad, "timer")
    <3>1. w \in Writes /\ queue' = Append(queue, w)
      BY <1>2, <2>2, RecordedWrite DEF Beat, Recorded, TypeOK
    <3>2. w.by = "timer" /\ stage' = stage
      BY <1>2 DEF Write, Beat
    <3> HIDE DEF w
    <3>3. /\ \A i \in 1..Len(queue) : queue'[i] = queue[i] /\ i \in 1..Len(queue')
          /\ queue'[Len(queue) + 1] = w /\ Len(queue) + 1 \in 1..Len(queue')
      BY <3>1, Queued
    <3> QED
      BY <1>2, <3>2, <3>3 DEF Beat, HeartbeatGoesOn
  <2> QED
    BY <1>2, <2>1, <2>2 DEF Beat
<1>3. CASE Flush
  <2>1. queue # <<>> /\ (Settle(TRUE) \/ UNCHANGED <<stage, timer, queue, attempts>>)
    BY <1>3 DEF Flush
  <2> QED
    BY <2>1, SettleHeartbeat DEF HeartbeatGoesOn
<1>4. CASE WriteFirst
  <2>1. queue # <<>> /\ (Settle(TRUE) \/ UNCHANGED <<stage, timer, queue, attempts>>)
    BY <1>4 DEF WriteFirst
  <2> QED
    BY <2>1, SettleHeartbeat DEF HeartbeatGoesOn
<1>5. CASE FlushFails
  <2>1. queue # <<>> /\ (Settle(FALSE) \/ UNCHANGED <<stage, timer, queue, attempts>>)
    BY <1>5 DEF FlushFails
  <2> QED
    BY <2>1, SettleHeartbeat DEF HeartbeatGoesOn
<1>6. CASE WriteFails
  <2>1. queue # <<>> /\ (Settle(FALSE) \/ UNCHANGED <<stage, timer, queue, attempts>>)
    BY <1>6 DEF WriteFails
  <2> QED
    BY <2>1, SettleHeartbeat DEF HeartbeatGoesOn
<1>7. CASE Shutdown
  BY <1>7 DEF Shutdown, Vanish, HeartbeatGoesOn, QueueShape
<1>8. CASE StopHeartbeat
  BY <1>8 DEF StopHeartbeat, Vanish, HeartbeatGoesOn, QueueShape
<1>9. CASE StopAttempt
  BY <1>9 DEF StopAttempt, Vanish, HeartbeatGoesOn, QueueShape
<1>10. CASE Exit
  BY <1>10 DEF Exit, Vanish, HeartbeatGoesOn, QueueShape
<1>11. CASE Crash
  BY <1>11 DEF Crash, Vanish, HeartbeatGoesOn, QueueShape
<1>12. ASSUME NEW c \in Components, Report(c)
      PROVE  HeartbeatGoesOn'
  <2>1. CASE UNCHANGED queue
    BY <1>12, <2>1, Queued, RecordedWrite DEF Report, Recorded, HeartbeatGoesOn, TypeOK
  <2>2. CASE queue' = Recorded(bad', "report")
    <3> DEFINE w == Write(Status(bad'), bad', "report")
    <3>1. w \in Writes /\ queue' = Append(queue, w)
      BY <1>12, <2>2, RecordedWrite DEF Report, Recorded, TypeOK
    <3>2. w.by = "report" /\ stage' = stage
      BY <1>12 DEF Write, Report
    <3> HIDE DEF w
    <3>3. /\ \A i \in 1..Len(queue) : queue'[i] = queue[i] /\ i \in 1..Len(queue')
          /\ queue'[Len(queue) + 1] = w /\ Len(queue) + 1 \in 1..Len(queue')
      BY <3>1, Queued
    <3> QED
      BY <1>12, <3>2, <3>3 DEF Report, HeartbeatGoesOn
  <2> QED
    BY <1>12, <2>1, <2>2 DEF Report
<1>13. ASSUME NEW c \in Components, StopComponent(c)
      PROVE  HeartbeatGoesOn'
  <2>1. CASE UNCHANGED queue
    BY <1>13, <2>1, Queued, RecordedWrite DEF StopComponent, Recorded, HeartbeatGoesOn, TypeOK
  <2>2. CASE queue' = Recorded(bad', "report")
    <3> DEFINE w == Write(Status(bad'), bad', "report")
    <3>1. w \in Writes /\ queue' = Append(queue, w)
      BY <1>13, <2>2, RecordedWrite DEF StopComponent, Recorded, TypeOK
    <3>2. w.by = "report" /\ stage' = stage
      BY <1>13 DEF Write, StopComponent
    <3> HIDE DEF w
    <3>3. /\ \A i \in 1..Len(queue) : queue'[i] = queue[i] /\ i \in 1..Len(queue')
          /\ queue'[Len(queue) + 1] = w /\ Len(queue) + 1 \in 1..Len(queue')
      BY <3>1, Queued
    <3> QED
      BY <1>13, <3>2, <3>3 DEF StopComponent, HeartbeatGoesOn
  <2> QED
    BY <1>13, <2>1, <2>2 DEF StopComponent
<1>14. CASE UNCHANGED vars
  BY <1>14 DEF HeartbeatGoesOn, vars, procVars
<1> QED
  BY <1>1, <1>2, <1>3, <1>4, <1>5, <1>6, <1>7, <1>8, <1>9, <1>10, <1>11, <1>12, <1>13, <1>14 DEF Next

\* No step records READY while a DEGRADED is owed.
LEMMA StickyStep ==
    ASSUME QueueShape, OwedIsPending, [Next]_vars
    PROVE  owed /\ row' # row => row'.status # "READY"
<1>1. CASE Begin
  BY <1>1 DEF Begin, Row, NoRow, Vanish
<1>2. CASE Beat
  BY <1>2 DEF Beat, Row, NoRow, Vanish
<1>3. CASE Flush
  BY <1>3 DEF Flush, Row, NoRow, Vanish
<1>4. CASE WriteFirst
  <2>1. ~owed
    BY <1>4 DEF WriteFirst, QueueShape, OwedIsPending
  <2> QED
    BY <2>1
<1>5. CASE FlushFails
  BY <1>5 DEF FlushFails, Row, NoRow, Vanish
<1>6. CASE WriteFails
  <2>1. ~owed
    BY <1>6 DEF WriteFails, QueueShape, OwedIsPending
  <2> QED
    BY <2>1
<1>7. CASE Shutdown
  BY <1>7 DEF Shutdown, Row, NoRow, Vanish
<1>8. CASE StopHeartbeat
  BY <1>8 DEF StopHeartbeat, Row, NoRow, Vanish
<1>9. CASE StopAttempt
  BY <1>9 DEF StopAttempt, Row, NoRow, Vanish
<1>10. CASE Exit
  BY <1>10 DEF Exit, Row, NoRow, Vanish
<1>11. CASE Crash
  BY <1>11 DEF Crash, Row, NoRow, Vanish
<1>12. ASSUME NEW c \in Components, Report(c)
      PROVE  owed /\ row' # row => row'.status # "READY"
  BY <1>12 DEF Report, Row, NoRow, Vanish
<1>13. ASSUME NEW c \in Components, StopComponent(c)
      PROVE  owed /\ row' # row => row'.status # "READY"
  BY <1>13 DEF StopComponent, Row, NoRow, Vanish
<1>14. CASE UNCHANGED vars
  BY <1>14 DEF vars
<1> QED
  BY <1>1, <1>2, <1>3, <1>4, <1>5, <1>6, <1>7, <1>8, <1>9, <1>10, <1>11, <1>12, <1>13, <1>14 DEF Next

\* No step of an instance replaces STOPPING.
LEMMA LastStep ==
    ASSUME TypeOK, QueueShape, NothingAfter, [Next]_vars
    PROVE  row.status = "STOPPING" => row'.status = "STOPPING" \/ Begin
<1>1. CASE Begin
  BY <1>1
<1>2. CASE Beat
  BY <1>2 DEF Beat, Vanish
<1>3. CASE Flush
  BY <1>3 DEF Flush, NothingAfter
<1>4. CASE WriteFirst
  <2>1. row.status = "STOPPING" => Head(queue).status = "STOPPING"
    BY <1>4, HeadTail DEF WriteFirst, QueueShape, NothingAfter
  <2> QED
    BY <1>4, <2>1 DEF WriteFirst, Row
<1>5. CASE FlushFails
  BY <1>5 DEF FlushFails, NothingAfter
<1>6. CASE WriteFails
  <2>1. row.status = "STOPPING" => Head(queue).status = "STOPPING"
    BY <1>6, HeadTail DEF WriteFails, QueueShape, NothingAfter
  <2> QED
    BY <1>6, <2>1 DEF WriteFails, Row
<1>7. CASE Shutdown
  BY <1>7 DEF Shutdown, Vanish
<1>8. CASE StopHeartbeat
  BY <1>8 DEF StopHeartbeat, Vanish
<1>9. CASE StopAttempt
  BY <1>9 DEF StopAttempt, Vanish
<1>10. CASE Exit
  BY <1>10 DEF Exit, Vanish
<1>11. CASE Crash
  BY <1>11 DEF Crash, Vanish
<1>12. ASSUME NEW c \in Components, Report(c)
      PROVE  row.status = "STOPPING" => row'.status = "STOPPING" \/ Begin
  BY <1>12 DEF Report, Vanish
<1>13. ASSUME NEW c \in Components, StopComponent(c)
      PROVE  row.status = "STOPPING" => row'.status = "STOPPING" \/ Begin
  BY <1>13 DEF StopComponent, Vanish
<1>14. CASE UNCHANGED vars
  BY <1>14 DEF vars
<1> QED
  BY <1>1, <1>2, <1>3, <1>4, <1>5, <1>6, <1>7, <1>8, <1>9, <1>10, <1>11, <1>12, <1>13, <1>14 DEF Next

-----------------------------------------------------------------------------

\* The invariant that the three properties follow from: the timer, the queue,
\* the pending write and the recorded row agree on the stage of the process.
THEOREM Readiness == Spec => []ReadinessInv
<1>1. Init => ReadinessInv
  <2> SUFFICES ASSUME Init
               PROVE  ReadinessInv
    OBVIOUS
  <2> USE DEF Init
  <2>1. TypeOK
    <3>1. queue \in Seq(Writes)
      OBVIOUS
    <3>2. attempts \in 0..MaxAttempts /\ faults \in 0..MaxFaults /\ crashes \in 0..MaxCrashes
      BY ReadinessAssumption DEF MaxAttempts
    <3>3. row \in [status : {"none", "READY", "DEGRADED", "STOPPING"}, bad : SUBSET Components]
      BY DEF NoRow, Row
    <3> QED
      BY <3>1, <3>2, <3>3 DEF TypeOK, Writes
  <2>2. QueueShape /\ TimerStage /\ AttemptLeft
    BY DEF QueueShape, TimerStage, AttemptLeft
  <2>3. OwedIsPending /\ NothingAfter /\ HeartbeatGoesOn
    BY DEF OwedIsPending, NothingAfter, HeartbeatGoesOn, NoRow, Row
  <2> QED
    BY <2>1, <2>2, <2>3 DEF ReadinessInv
<1>2. ReadinessInv /\ [Next]_vars => ReadinessInv'
  BY AttemptsStep, TypeStep, TimerStep, ShapeStep, OwedStep, AfterStep, HeartbeatStep
     DEF ReadinessInv
<1> QED
  BY <1>1, <1>2, PTL DEF Spec

\* The types (TypeOK).
THEOREM Types == Spec => []TypeOK
<1>1. ReadinessInv => TypeOK
  BY DEF ReadinessInv
<1> QED
  BY <1>1, Readiness, PTL

\* The heartbeat of a worker that is up never stops (HeartbeatGoesOn).
THEOREM Heartbeat == Spec => []HeartbeatGoesOn
<1>1. ReadinessInv => HeartbeatGoesOn
  BY DEF ReadinessInv
<1> QED
  BY <1>1, Readiness, PTL

\* A failed DEGRADED is made up for before READY (DegradedIsSticky).
THEOREM Sticky == Spec => DegradedIsSticky
<1>1. ReadinessInv /\ [Next]_vars => [owed /\ row' # row => row'.status # "READY"]_vars
  BY StickyStep DEF ReadinessInv
<1> QED
  BY <1>1, Readiness, PTL DEF Spec, DegradedIsSticky

\* STOPPING is the last record of an instance (StoppingIsLast).
THEOREM Last == Spec => StoppingIsLast
<1>1. ReadinessInv /\ [Next]_vars
        => [row.status = "STOPPING" => row'.status = "STOPPING" \/ Begin]_vars
  BY LastStep DEF ReadinessInv
<1> QED
  BY <1>1, Readiness, PTL DEF Spec, StoppingIsLast
=============================================================================
