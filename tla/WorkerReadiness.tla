--------------------------- MODULE WorkerReadiness ---------------------------
(***************************************************************************)
(* The durable readiness of one production worker process: its components  *)
(* report changes of their health, a timer beats, and every report goes    *)
(* through one queue of writes to the instance's row.  A write of DEGRADED *)
(* that failed stays pending until it is made up for.  Shutdown stops the  *)
(* components, then records STOPPING in at most three attempts.            *)
(*                                                                         *)
(* A restarted process is a new instance with a row of its own.            *)
(***************************************************************************)
EXTENDS Integers, Sequences

CONSTANTS
    Components,
    MaxQueue,      \* bound on the writes that wait
    MaxFaults,     \* bound on failed writes
    MaxCrashes     \* bound on crashes

ASSUME ReadinessAssumption ==
    /\ MaxQueue \in Nat \ {0} /\ MaxFaults \in Nat /\ MaxCrashes \in Nat

VARIABLES
    stage,       \* life of the process
    bad,         \* components whose last report was unhealthy
    left,        \* components that have not been stopped
    timer,       \* the heartbeat's timer: "none", "armed", or "waiting" for its write
    queue,       \* writeQueue: the writes to make, the first one in flight
    pending,     \* pendingDegradedComponents, the unhealthy ones; {} for undefined
    attempts,    \* attempts at STOPPING that failed
    row,         \* the instance's heartbeat: its status and unhealthy components
    owed,        \* history: a DEGRADED write failed and none succeeded since
    faults, crashes

procVars == <<stage, bad, left, timer, queue, pending, attempts>>
vars     == <<procVars, row, owed, faults, crashes>>

Status(b)    == IF b = {} THEN "READY" ELSE "DEGRADED"
Write(st, b, by) == [status |-> st, bad |-> b, by |-> by]
Row(st, b)   == [status |-> st, bad |-> b]
NoRow        == Row("none", {})

Faulty == faults < MaxFaults /\ faults' = faults + 1

\* recordReadiness: the components as they are now.
Recorded(b, by) == Append(queue, Write(Status(b), b, by))

\* Mutant of MaxAttempts: one attempt and one retry.
TwoAttempts == 2

MaxAttempts == 3

-----------------------------------------------------------------------------

Init ==
    /\ stage = "off" /\ bad = {} /\ left = {} /\ timer = "none"
    /\ queue = <<>> /\ pending = {} /\ attempts = 0
    /\ row = NoRow /\ owed = FALSE
    /\ faults = 0 /\ crashes = 0

\* The components have started; production requires all of them healthy.
\* The first heartbeat is awaited.
Begin ==
    /\ stage = "off"
    /\ stage' = "starting" /\ bad' = {} /\ left' = Components
    /\ queue' = <<Write("READY", {}, "start")>>
    /\ row' = NoRow /\ owed' = FALSE
    /\ UNCHANGED <<timer, pending, attempts, faults, crashes>>

\* A component that has not been stopped changes its health; before the
\* first heartbeat is recorded there is no recordWorkerReadinessNow.
Report(c) ==
    /\ c \in left
    /\ bad' = IF c \in bad THEN bad \ {c} ELSE bad \cup {c}
    /\ \/ stage = "starting" /\ UNCHANGED queue
       \/ /\ stage \in {"up", "draining"} /\ Len(queue) < MaxQueue
          /\ queue' = Recorded(bad', "report")
    /\ UNCHANGED <<stage, left, timer, pending, attempts, row, owed, faults, crashes>>

\* The timer fires.
Beat ==
    /\ timer = "armed" /\ Len(queue) < MaxQueue
    /\ timer' = "waiting"
    /\ queue' = Recorded(bad, "timer")
    /\ UNCHANGED <<stage, bad, left, pending, attempts, row, owed, faults, crashes>>

-----------------------------------------------------------------------------
(* The queue of writes.                                                    *)

\* Mutant of Settle: the timer is armed again by a write that succeeds only.
SettleThen(ok) ==
    LET by == Head(queue).by IN
    /\ queue' = Tail(queue)
    /\ attempts' = IF by = "stop" /\ ~ok THEN attempts + 1 ELSE attempts
    /\ stage' = CASE by = "start" -> IF ok THEN "up" ELSE "exiting"
                  [] by = "stop" /\ (ok \/ attempts + 1 = MaxAttempts) -> "exiting"
                  [] OTHER -> stage
    /\ timer' = CASE by = "start" /\ ok -> "armed"
                  [] by = "timer" /\ ok /\ stage # "stopping" -> "armed"
                  [] OTHER -> timer

\* What waits for the first write goes on, or takes its failure.
Settle(ok) ==
    LET by == Head(queue).by IN
    /\ queue' = Tail(queue)
    /\ attempts' = IF by = "stop" /\ ~ok THEN attempts + 1 ELSE attempts
    /\ stage' = CASE by = "start" -> IF ok THEN "up" ELSE "exiting"
                  [] by = "stop" /\ (ok \/ attempts + 1 = MaxAttempts) -> "exiting"
                  [] OTHER -> stage
    /\ timer' = CASE by = "start" /\ ok -> "armed"
                  [] by = "timer" /\ stage # "stopping" -> "armed"
                  [] OTHER -> timer

\* Mutant of Flush: the pending DEGRADED is not cleared.
FlushKeeps ==
    /\ queue # <<>> /\ pending # {}
    /\ row' = Row("DEGRADED", pending)
    /\ owed' = FALSE
    /\ IF Head(queue).status = "STOPPING"
       THEN UNCHANGED <<stage, timer, queue, attempts>> ELSE Settle(TRUE)
    /\ UNCHANGED <<bad, left, pending, faults, crashes>>

\* A pending DEGRADED goes first, and in the place of the write it precedes,
\* unless that one is STOPPING.
Flush ==
    /\ queue # <<>> /\ pending # {}
    /\ row' = Row("DEGRADED", pending)
    /\ pending' = {} /\ owed' = FALSE
    /\ IF Head(queue).status = "STOPPING"
       THEN UNCHANGED <<stage, timer, queue, attempts>> ELSE Settle(TRUE)
    /\ UNCHANGED <<bad, left, faults, crashes>>

WriteFirst ==
    /\ queue # <<>> /\ pending = {}
    /\ row' = Row(Head(queue).status, Head(queue).bad)
    /\ owed' = (owed /\ Head(queue).status # "DEGRADED")
    /\ Settle(TRUE)
    /\ UNCHANGED <<bad, left, pending, faults, crashes>>

\* A write fails, committed or not.
FlushFails ==
    /\ queue # <<>> /\ pending # {} /\ Faulty
    /\ row' \in {row, Row("DEGRADED", pending)}
    /\ Settle(FALSE)
    /\ UNCHANGED <<bad, left, pending, owed, crashes>>

\* Mutant of WriteFails: a DEGRADED that failed is not remembered.
WriteForgotten ==
    /\ queue # <<>> /\ pending = {} /\ Faulty
    /\ row' \in {row, Row(Head(queue).status, Head(queue).bad)}
    /\ owed' = (owed \/ Head(queue).status = "DEGRADED")
    /\ Settle(FALSE)
    /\ UNCHANGED <<bad, left, pending, crashes>>

WriteFails ==
    /\ queue # <<>> /\ pending = {} /\ Faulty
    /\ row' \in {row, Row(Head(queue).status, Head(queue).bad)}
    /\ pending' = IF Head(queue).status = "DEGRADED" THEN Head(queue).bad ELSE {}
    /\ owed' = (owed \/ Head(queue).status = "DEGRADED")
    /\ Settle(FALSE)
    /\ UNCHANGED <<bad, left, crashes>>

-----------------------------------------------------------------------------
(* Shutdown.                                                               *)

Shutdown ==
    /\ stage = "up" /\ stage' = "draining"
    /\ UNCHANGED <<bad, left, timer, queue, pending, attempts, row, owed, faults, crashes>>

\* stopStartedComponents: a component that has stopped reports unhealthy.
StopComponent(c) ==
    /\ stage = "draining" /\ c \in left
    /\ left' = left \ {c} /\ bad' = bad \cup {c}
    /\ IF c \in bad THEN UNCHANGED queue
       ELSE Len(queue) < MaxQueue /\ queue' = Recorded(bad', "report")
    /\ UNCHANGED <<stage, timer, pending, attempts, row, owed, faults, crashes>>

\* The heartbeat is stopped: its timer is cleared, nothing new is recorded.
StopHeartbeat ==
    /\ stage = "draining" /\ left = {}
    /\ stage' = "stopping" /\ timer' = "none" /\ attempts' = 0
    /\ UNCHANGED <<bad, left, queue, pending, row, owed, faults, crashes>>

\* Mutant of StopAttempt: the write does not go through the queue.
StopAttemptFirst ==
    /\ stage = "stopping" /\ \A i \in 1..Len(queue) : queue[i].by # "stop"
    /\ queue' = <<Write("STOPPING", bad, "stop")>> \o queue
    /\ UNCHANGED <<stage, bad, left, timer, pending, attempts, row, owed, faults, crashes>>

\* One attempt: it waits for the writes before it.
StopAttempt ==
    /\ stage = "stopping" /\ queue = <<>>
    /\ queue' = <<Write("STOPPING", bad, "stop")>>
    /\ UNCHANGED <<stage, bad, left, timer, pending, attempts, row, owed, faults, crashes>>

\* The process is gone.
Vanish ==
    /\ stage' = "off" /\ timer' = "none" /\ queue' = <<>> /\ pending' = {}
    /\ left' = {} /\ attempts' = 0
    /\ UNCHANGED <<bad, row, owed, faults>>

Exit  == stage = "exiting" /\ Vanish /\ UNCHANGED crashes
Crash == stage # "off" /\ crashes < MaxCrashes /\ crashes' = crashes + 1 /\ Vanish

-----------------------------------------------------------------------------

Next ==
    \/ Begin \/ Beat \/ Flush \/ WriteFirst \/ FlushFails \/ WriteFails
    \/ Shutdown \/ StopHeartbeat \/ StopAttempt \/ Exit \/ Crash
    \/ \E c \in Components : Report(c) \/ StopComponent(c)

Spec == Init /\ [][Next]_vars

\* The timer fires, writes return, components stop, the shutdown goes on.
Fairness ==
    /\ WF_vars(Beat) /\ WF_vars(Flush) /\ WF_vars(WriteFirst)
    /\ WF_vars(StopHeartbeat) /\ WF_vars(StopAttempt) /\ WF_vars(Exit)
    /\ \A c \in Components : SF_vars(StopComponent(c))

FairSpec == Spec /\ Fairness

-----------------------------------------------------------------------------
(* Properties.                                                             *)

\* The types.
TypeOK ==
    /\ stage \in {"off", "starting", "up", "draining", "stopping", "exiting"}
    /\ bad \in SUBSET Components /\ left \in SUBSET Components
    /\ timer \in {"none", "armed", "waiting"}
    /\ queue \in Seq([status : {"READY", "DEGRADED", "STOPPING"}, bad : SUBSET Components,
                      by : {"start", "timer", "report", "stop"}])
    /\ pending \in SUBSET Components
    /\ attempts \in 0..MaxAttempts
    /\ row \in [status : {"none", "READY", "DEGRADED", "STOPPING"}, bad : SUBSET Components]
    /\ owed \in BOOLEAN
    /\ faults \in 0..MaxFaults /\ crashes \in 0..MaxCrashes

\* "A failed DEGRADED transition remains sticky for at least one successful
\* durable heartbeat before a later READY can replace it.": as long as a
\* failed DEGRADED has not been made up for, no write records READY.
DegradedIsSticky ==
    [][owed /\ row' # row => row'.status # "READY"]_vars

\* STOPPING is the last word of an instance: no heartbeat or report that was
\* under way when the shutdown began is recorded after it.
StoppingIsLast ==
    [][row.status = "STOPPING" => row'.status = "STOPPING" \/ Begin]_vars

\* Heartbeats go on as long as the worker is up: whatever writes failed and
\* in whatever order reports and beats were queued, the timer is armed or its
\* write is in the queue.
HeartbeatGoesOn ==
    stage \in {"up", "draining"} =>
        \/ timer = "armed"
        \/ timer = "waiting" /\ \E i \in 1..Len(queue) : queue[i].by = "timer"

\* When the health of a worker that stays up settles, its row settles on the
\* very components that are unhealthy, after finitely many failed writes.
RowSettles ==
    \A b \in SUBSET Components :
        <>[](stage = "up" /\ bad = b) => <>[](row = Row(Status(b), b))

\* A shutdown that is not cut off by a crash records STOPPING although two
\* writes fail on the way.
ShutdownRecorded ==
    \A n \in 0..MaxCrashes :
        stage = "draining" /\ crashes = n
            ~> row.status = "STOPPING" \/ crashes > n \/ faults > 2
=============================================================================
