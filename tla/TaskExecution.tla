---------------------------- MODULE TaskExecution ----------------------------
(***************************************************************************)
(* What the agent orchestrator promises about an assigned task, whichever  *)
(* processes, activations and polls work on it: the provider's use is      *)
(* reserved at most once, and only after the task was started; a task goes *)
(* back to the queue only if it was never reserved for; it is completed    *)
(* only on a settled use; and what is canceled stays canceled.             *)
(*                                                                         *)
(* A use may be reserved and settled for a task that has failed or was     *)
(* canceled meanwhile, and a cancellation that read the task before it     *)
(* finished overwrites how it finished.                                    *)
(***************************************************************************)
CONSTANT Tasks

VARIABLES
    status,    \* status[t]: "none" until t is assigned
    usage      \* usage[t]: the one use of the provider for t

vars == <<status, usage>>

Init ==
    /\ status = [t \in Tasks |-> "none"]
    /\ usage = [t \in Tasks |-> "none"]

Turns(t, from, to) == status[t] \in from /\ status' = [status EXCEPT ![t] = to]
Books(t, from, to) == usage[t] = from /\ usage' = [usage EXCEPT ![t] = to]

Submit(t)   == Turns(t, {"none"}, "queued") /\ UNCHANGED usage
Begin(t)    == Turns(t, {"queued"}, "running") /\ UNCHANGED usage
GiveBack(t) == usage[t] = "none" /\ Turns(t, {"running"}, "queued") /\ UNCHANGED usage
Finish(t)   == usage[t] = "settled" /\ Turns(t, {"running"}, "completed") /\ UNCHANGED usage
GiveUp(t)   == Turns(t, {"queued", "running"}, "failed") /\ UNCHANGED usage
Cancel(t)   == /\ status[t] # "none" /\ status' = [status EXCEPT ![t] = "canceled"]
               /\ UNCHANGED usage

Book(t)   == /\ status[t] \notin {"none", "queued"}
             /\ Books(t, "none", "reserved") /\ UNCHANGED status
Charge(t) == Books(t, "reserved", "settled") /\ UNCHANGED status
Refund(t) == Books(t, "reserved", "failed") /\ UNCHANGED status

\* A task that runs for too long fails, and its open reservation with it.
Expire(t) == Turns(t, {"running"}, "failed") /\ Books(t, "reserved", "failed")

Next == \E t \in Tasks :
    \/ Submit(t) \/ Begin(t) \/ GiveBack(t) \/ Finish(t) \/ GiveUp(t) \/ Cancel(t)
    \/ Book(t) \/ Charge(t) \/ Refund(t) \/ Expire(t)

Spec == Init /\ [][Next]_vars
=============================================================================
