---------------------------- MODULE EntityHistory ----------------------------
(***************************************************************************)
(* What the governed pause and resume of entities promises: a transition   *)
(* happens in one step, in a state in which everything the request states  *)
(* holds, and leaves behind the version it made and the action that        *)
(* explains it.  EntityLifecycle shows that the transactions of            *)
(* canonicalEntityLifecycle.ts, which read, wait and write over many       *)
(* statements, do no more than this.                                       *)
(***************************************************************************)
EXTENDS Integers, Sequences

CONSTANTS
    Entities,    \* the entities below ENTRAL
    Keys,        \* idempotency keys; a request's key also names its action
    NoKey,       \* no key: a restoration of nothing, a version without an action
    Settable     \* the statuses that other writers of the table set

Statuses == {"BUILDING", "ACTIVE", "PAUSED", "DEGRADED", "RETIRED"}
Types == {"PAUSE", "RESUME"}

ASSUME KeyAssumption == NoKey \notin Keys
ASSUME SettableAssumption == Settable \subseteq Statuses

VARIABLES
    log,         \* entity_versions: per entity, the sequence of its versions
    action       \* governance_actions

historyVars == <<log, action>>

\* A row of entity_versions: the status, and the action that wrote it.
Versions == [status : Statuses, by : Keys \cup {NoKey}]

\* entities.version and entities.status.
Version(e) == Len(log[e])
Status(e) == log[e][Len(log[e])].status

Requests ==
    [key : Keys, type : Types, target : Entities, version : Nat \ {0},
     previous : Statuses, restores : Keys \cup {NoKey}]

NextStatus(type) == IF type = "PAUSE" THEN "PAUSED" ELSE "ACTIVE"
Opposite(type) == IF type = "PAUSE" THEN "RESUME" ELSE "PAUSE"

NoAction == [state |-> "NONE"]

\* A completed action: the request with the state it found and the state it left.
Actions ==
    [state : {"SUCCEEDED", "ROLLED_BACK"}, request : Requests, before : Statuses,
     beforeVersion : Nat \ {0}, after : Statuses, afterVersion : Nat \ {0}]

Action(r) ==
    [state |-> "SUCCEEDED", request |-> r,
     before |-> Status(r.target), beforeVersion |-> Version(r.target),
     after |-> NextStatus(r.type), afterVersion |-> Version(r.target) + 1]

Pausable == {"ACTIVE", "DEGRADED"}

\* What the request says of its target is the case.
Applies(r) ==
    /\ Version(r.target) = r.version
    /\ Status(r.target) = r.previous
    /\ Status(r.target) \in IF r.type = "PAUSE" THEN Pausable ELSE {"PAUSED"}

\* The action to restore is a completed opposite one for the same entity, not
\* restored yet, whose outcome is the entity's status.
Restorable(r) ==
    \/ r.restores = NoKey
    \/ LET a == action[r.restores] IN
         /\ a.state = "SUCCEEDED"
         /\ a.request.type = Opposite(r.type)
         /\ a.request.target = r.target
         /\ a.after = Status(r.target)

RolledBack(a) == [a EXCEPT !.state = "ROLLED_BACK"]

\* The rows an applied request leaves.
Logged(r) ==
    [log EXCEPT ![r.target] = Append(@, [status |-> NextStatus(r.type), by |-> r.key])]

Recorded(r) ==
    [k \in Keys |->
        IF k = r.key THEN Action(r)
        ELSE IF k = r.restores /\ action[k].state = "SUCCEEDED"
             THEN RolledBack(action[k])
             ELSE action[k]]

HistoryInit ==
    /\ log = [e \in Entities |-> <<[status |-> "ACTIVE", by |-> NoKey]>>]
    /\ action = [k \in Keys |-> NoAction]

\* A request of the state as it is.
Requested(k, type, e, x) ==
    [key |-> k, type |-> type, target |-> e, version |-> Version(e),
     previous |-> Status(e), restores |-> x]

\* The governed transition, at once.
Transition(r) ==
    /\ action[r.key] = NoAction
    /\ Applies(r) /\ Restorable(r)
    /\ log' = Logged(r)
    /\ action' = Recorded(r)

\* Any other writer of the status.
Change(e, s) ==
    /\ s # Status(e)
    /\ log' = [log EXCEPT ![e] = Append(@, [status |-> s, by |-> NoKey])]
    /\ UNCHANGED action

HistoryNext ==
    \/ \E k \in Keys, type \in Types, e \in Entities, x \in Keys \cup {NoKey} :
           Transition(Requested(k, type, e, x))
    \/ \E e \in Entities, s \in Settable : Change(e, s)

HistorySpec == HistoryInit /\ [][HistoryNext]_historyVars
=============================================================================
