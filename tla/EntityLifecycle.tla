--------------------------- MODULE EntityLifecycle ---------------------------
(***************************************************************************)
(* CanonicalEntityLifecycleService.execute: the governed pause and resume  *)
(* of an entity, as PostgreSQL transactions under READ COMMITTED that run  *)
(* side by side.                                                           *)
(*                                                                         *)
(* A transaction claims its idempotency key, locks the target and checks   *)
(* the request against it, locks the action it restores, reads the command *)
(* chain (without locks), and applies; what it has written becomes visible *)
(* when it commits and is gone when it ends otherwise, the claimed key     *)
(* included.  Rows it has locked stay locked until its end; a transaction  *)
(* that wants such a row waits.                                            *)
(*                                                                         *)
(* Clients compose requests from the state they were shown, send them      *)
(* again when they like, and may send a key with another request.          *)
(***************************************************************************)
EXTENDS EntityHistory, FiniteSets

CONSTANTS
    Above,       \* the ancestors of each entity
    Txs,         \* transactions at a time
    MaxSent,     \* bound: requests composed
    MaxChanges   \* bound: changes by other writers

ASSUME AboveAssumption == Above \in [Entities -> SUBSET Entities]
ASSUME BoundAssumption == MaxSent \in Nat /\ MaxChanges \in Nat

VARIABLES
    row,         \* idempotency_keys, committed
    tx,          \* the transactions under way
    sent,        \* the requests composed so far
    told,        \* the receipts clients have been given
    changes

vars == <<log, action, row, tx, sent, told, changes>>
database == <<log, action, row>>

NoRow == [done |-> FALSE]
Row(r, done) == [request |-> r, done |-> done]

NoRequest == [key |-> NoKey]
Transaction(at, r, was, wasVersion) == [at |-> at, r |-> r, was |-> was, wasVersion |-> wasVersion]
Idle == Transaction("idle", NoRequest, "ACTIVE", 1)

Init ==
    /\ HistoryInit
    /\ row = [k \in Keys |-> NoRow]
    /\ tx = [t \in Txs |-> Idle]
    /\ sent = {} /\ told = {}
    /\ changes = 0

-----------------------------------------------------------------------------
(* Locks. *)

\* Mutant: a transaction holds its key while it still waits for it.
HoldsKeyEarly(t, k) == tx[t].at # "idle" /\ tx[t].r.key = k

HoldsKey(t, k) == tx[t].at \notin {"idle", "claim"} /\ tx[t].r.key = k
HoldsTarget(t, e) == tx[t].at \in {"restored", "chain", "apply", "commit"} /\ tx[t].r.target = e
HoldsRestored(t, k) == tx[t].at \in {"chain", "apply", "commit"} /\ tx[t].r.restores = k

FreeKey(k) == \A t \in Txs : ~HoldsKey(t, k)
FreeEntity(e) == \A t \in Txs : ~HoldsTarget(t, e)
FreeAction(k) == \A t \in Txs : ~HoldsRestored(t, k)

-----------------------------------------------------------------------------
(* execute, statement by statement. *)

GoTo(t, at) == tx' = [tx EXCEPT ![t].at = at]
End(t) == tx' = [tx EXCEPT ![t] = Idle]

\* Keys that clients have used, and one that they have not.
Drawn ==
    LET used == {r.key : r \in sent} IN
    used \cup IF Keys \ used = {} THEN {} ELSE {CHOOSE k \in Keys : k \notin used}

\* A request that fits the state shown to its client, and restores nothing or
\* an action that the client was shown.  (One that does not fit the status it
\* names is refused at every version.)
Composed ==
    {r \in {Requested(k, type, e, x) : k \in Drawn, type \in Types, e \in Entities,
                                       x \in {j \in Keys : action[j] # NoAction} \cup {NoKey}} :
        r.previous \in IF r.type = "PAUSE" THEN Pausable ELSE {"PAUSED"}}

Begin(t) ==
    /\ tx[t].at = "idle"
    /\ \E r \in sent \cup Composed :
        /\ Cardinality(sent \cup {r}) <= MaxSent
        /\ sent' = sent \cup {r}
        /\ tx' = [tx EXCEPT ![t] = Transaction("claim", r, "ACTIVE", 1)]
    /\ UNCHANGED <<database, told, changes>>

\* Mutant: the receipt of a repeated request is read off the entity.
ReceiptOfEntity(acts, k) ==
    LET r == acts[k].request IN
    [request |-> r, before |-> acts[k].before, beforeVersion |-> acts[k].beforeVersion,
     after |-> Status(r.target), afterVersion |-> Version(r.target)]

\* completedLifecycleResult: read from the action's record.
Receipt(acts, k) ==
    [request |-> acts[k].request, before |-> acts[k].before,
     beforeVersion |-> acts[k].beforeVersion, after |-> acts[k].after,
     afterVersion |-> acts[k].afterVersion]

\* INSERT ... ON CONFLICT DO NOTHING waits for a transaction that has
\* inserted the key and not ended; then the key is new, or was used for this
\* request (a repeat, answered with the receipt), or for another one.
Claim(t) ==
    LET r == tx[t].r IN
    /\ tx[t].at = "claim" /\ FreeKey(r.key)
    /\ \/ /\ row[r.key] = NoRow
          /\ GoTo(t, "target")
          /\ UNCHANGED told
       \/ /\ row[r.key] = Row(r, TRUE)
          /\ End(t)
          /\ told' = told \cup {Receipt(action, r.key)}
       \/ /\ row[r.key] \notin {NoRow, Row(r, TRUE)}
          /\ End(t)
          /\ UNCHANGED told
    /\ UNCHANGED <<database, sent, changes>>

\* SELECT ... FOR UPDATE on the target, and the checks of its state.
LockTarget(t) ==
    LET r == tx[t].r IN
    /\ tx[t].at = "target" /\ FreeEntity(r.target)
    /\ \/ /\ Applies(r)
          /\ LET at == IF r.restores = NoKey THEN "chain" ELSE "restored" IN
             tx' = [tx EXCEPT ![t] = Transaction(at, r, Status(r.target), Version(r.target))]
       \/ /\ ~Applies(r)
          /\ End(t)
    /\ UNCHANGED <<database, sent, told, changes>>

\* Mutant: the entity's status is not compared with the action's outcome.
RestorableDiverged(r) ==
    /\ action[r.restores].state = "SUCCEEDED"
    /\ action[r.restores].request.type = Opposite(r.type)
    /\ action[r.restores].request.target = r.target

ValidRestoration(r) == Restorable(r)

\* validateRestoration.
LockRestored(t) ==
    LET r == tx[t].r IN
    /\ tx[t].at = "restored" /\ FreeAction(r.restores)
    /\ \/ ValidRestoration(r) /\ GoTo(t, "chain")
       \/ ~ValidRestoration(r) /\ End(t)
    /\ UNCHANGED <<database, sent, told, changes>>

\* Every ancestor is ACTIVE.
ChainReady(e) == \A a \in Above[e] : Status(a) = "ACTIVE"

ReadChain(t) ==
    LET r == tx[t].r IN
    /\ tx[t].at = "chain"
    /\ \/ (r.type = "PAUSE" \/ ChainReady(r.target)) /\ GoTo(t, "apply")
       \/ r.type = "RESUME" /\ ~ChainReady(r.target) /\ End(t)
    /\ UNCHANGED <<database, sent, told, changes>>

\* UPDATE entities ... WHERE version AND status, and the readback of the row
\* and of the leasing guard, which reads the chain once more.
Apply(t) ==
    LET r == tx[t].r
        applied == /\ Version(r.target) = r.version /\ Status(r.target) = tx[t].was
                   /\ r.type = "PAUSE" \/ ChainReady(r.target)
    IN
    /\ tx[t].at = "apply"
    /\ \/ applied /\ GoTo(t, "commit")
       \/ ~applied /\ End(t)
    /\ UNCHANGED <<database, sent, told, changes>>

\* Mutant: the version is the one read before the UPDATE.
CompletedBefore(t) ==
    LET r == tx[t].r IN
    [state |-> "SUCCEEDED", request |-> r,
     before |-> tx[t].was, beforeVersion |-> tx[t].wasVersion,
     after |-> NextStatus(r.type), afterVersion |-> tx[t].wasVersion]

\* The action as the transaction completes it.
Completed(t) ==
    LET r == tx[t].r IN
    [state |-> "SUCCEEDED", request |-> r,
     before |-> tx[t].was, beforeVersion |-> tx[t].wasVersion,
     after |-> NextStatus(r.type), afterVersion |-> Version(r.target) + 1]

\* UPDATE ... SET status = 'ROLLED_BACK' WHERE id = restores AND status = 'SUCCEEDED'.
ActionsAfter(t) ==
    LET r == tx[t].r IN
    [k \in Keys |->
        IF k = r.key THEN Completed(t)
        ELSE IF k = r.restores /\ action[k].state = "SUCCEEDED"
             THEN RolledBack(action[k])
             ELSE action[k]]

\* Mutant: the key is completed after the commit, by a step that may not come.
RowAfterLater(t) == [row EXCEPT ![tx[t].r.key] = Row(tx[t].r, FALSE)]

RowAfter(t) == [row EXCEPT ![tx[t].r.key] = Row(tx[t].r, TRUE)]

Commit(t) ==
    LET r == tx[t].r IN
    /\ tx[t].at = "commit"
    /\ log' = Logged(r)
    /\ action' = ActionsAfter(t)
    /\ row' = RowAfter(t)
    /\ told' = told \cup {Receipt(action', r.key)}
    /\ End(t)
    /\ UNCHANGED <<sent, changes>>

\* The transaction ends without effect: the actor, the scope, a dependency or
\* ENTRAL is missing, a statement fails, the process or the connection dies.
Fail(t) ==
    /\ tx[t].at # "idle"
    /\ End(t)
    /\ UNCHANGED <<database, sent, told, changes>>

\* updateEntityStatus, and the other statements that set a status: one UPDATE,
\* which waits for the row.
SetStatus(e, s) ==
    /\ changes < MaxChanges /\ changes' = changes + 1
    /\ FreeEntity(e)
    /\ Change(e, s)
    /\ UNCHANGED <<row, tx, sent, told>>

Step(t) ==
    \/ Claim(t) \/ LockTarget(t) \/ LockRestored(t) \/ ReadChain(t) \/ Apply(t) \/ Commit(t)

Next ==
    \/ \E t \in Txs : Begin(t) \/ Step(t) \/ Fail(t)
    \/ \E e \in Entities, s \in Settable : SetStatus(e, s)

Spec == Init /\ [][Next]_vars

\* A lock is granted to those who wait for it, in turn.
Fairness == \A t \in Txs : SF_vars(Step(t))

FairSpec == Spec /\ Fairness

-----------------------------------------------------------------------------
(* Properties. *)

Transactions ==
    [at : {"idle", "claim", "target", "restored", "chain", "apply", "commit"},
     r : Requests \cup {NoRequest}, was : Statuses, wasVersion : Nat \ {0}]

\* The types.
TypeOK ==
    /\ log \in [Entities -> Seq(Versions)] /\ \A e \in Entities : log[e] # <<>>
    /\ action \in [Keys -> Actions \cup {NoAction}]
    /\ row \in [Keys -> [request : Requests, done : BOOLEAN] \cup {NoRow}]
    /\ tx \in [Txs -> Transactions]
    /\ \A t \in Txs : tx[t].at # "idle" => tx[t].r \in Requests
    /\ sent \subseteq Requests
    /\ changes \in 0 .. MaxChanges

\* The history explains itself, whatever transactions overlapped, failed or
\* were repeated: an action that completed is one step of its entity's
\* versions, from exactly the state its request named to the state its receipt
\* states, and the version it made names it and no other (before_state,
\* after_state, entity_versions).
HistoryExplains ==
    \A k \in Keys : action[k] # NoAction =>
        LET a == action[k]  e == a.request.target  v == a.afterVersion IN
        /\ a.beforeVersion = a.request.version /\ v = a.beforeVersion + 1
        /\ v \in DOMAIN log[e]
        /\ log[e][v] = [status |-> a.after, by |-> k]
        /\ log[e][a.beforeVersion].status = a.before
        /\ a.before = a.request.previous
        /\ \A f \in Entities : \A w \in DOMAIN log[f] :
             log[f][w].by = k => f = e /\ w = v

\* The idempotency table and the actions agree: a key is used exactly when its
\* action completed, for the action's request, and never left in progress, so
\* that a repeat is answered with the receipt (claim and completion of the key
\* are in one transaction with the action).
KeysMatchActions ==
    \A k \in Keys :
        /\ row[k] = NoRow => action[k] = NoAction
        /\ row[k] # NoRow => /\ action[k] # NoAction
                             /\ row[k] = Row(action[k].request, TRUE)

\* An action is undone at most once, and is marked as undone exactly when an
\* opposite action for the same entity has restored it.
RestoredOnce ==
    \A k \in Keys : action[k] # NoAction =>
        LET restorers == {j \in Keys : action[j] # NoAction /\ action[j].request.restores = k} IN
        /\ action[k].state = "ROLLED_BACK" <=> restorers # {}
        /\ \A i, j \in restorers : i = j
        /\ \A j \in restorers : /\ action[j].request.target = action[k].request.target
                                /\ action[j].request.type = Opposite(action[k].request.type)

\* Historical replay remains deterministic: all receipts given out for a key
\* are the same, and they still state what the action's record states, however
\* the entity and the action's status have changed since.
ReplayIsFaithful ==
    \A c \in told :
        /\ action[c.request.key] # NoAction
        /\ c = Receipt(action, c.request.key)

\* The overlapping transactions do no more than atomic transitions would:
\* what a request was checked against still holds when its effects appear.
Atomic == HistorySpec

\* No transaction waits for ever for a key, an entity or an action.
Ends == \A t \in Txs : tx[t].at # "idle" ~> tx[t].at = "idle"
=============================================================================
