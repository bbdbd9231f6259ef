# Verification of ENTRAL

TLA+ models of the parts of ENTRAL in which several processes, users, browsers
and a database act on the same state at the same time: the background workers,
the governed lifecycle of entities, the controls of the internal commerce
business, and the member's workspace in the browser. TLC checks the models on
small instances, TLAPS proves the main results for every size.

Run TLC on a module with one of the configurations listed under "Runs", for
example `tlc -config CanonicalOutbox.cfg MCCanonicalOutbox.tla`, and
TLAPS on a module of proofs, for example `tlapm CanonicalOutboxProofs.tla`.

## Inventory

ENTRAL is a TypeScript monorepo: a Fastify backend with Prisma on Postgres and
BullMQ on Redis (`backend/`), a Next frontend (`frontend/`), message contracts
(`packages/contracts`), SQL migrations with triggers, functions and row-level
security (`prisma/`), and a command-line tool of the development process
(`.entral/governor`). Most of the code by lines builds reports and plans from
records. What keeps state that others change at the same time is the worker
process (`backend/src/worker.ts`) with the routes that act on the same rows,
the canonical tables with their governed transitions, and two places of the
frontend that juggle overlapping requests.

A worker starts, in this order, the outbox dispatcher, the dispatcher of
membership notifications, the automation queue, the agent orchestrator and the
autonomy scheduler, and then the heartbeat that records its readiness; it stops
them in the reverse order. The HTTP server can host the same workers. Several
worker processes may run at once; they share nothing but Postgres and Redis.

| Component | State it keeps | Operations | Hard behaviour | What makes it correct |
| --- | --- | --- | --- | --- |
| Canonical outbox (`canonicalOutboxWorker.ts`, phase 150 migration) | outbox rows: status, attempts, lock and its end; BullMQ jobs | emit in the event's transaction, claim a batch, add the job, record receipt or failure, dead-letter | crash between the queue and the receipt; locks that lapse under a live owner; lost replies | one job per event, verdicts final and by the limit, every event settled |
| Automation queue (`automationQueue.ts`, `routes/automation.ts`) | jobs: status, schedule, authorization version; timers and a counter in each process | create, execute, fail, cancel, retry, poll, requeue, drain | two activations of one job; routes that act on a status they read before; stop with timers and runs under way | no two executions of a job, no leaked slot, canceled stays canceled, due jobs are taken up |
| Agent orchestrator (`agentOrchestrator.ts`, `routes/agents.ts`) | tasks, agents with execution lease, usage reservations; timers, counter | assign, cancel, pause, resume, background on and off, run, recover stale tasks, drain | a slow run and its recovery; pause and restart during a run; failed calls in the middle | the lease fences the agent, no busy agent without a lease, a user's decision stays, tasks finish |
| Autonomy scheduler (`autonomyScheduler.ts`, `routes/agents.ts`) | schedules: status, next run, authorization version; running set in each process | create, pause, resume, revoke, poll, claim, policies, create the task, note the failure | a claim without an owner, overtaken by pause and resume; crash while claimed | one task per due date, under the current approval, paused waits for its user |
| Worker readiness (`workerReadiness.ts`, `worker.ts`) | one row per instance; a queue of writes, a pending DEGRADED, a timer | report, beat, write, stop components, record STOPPING | writes that fail or may have been committed; reports during shutdown | DEGRADED is not lost, nothing after STOPPING, the heartbeat goes on |
| Authorization of background work (`durableAuthorization.ts`) | none; reads the user's session version | assert | the version changes between check and use | part of the three workers |
| Capture recovery (`automationQueue.ts` 386-554) | claim token on the job row | claim, capture, finalize, release | crash before the release; two captures after five minutes | one finalization, retry possible again |
| AI usage ledger (`aiUsage.ts`) | usage events per user | reserve, settle, fail | concurrent reservations, ambiguous provider failures | budget never exceeded, a request is charged once |
| Membership notifications (`phase202NotificationDelivery.ts` and SQL) | delivery rows with lock and attempts | claim, send, complete, fail | as the outbox, and the batch is abandoned by one rejected receipt | mail sent once per delivery id |
| Entity lifecycle (`canonicalEntityLifecycle.ts`) | entities with their versions, governance actions, idempotency keys | pause, resume, restore an earlier action, replay a key | transactions that read, wait and write beside each other; repeats under old keys | a transition is one step; the history explains itself; a key has one outcome |
| Internal commerce controls (phase 204 migration, `phase204InternalCommerce.ts`) | controls, storefront states, listings, approvals; the business, its boundary, entities and tasks | pause, resume, disable, enable, kill; record listings and states; approve | halts that overlap; records dated by the client; entities paused one by one meanwhile | the stores agree, the halt in force is shown, nothing unapproved is published |
| Member's workspace (`CanonicalMemberShell.tsx`, snapshots and feed of `canonicalControlPlane.ts`) | three displayed snapshots, the number they are aligned at, guards of refreshes, subscription, the organization in the browser's storage | refresh, poll, switch organization, change scope or route, restore and store the organization | refreshes that overlap and fail, numbers drawn in another order than commits | never back, "connected" is earned, what is committed is shown |
| Sessions, MFA, secrets, support access, recovery | SQL functions of phase 202 | one transaction each | one-time tokens, rotation | a token works once |
| Graph preferences, release evidence | rows under advisory locks | update, reset, append | replays | version goes up by one per mutation |
| Shopify and revenue services | jobs' payloads and results | external calls, plans | external failures | mostly data |
| Layout worker client (`frontend/lib/graph-layout-worker-client.ts`, `CanonicalGraphWorkspace.tsx`) | pending requests, latest per renderer, what each shows | request, answer, time out, fall back, dispose | answers out of order, worker crash | only a replaced request is refused as stale, no renderer loads for ever |
| Control plane, other writes (`canonicalControlPlane.ts`) | governance actions | propose, update a status | replays | as the entity lifecycle |

How they interact: routes write rows and arm timers in their own process, other
processes find the rows by polling; the scheduler creates agent tasks, which
the orchestrator takes up; every change of a canonical entity emits an event
into the outbox; each worker reports its health to the readiness heartbeat;
a rotation of a user's sessions invalidates the work approved before it; the
commerce controls pause and resume the entities that the lifecycle pauses and
resumes one by one; the workspace in the browser follows the numbers of the
same events.

`PROJECT.json` lists all components with their sources, and the hazards with
the line where each bites.

## Modules

A step of a model is one transaction of the database, or the stretch of code
between two awaits. Everything another process can do may happen between two
steps. What the database promises (a conditional update sees the committed row,
a transaction is atomic, `SKIP LOCKED` passes over rows others hold) is taken
as given; a call that fails may have failed before or after its effect.
Payloads, messages, logs and times are abstracted: a time is only "passed" or
"not passed yet".

### CanonicalOutbox and EventDelivery

The variables are the columns of the outbox rows (`status`, `attempts`,
`lockedBy`, and for the two timestamps the sets `lapsed` and `ripe`), the
BullMQ jobs by id (`job`, `created`), and for each dispatcher its stage, its
batch, the row it works on and the attempt count its claim returned (`seen`).
`Emit` is the trigger function of the migration, `Claim` the statement of
`claimOutboxRows`, `Publish` and `PublishRejected` the two ends of
`queue.add`, `RecordPublished` and `RecordFailure` the conditional updates, and
the `...LockLost` and `...Fault` actions their other outcomes. `OutrunLapse`
lets a lock end while its owner still works on the batch. A process that
restarts has a new worker id, so a lock of the earlier incarnation belongs to
`Departed`. BullMQ itself is external: `AddJob` creates a job unless one with
that id exists, `FinishJob` keeps the finished one, as the options of the queue
do.

EventDelivery is the promise: an event is committed, handed over at most once,
and gets one final verdict. `DeliversEvents` is the refinement; the mapping is
`born` = the rows that exist, `copies` = jobs created, `verdict` read from
`status`.

### AutomationQueue

Jobs as rows, and for each process the timers (`queued`), the counter
(`running`), the poll and the stage of the worker. An activation of
`runAutomationJob` is a record in `run` that walks through the awaits of the
function: read, authorization, claim, second read, second authorization,
execution, log, failure. `Create`, `CancelRead`/`CancelWrite`, `Retry` and the
operator's `RecoverStale` are the routes; `PollStart`, `RequeueReset`,
`RequeueLog` and `PollSelect` are the stages of the poll; `StopBegin`,
`StopEnd`, `Exit` and `Crash` end a process. The stop function awaits the poll
in flight without a catch (line 685): a `PollFault` during the drain makes it
reject (stage `aborted`) and no run is awaited. The execution is one step that
succeeds or throws. The history variable `overlap` remembers the jobs somebody
retried while a run still worked on them.

### AgentOrchestrator and TaskExecution

Tasks, agents with `executionLeaseToken` and `executionLeaseTaskId` (the token
is named by the activation that took it, `Orphan` once that process is gone),
the usage reservation of each task, and the same process variables as above.
`hold` says why an agent takes no work: paused, or background work is off. An
activation walks from `auth` over the claim of the task, the claim of the
agent, the policies, the second authorization, the reservation, the execution,
the settlement and the outcome to the release; `Caught` is the catch block,
which knows by two flags how far the activation had come. The BullMQ transport,
the webhook and the message rows are left out.

TaskExecution is the promise, as seen from a task: it is started only from the
queue, its use of the provider is reserved once and only after the start, it
goes back to the queue only while nothing was ever reserved for it, is
completed only on a settled use, and canceled is final. The promise also says
what the code leaves open: a use may be reserved and settled for a task that
failed or was canceled meanwhile. `ExecutesTasks` is the refinement; `status`
and `usage` are the same variables in both.

### AutonomyScheduler

Schedules with their status, due date and approval (`ver`), the users' actions,
and for each process the records its poll has read and the run of each
schedule. A claim is the status `running` and names no owner. The choices of
the policies are nondeterministic. Where Redis is configured (`Repeats`), a
repeat job may start a run of any active schedule at any time. Three
simplifications: the check of the user's session and the write of a request are
one step; a poll reads all due schedules (the code takes 20); all schedules
belong to one agent.

### WorkerReadiness

One worker instance from its first heartbeat to its exit: the promise chain
`writeQueue` is a sequence of writes whose head is in flight, `pending` is
`pendingDegradedComponents`, `timer` the heartbeat's timer. `Flush` and
`FlushFails` are the write of a pending DEGRADED before the queued one,
`WriteFirst` and `WriteFails` the queued one. The history variable `owed` says
that a DEGRADED write failed and none has succeeded since. Only production is
modelled, where every component must be healthy to start. A restarted process
is a new instance with a new row. The reader that turns silence of 90 seconds
into STALE is left out.

### WorkspaceSync

A snapshot is the set of events whose effects it shows; its number is the
greatest of them. `Insert`, `Commit` and `Rollback` are writers anywhere in the
backend: the number is drawn at the insert, and nothing orders the commits. A
refresh is a record that walks through the awaits of `refreshWorkspace`
(portfolio and hierarchy, then the graph), may be superseded by a newer one,
and publishes or rejects; the polling subscription starts at the displayed
number and is started anew when that number changes (`Resubscribe`).

`SwitchOrganization`, `ChangeScope`, `ChangeRoute`, `SelectEntity` and
`AskRefresh` are the user. What an act changes is rendered later, and the
effects whose dependencies changed run in their order: `RunEffects` renders some
of what is `due`, restores the organization in storage (`Restore`, which forgets
the marks and keeps the display), starts a new refresh and subscription
(`RefreshAnew`) and stores the organization rendered. `org` is what
`activeOrganizationRef` and the state say, `rendered` what the page's closures
use, `stored` what localStorage holds, which any organization may be at first;
`OtherPage` is another page of the same member that stores its own. The ghost
`heard` is the greatest number the feed has reported since the marks were last
forgotten. Left out are the values of scope and entity, stored or routed: they
may change whenever the code could read them.

The storage effect limits what can be promised, and the properties say where.
`ConnectedIsAligned` compares with `heard` while the marks are kept.
`EventsAreShown` excepts pages whose organization never settles and event
refreshes that overlap for ever (see Further consequences).

### EntityHistory and EntityLifecycle

EntityHistory is the promise: a pause, a resume or a restoration happens in one
step, in a state in which everything its request states holds, and leaves a
version and the action that explains it. EntityLifecycle is the transaction of
`execute`, statement by statement under READ COMMITTED: claim the idempotency
key, lock and check the target, lock and check the restored action, read the
chain without locks, apply, commit. Locks are held to the end, what is written
is seen at the commit, and a transaction may fail at any point. Clients compose
requests from the state as it is, send them late, repeat them, and may use a
key for another request; `SetStatus` stands for every other writer of the
table. `Atomic` is the refinement (the variables `log` and `action` are the
same in both).

What the check of the chain promises is left open on purpose. It reads without
locks, so an ancestor that is paused between the check and the commit leaves an
active child under it; the guard on new work stops such a child from working.
A restoration compares the outcome of the restored action with the status of
the entity and not with its version, so an entity that has gone through other
states and is back in that one can still be restored.

### CommerceControls

Every operation is one SERIALIZABLE transaction, so one action. The model keeps
of each append-only log what the code reads: the newest control of each kind,
the newest storefront state (`shown`) and the newest that is no halt (`base`),
the newest listing of each product, the newest approval. Storefront states and
approvals carry a time the client supplies, so `Dated` lets a record enter the
log after all others, between the newest observation and the halt behind it, or
before both. `PauseEntity` and `ResumeEntity` are the entity lifecycle acting
on the same rows. Merged: BLOCKED with OWNER_ACTION_REQUIRED; a listing that is
paused or disabled at the provider with a draft; missions with tasks; one
brand and one provider.

`ChangeCapabilities` says less than its code: whether the capabilities a
storefront needs are active may change at any time, while the code asks for
evidence and healthy dependencies. It only adds behaviour, so no property holds
on its account.

The history variable `decided` keeps what Humans last decided of an entity
outside a pause of the business, `settled` that the newest storefront state
came from a control with the newest date. Not asserted, because the code does
not keep it: a resume or an enable restores a state PUBLISHED although the
product has changed meanwhile, and a resume activates an entity that was paused
on its own during the pause.

### GraphLayout

The browser runs one task at a time, so a task is an action: the effect that
requests a layout, a message or an error event of the worker, a timer, the
reaction to a settled promise, the unmount. The worker runs beside it and
answers its requests in their order, with a layout, a failure, a malformed
message or one that names the other renderer; it breaks; or it never answers.
`answer` is how the promise of each request was settled, `view` what each
renderer shows. A message that names the other renderer has its request refused
as stale, although it may be the newest (`misnamed`); `Awaited` and
`LoadingEnds` except the renderer that waits for it. The repository's worker
copies renderer and id from the request.

The MC modules give the constants of a small instance their symmetry or their
assumptions; AutonomyScheduler, WorkspaceSync and GraphLayout are run directly.

## Runs

| Run | Instance | Shows |
| --- | --- | --- |
| `outbox` | 2 dispatchers, 2 rows, batches of 2, 2 attempts, 1 fault, fair | a loop that still has a row's lock claimed it in the current attempt; dead letter exactly when the attempts are used up; every event is settled; the outbox implements EventDelivery |
| `automation_safety` | 1 job, 2 processes, 2 activations, 1 act, 1 revocation, 1 fault | no leak of the counter, no second execution without a retry, canceled stays canceled |
| `automation_liveness` | 2 jobs, 1 process, limit 1, 1 act, 1 fault, fair | a due job is taken up; a stop that returns leaves nothing behind, one that rejects no timer or poll |
| `agents_safety` | 2 tasks of 1 agent, 1 process, 2 activations, 1 act, 1 fault | the lease fences the agent; busy means leased; a user's pause stays; the orchestrator implements TaskExecution |
| `agents_liveness` | 2 tasks of 1 agent, 1 activation, 2 acts, no faults, fair | an assigned task finishes unless its agent is on hold |
| `scheduler` | 1 schedule, 2 processes, repeat jobs, 1 due date, 2 acts, 1 fault, fair | one task per due date, under the current approval; paused waits for its user; only a fault leaves a due schedule behind |
| `readiness` | 2 components, 3 waiting writes, 4 failed writes, 1 crash, fair | heartbeat goes on, DEGRADED is made up for, nothing after STOPPING, the row settles, STOPPING is recorded |
| `workspace` | 2 organizations, either or none stored, 1 event, 2 refreshes, 1 act, 1 fault, fair | "connected" is said only of a complete workspace as far as the feed; the guard of event refreshes is always somebody's to give back; the display never goes back; it follows the log, two exceptions apart |
| `workspace_mixed` | 1 organization, 2 events, no acts or faults | *violation*: a portfolio and a hierarchy of different events are displayed together |
| `lifecycle` | an entity under another, 3 keys, 2 transactions, 3 requests, 1 other change, fair | transactions implement EntityHistory; the history and the keys explain every action; a replay is faithful; no transaction waits for ever |
| `commerce` | general, commander, soldier, 1 product of 2 versions, 1 change of terms | the stores agree; decisions outlast pauses; the halt in force is shown; only approved versions are published, and none during a halt |
| `graph_layout` | 2 renderers, 3 requests, fair | what is awaited will be answered; only a replaced request is refused as stale; no renderer loads for ever unless a message named the other |

The type invariant `TypeOK` of a module is a theorem (see Proofs) and not
repeated in its run. `ReceiptBacked`, `RestoredOnce`, `KillIsFinal` and the
orchestrator's `CanceledStays` are proved and not repeated either: all but
`KillIsFinal` follow from the refinements, `DeliversEvents`, `Atomic` and
`ExecutesTasks`.

Every property of a passing run has a mutant in `PROJECT.json`: an operator
next to the original, with one plausible bug, under which TLC finds the
property violated in the same run.

### Bounds

The hazards need two actors on one row: two processes, or a process and a user,
or two activations in one process. A second row or task is there where an order
matters (a batch, the limit of one, two tasks of one agent). One fault is
enough for each partial failure, since what follows it is the ordinary code of
another actor; readiness has four, for a retried STOPPING with a DEGRADED
pending. A lock of the outbox that lapses under its owner (`OutrunLapse`) costs
the one fault too; one that nobody works under any more costs none. One or two
acts of users are enough for the pairs cancel and complete, pause and resume.
Two events and two refreshes are what it takes for answers and commits out of
order; with the storage effect one event is enough for `workspace`, where an
older snapshot is an empty one, and `workspace_mixed` has two. A write of
another page counts as a fault there. Three keys of the lifecycle give an
action, one that restores it and a rival. Three requests of the graph give two
of one renderer beside one of the other. Two versions of a product give a
change between listing, approval and publication. The safety properties of all
passing runs are proved for every size, so the bounds matter only for liveness.
The acts, faults and crashes are bounded because an unbounded stream of them
would make no promise possible (the code has none either).

CHECK_DEADLOCK is on except in two modules that really may stop: a workspace
whose first load failed rests until its user retries (WorkspaceSync), and an
unmounted page has nothing left to do (GraphLayout).

## Fairness

Each `Fairness` names what the runtime keeps doing by itself: timers fire,
awaited statements return or throw, a process that is up polls at its interval,
a stop that has begun goes on, and the platform starts a stopped worker again.
No user has to act, no fault or crash has to happen, and an execution has to
end. In the browser, requests are answered or fail, effects and reactions run,
and timers fire; the layout worker need not answer. All of it is weak fairness
of single actions, with three exceptions.
`SF_vars(Claim(w))` in CanonicalOutbox: with another dispatcher at work the
claimable rows come and go, and a poll that repeats for ever must meet them at
last, as each poll is one statement that returns whatever is claimable then.
`SF_vars(StopComponent(c))` in WorkerReadiness: stopping a component awaits
only that component, but in the model its report needs a place in the bounded
queue, so the action is disabled while the queue is full. `SF_vars(Step(t))` in
EntityLifecycle: the database grants a lock to those who wait for it in turn,
and never passes one of them over for ever. CommerceControls has no liveness:
each of its operations is one transaction that a Human asks for.

## Proofs

The theorems hold for any sets of rows, processes, agents, schedules,
components, entities, keys, products, organizations, refreshes and renderers
and any bounds, under the named ASSUMEs of the modules: limits are positive,
bounds are numbers, and the special values (`NoOne`, `Departed`, `Orphan`,
`NoLease`, ...) are not members of the sets they mark an absence from.

**CanonicalOutboxProofs** (`TypeCorrect`, `Fencing`, `Threshold`, `Backed`,
`Refinement`). The inductive invariant is `IInv`: the types with `Placed` (the
current row is in the batch), `OwnerIsCurrent`, `VerdictThreshold`,
`ReceiptInv` and `JobInv`. `Threshold` needs `OwnerIsCurrent`, because
`markOutboxFailed` decides on the count in the process's memory, and that
needs `Placed`. `Backed` needs `ReceiptEarned`: a loop that is about to record
a receipt has put its job into the queue. `Refinement` needs `OneJob`, that a
job in the queue is never removed, so that a second `queue.add` is no new job.
A takeover does not break `OwnerIsCurrent` because it changes the owner, and a
process cannot take a row over from itself while its loop still has it.

**AutomationQueueProofs** (`Types`, `Counter`, `Exclusive`, `DrainedStop`,
`CancelHolds`). Every step has one of seven effects on the activations and the
counters (`RunEffect`), from which `Counting` follows: what begins to count was
not counted, what ends was. `ExclusiveExecution` is inductive together with
`WorkHeld`: a job that is worked on, and was not retried meanwhile, is running,
failed or canceled. So it is not due, and the claim's condition keeps a second
run out, and only its own run can complete it. `Drained` needs `TimersOff` (who
does not accept jobs has no timer) and that only an accepting worker starts an
activation; a stop that rejected has no poll because the failure ended it.
`CancelHolds` follows from the conditions of the updates.

**AgentOrchestratorProofs** (`Types`, `Fencing`, `Busy`, `Pausing`,
`Canceling`, `Implements`, `DrainedStop`, `LeasesComeBack`). `Types` needs
`Counting`, as above: that the counter is a natural number is the fact that
each decrement undoes its own increment. `LeaseFences` alone is not inductive:
a recovery or another run could clear the lease of a task it believes to be its
own. `FenceInv` adds `OneOwner` (of the activations between claim and outcome,
one at most has a running task; a task somebody owns is not in the queue) and
`Outcome` (who releases after success has a finished task). The catch block
after a failed requeue is no owner: the requeue may have been committed and the
task claimed again. `ControlInv` adds to `BusyIsLeased` that a paused agent is
on hold. `Implements` is proved step by step: each action turns the status of
one task (`Turn`), moves its use on (`Use`), does both (`Lapse`, the recovery)
or neither, as TaskExecution allows. That a task goes back to the queue unused
needs `UsageInv`: a queued task is unused, a claimed one that still runs is
unused until its activation has the lease, and a result is recorded on a
settled use. To keep it, a reservation must not be for a task that somebody
else is about to put back, which is `OneOwner` again (`OwnedUse`).
`LeasesComeBack` is the safe half of `TaskFinishes` and shows where a lease can
be lost: `LeaseIsHeld` says that until the first fault or crash the holder of a
lease is an activation that has yet to give it back. It needs `DrainInv`, that
a process which exits in order has nothing left (`DrainedStop`), and that no
start has failed.

**AutonomySchedulerProofs** (`Types`, `Claims`, `Period`, `Approval`,
`Decision`). `OncePerPeriod` rests on `ClaimedIsDue`: a schedule in status
running is due. The claim requires it, and what takes the due date away gives
the claim back in the same statement; so a run that lost its claim and finds
the schedule running again, under a claim of another run, still creates the
task of a period that has none yet. `Approval` and `Decision` follow from the
conditions of the updates, whatever stage a run is in.

**WorkerReadinessProofs** (`Readiness`, `Types`, `Heartbeat`, `Sticky`,
`Last`). `ReadinessInv` says where in the queue which write may stand
(`QueueShape`), that what is owed is pending (`OwedIsPending`), and that after
STOPPING only another STOPPING can be queued (`NothingAfter`), which needs
that an attempt is made on an empty queue with the timer cleared
(`TimerStage`).

**EntityLifecycleProofs** (`HistoryIsConsistent`, `TypesAreKept`,
`HistoryIsExplained`, `UndoneOnce`, `KeysAgree`, `ReplayIsDeterministic`,
`TransactionsAreAtomic`). First the abstract history: `HistoryInv` (every
action is one version, marked undone exactly when one other restored it) is an
invariant of EntityHistory. Then `LInv` for the transactions: no two past the
claim have the same key and no two past the lock of the target have the same
entity (`Exclusive`), and what a transaction has checked is still the case
(`Holding`), because whoever could change it waits for its locks. From this, a
commit is a `Transition` of EntityHistory and every other step changes nothing
it sees (`StepIsAtomic`), so `HistoryInv` carries over.

**CommerceControlsProofs** (`TypesAreKept`, `Agreement`, `DecisionsKept`,
`HaltIsShown`, `ApprovedFirst`, `HaltHolds`, `KillStands`). `StoresAgree` and
`DecisionsOutlastPauses` need `PauseRecorded`, that the engaged pause has
recorded all work and exactly the entities Humans wanted active, so that a
resume undoes what the pause did and no more. `ShownIsInForce` needs that a
storefront that shows no halt shows the newest observation (`ObservedIsShown`),
`PublishedWasApproved` that the approval that counts is one of those given.

**FrontendProofs** holds the proofs of both modules of the browser.

For WorkspaceSync (`TypesAreKept`, `ConnectedIsEarned`, `GuardComesBack`,
`DisplayAdvances`) the inductive invariant says of each refresh how far it has
come (`Sound`): what it has read was committed, the current refresh belongs to
the selected organization and has read nothing older than the display, and past
the comparison its sources stand at one number. At most one refresh is current
(`RefreshesSound`), the display stands at one number (`DisplaySound`), the
subscription belongs to the organization rendered (`SubSound`), and what the
feed has reported since the marks were forgotten is displayed or pending
(`HeardIsKept`). `GuardIsHeld` is
part of it: an event refresh that is superseded still comes to its end and gives
the guard back there, unless the user's switch or the storage effect drops the
guard (an old refresh of that organization may then give a new guard back too
early, but none is left behind). The effects are one step of the proof
(`EffectsKeep`): whatever the restored organization, either the marks are
forgotten or nothing of them changes, and either a refresh starts or the
rendered organization stays. The display advances because
snapshots of a later read contain those of an earlier one. That a nonempty set
of numbers below a bound has a greatest is shown by well-founded induction on
the gap to the bound.

`OrderedCommitsNeverMix` turns the finding (see Findings) round: under
`[][InOrder]_vars`, that nobody commits before an open transaction with a
smaller number, displayed snapshots are never mixed and lack no event up to
their number. Its invariant adds `OpenIsLater` (open numbers are above all
committed ones) and `AllComplete` (every snapshot a refresh or the display
carries has all committed events up to its greatest). The code does not order
commits, so this is what an order would buy and no statement about the code as
it is.

For GraphLayout (`LayoutTypesAreKept`, `AllIsAwaited`, `OnlyReplacedAreStale`)
`Awaited` and `StaleIsReplaced` are inductive with `Numbered`: requests are
numbered upwards, the latest of a renderer belongs to it alone, and none is
answered before it is made. What is open is then the newest of its renderer, so
that only a later request of the same renderer refuses it as stale, and a
superseded request is never the one a view waits for.

Only model-checked: liveness (`EventuallySettled`, `DueIsTaken`,
`TaskFinishes`, `OnlyFaultsLeaveDue`, `RowSettles`, `ShutdownRecorded`,
`EventsAreShown`, `Ends`, `LoadingEnds`), which the prover does not reach.

## Findings

The run `workspace_mixed` refutes what the member's workspace says of itself.
`refreshWorkspace` takes snapshots for one when their greatest event numbers are
equal; otherwise it refuses, "Entral will retry before displaying mixed
versions". A number is drawn when an event is inserted and two writers may
commit in the opposite order, so two snapshots with the same greatest number can
differ in a smaller one, and are displayed together. For the same reason the
feed's cursor can pass an event that commits later, which is then not reported.
The commit order is the whole cause: with commits in the order of the numbers
both promises hold (theorem `OrderedCommitsNeverMix`).

Further consequences of the code are part of the models, without a run of their
own:

- The outbox's claim does not compare the attempts with the limit, so a row
  whose dispatcher dies each time is claimed beyond it (the runbook says that
  rows are dead-lettered at the limit).
- The cancel route of the automation queue refuses by the status it read and
  then updates by id: a job that completed in between ends as canceled. The
  routes of the agents cancel and revoke tasks in the same way.
- The orchestrator and the automation queue compare their counter before an
  awaited read and raise it afterwards: more runs than the limit may be under
  way. `Taken` models the negative number of rows such a poll asks for.
- A worker that dies between a task's outcome and the release of its agent
  leaves a lease no recovery looks for; so `TaskFinishes` is checked without
  faults, and `LeasesComeBack` proves that nothing else leaves one.
- A schedule whose process dies while it is claimed stays claimed until its
  user pauses and resumes it, and an error of the authorization check pauses a
  schedule as if its approval were stale.
- A poll of the automation queue that fails while the worker drains ends its stop
  function with runs under way (`automationQueue.ts:685`); the orchestrator and
  the scheduler catch it. The worker then goes on to stop the rest and exits
  (`worker.ts:66-71`).
- The shell restores the stored organization before it refreshes and stores the
  one rendered only afterwards. Where the two differ, on mounting or after a
  switch, the active and the stored organization replace each other: each
  rendering restores what the previous one stored, every refresh is superseded
  when it ends, and the workspace may never load.
- A change of route runs the storage effect alone: the marks are forgotten while
  "connected" stays on show, and the next poll may say it again of a number
  below the one the feed had reported. If another page of the member's stored its
  organization meanwhile, that becomes the active one under the display of the
  old.
- The storage effect also drops the guard of an event refresh, so that two may
  overlap. As the guard names only the organization, each that ends then gives
  back that of its successor, and the next poll supersedes it: while refreshes
  take longer than the poll's interval, the display need never advance.
- A worker's message that names the other renderer makes the layout coordinator
  refuse its newest request as superseded; the workspace ignores the refusal and
  the renderer loads for ever. The repository's worker sends no such message.
- The commerce panel of the frontend sends an empty list of evidence with each
  control, which `phase204_set_commerce_control` refuses. The model's controls
  have their evidence.

## Not modelled

The capture recovery, the usage ledger's budgets, membership notifications and
graph preferences are state machines that fit this project and are left for its
next steps. The identity services of phase 202 are single SQL functions whose
protection is the database's. Shopify calls, revenue reports, dashboards,
contracts and rendering are data or I/O, and most of the code by lines. BullMQ,
Redis and Postgres are external and modelled by what the code relies on. The
governor is a tool of the development process. The reasons are given for each
in `PROJECT.json`.

## Plan

Written, in this order: CanonicalOutbox with EventDelivery, AutomationQueue,
AgentOrchestrator, AutonomyScheduler, WorkerReadiness, WorkspaceSync,
EntityLifecycle with EntityHistory, CommerceControls, GraphLayout and
TaskExecution, each with its proofs.

Next:

1. CaptureRecovery: the claim token beside the job row, with crash, expiry
   after five minutes and the retry route; composed with the status of the job.
2. AiUsage: reservations of one user against two windows; never above a limit,
   one event per request id; then AgentOrchestrator's `usage` as its client.
3. AutomationQueue as a second implementation of TaskExecution, with the
   execution in place of the provider's use, and the retries it allows.
4. NotificationDelivery as a second implementation of EventDelivery.
5. The orchestrator's BullMQ transport: retries of a job beside the poll.
