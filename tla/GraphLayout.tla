----------------------------- MODULE GraphLayout -----------------------------
(***************************************************************************)
(* GraphLayoutWorkerCoordinator: the graph workspace asks one worker for   *)
(* layouts, a request per renderer at a time, and computes them itself     *)
(* when the worker fails; and the workspace that shows the answers.        *)
(*                                                                         *)
(* The browser runs one task at a time, so a task is an action: an effect  *)
(* of the workspace, a message or an error event of the worker, a timer,   *)
(* the reaction to a settled promise.  The worker runs beside it.          *)
(***************************************************************************)
EXTENDS Naturals, Sequences, FiniteSets

CONSTANTS
    Renderers,
    MaxRequests    \* bound: requests of a workspace

ASSUME RequestAssumption == MaxRequests \in Nat

RequestIds == 1..MaxRequests

VARIABLES
    nextId,      \* #nextRequestId
    latest,      \* #latestByRenderer
    pendingIds,  \* #pending: requests whose promise is open, with a timer
    worker,      \* #worker: not made yet, up, or null
    inbox,       \* requests posted to the worker
    outbox,      \* its messages and error events
    answer,      \* how the promise of each request was settled
    reacted,     \* requests whose answer the workspace has reacted to
    view,        \* what each renderer shows, and of which request
    mounted

layoutVars == <<nextId, latest, pendingIds, worker, inbox, outbox, answer, reacted, view, mounted>>

\* Answers: still open, the worker's layout, one computed here, or neither could
\* compute it; or refused as stale, because a newer request took its place or
\* because the worker's message named the other renderer.  The two refusals are
\* the same error to the workspace.
Settled == {"worker", "computed", "failed", "stale", "misnamed"}
Refused == {"stale", "misnamed"}
View(of, current, status) == [of |-> of, current |-> current, status |-> status]

LayoutInit ==
    /\ nextId = 1
    /\ latest = [r \in Renderers |-> 0]
    /\ pendingIds = {}
    /\ worker = "none"
    /\ inbox = <<>> /\ outbox = <<>>
    /\ answer = [i \in RequestIds |-> "open"]
    /\ reacted = {}
    /\ view = [r \in Renderers |-> View(0, FALSE, "idle")]
    /\ mounted = TRUE

\* executeSynchronously may throw.
Computed == {"computed", "failed"}

-----------------------------------------------------------------------------
(* request *)

\* Mutant: one newest request is kept for all renderers.
ReplacedAny(r) == pendingIds \cap {nextId - 1}

\* A task supersedes the open request of its renderer.
Replaced(r) == pendingIds \cap {latest[r]}

\* The promise of a request that no worker is asked for is settled at once.
AnsweredHere(r, w) ==
    /\ worker' = w
    /\ pendingIds' = pendingIds \ Replaced(r)
    /\ \E c \in Computed :
        answer' = [i \in RequestIds |-> IF i \in Replaced(r) THEN "stale"
                                        ELSE IF i = nextId THEN c ELSE answer[i]]
    /\ UNCHANGED inbox

Posted(r) ==
    /\ worker' = "up"
    /\ pendingIds' = (pendingIds \ Replaced(r)) \cup {nextId}
    /\ answer' = [i \in RequestIds |-> IF i \in Replaced(r) THEN "stale" ELSE answer[i]]
    /\ inbox' = Append(inbox, nextId)

\* The policy may keep the layout on the page; the worker is made on first use,
\* which may fail; the post may throw, which costs this request only.
Request(r) ==
    /\ mounted /\ nextId <= MaxRequests
    /\ nextId' = nextId + 1
    /\ latest' = [latest EXCEPT ![r] = nextId]
    /\ \/ AnsweredHere(r, worker)
       \/ worker \in {"none", "gone"} /\ AnsweredHere(r, "gone")
       \/ worker \in {"none", "up"} /\ (AnsweredHere(r, "up") \/ Posted(r))
    /\ view' = [view EXCEPT ![r] = View(nextId, TRUE, "loading")]
    /\ UNCHANGED <<outbox, reacted, mounted>>

-----------------------------------------------------------------------------
(* The worker. *)

\* The worker answers its requests in their order, with a layout or a failure
\* (an invalid layout counts as one), in a message that may be malformed or name
\* the other renderer; or it breaks.
WorkerStep ==
    /\ worker = "up"
    /\ \/ /\ inbox # <<>>
          /\ inbox' = Tail(inbox)
          /\ \E kind \in {"layout", "failure", "malformed", "misnamed"} :
                outbox' = Append(outbox, [kind |-> kind, id |-> Head(inbox)])
       \/ /\ Len(outbox) < MaxRequests
          /\ outbox' = Append(outbox, [kind |-> "error", id |-> 0])
          /\ UNCHANGED inbox
    /\ UNCHANGED <<nextId, latest, pendingIds, worker, answer, reacted, view, mounted>>

-----------------------------------------------------------------------------
(* Failures and answers. *)

IsNewest(i) == \E r \in Renderers : latest[r] = i

\* A terminated worker neither gets nor delivers anything more.
Terminate ==
    /\ worker' = "gone"
    /\ inbox' = <<>> /\ outbox' = <<>>

\* Mutant: all that is open is rejected as superseded.
FailWorkerStale ==
    /\ Terminate
    /\ pendingIds' = {}
    /\ answer' = [i \in RequestIds |-> IF i \in pendingIds THEN "stale" ELSE answer[i]]

\* #failWorker: whatever is open is computed on the page, if nothing newer of
\* its renderer has been asked for.
FailWorker ==
    /\ Terminate
    /\ pendingIds' = {}
    /\ \E c \in [pendingIds -> Computed] :
        answer' = [i \in RequestIds |->
                     IF i \notin pendingIds THEN answer[i]
                     ELSE IF IsNewest(i) THEN c[i] ELSE "stale"]

\* The message of the worker at hand settles its request.
Settles(i, a) ==
    /\ pendingIds' = pendingIds \ {i}
    /\ answer' = [answer EXCEPT ![i] = a]
    /\ outbox' = Tail(outbox)
    /\ UNCHANGED <<worker, inbox>>

\* #onMessage and #onWorkerError: a message of a request that is no longer open
\* is dropped; one that names the other renderer, or that comes too late, has
\* its request refused; a failure costs the worker.
Message ==
    /\ outbox # <<>>
    /\ LET m == Head(outbox) IN
       \/ m.kind \in {"malformed", "error"} /\ FailWorker
       \/ /\ m.kind \notin {"malformed", "error"} /\ m.id \notin pendingIds
          /\ outbox' = Tail(outbox)
          /\ UNCHANGED <<worker, inbox, pendingIds, answer>>
       \/ /\ m.id \in pendingIds
          /\ m.kind = "misnamed" \/ (m.kind \in {"layout", "failure"} /\ ~IsNewest(m.id))
          /\ Settles(m.id, IF m.kind = "misnamed" THEN "misnamed" ELSE "stale")
       \/ m.id \in pendingIds /\ IsNewest(m.id) /\ m.kind = "failure" /\ FailWorker
       \/ m.id \in pendingIds /\ IsNewest(m.id) /\ m.kind = "layout" /\ Settles(m.id, "worker")
    /\ UNCHANGED <<nextId, latest, reacted, view, mounted>>

\* Mutant: the timer is not armed while the worker has not begun.
TimeoutOnceTaken(i) ==
    /\ i \in pendingIds /\ inbox = <<>>
    /\ FailWorker
    /\ UNCHANGED <<nextId, latest, reacted, view, mounted>>

Timeout(i) ==
    /\ i \in pendingIds
    /\ FailWorker
    /\ UNCHANGED <<nextId, latest, reacted, view, mounted>>

-----------------------------------------------------------------------------
(* The workspace. *)

\* The promise's reaction: an effect that was cleaned up ignores it, and a
\* request refused as stale says nothing.
Shown(i, v) ==
    IF v.of # i \/ ~v.current \/ answer[i] \in Refused THEN v
    ELSE View(i, TRUE, IF answer[i] = "failed" THEN "error" ELSE "layout")

React(i) ==
    /\ answer[i] # "open" /\ i \notin reacted
    /\ reacted' = reacted \cup {i}
    /\ view' = [r \in Renderers |-> Shown(i, view[r])]
    /\ UNCHANGED <<nextId, latest, pendingIds, worker, inbox, outbox, answer, mounted>>

\* Another source of layouts is selected: the effect is cleaned up, its request
\* stays open.
Deselect(r) ==
    /\ mounted /\ view[r].current
    /\ view' = [view EXCEPT ![r].current = FALSE]
    /\ UNCHANGED <<nextId, latest, pendingIds, worker, inbox, outbox, answer, reacted, mounted>>

\* The workspace goes: its effects are cleaned up, then dispose.
Unmount ==
    /\ mounted
    /\ mounted' = FALSE
    /\ view' = [r \in Renderers |-> View(view[r].of, FALSE, view[r].status)]
    /\ Terminate
    /\ pendingIds' = {}
    /\ answer' = [i \in RequestIds |-> IF i \in pendingIds THEN "stale" ELSE answer[i]]
    /\ UNCHANGED <<nextId, latest, reacted>>

LayoutNext ==
    \/ \E r \in Renderers : Request(r) \/ Deselect(r)
    \/ WorkerStep \/ Message \/ Unmount
    \/ \E i \in RequestIds : Timeout(i) \/ React(i)

LayoutSpec == LayoutInit /\ [][LayoutNext]_layoutVars

\* Timers fire and reactions run; the worker may never answer.
LayoutFairness == \A i \in RequestIds : WF_layoutVars(Timeout(i)) /\ WF_layoutVars(React(i))

LayoutFairSpec == LayoutSpec /\ LayoutFairness

-----------------------------------------------------------------------------
(* Properties *)

Event == [kind : {"layout", "failure", "malformed", "misnamed"}, id : RequestIds]
         \cup [kind : {"error"}, id : {0}]

\* The variables of coordinator, worker and workspace keep their types.
LayoutTypeOK ==
    /\ nextId \in 1..(MaxRequests + 1)
    /\ latest \in [Renderers -> 0..MaxRequests]
    /\ pendingIds \in SUBSET RequestIds
    /\ worker \in {"none", "up", "gone"}
    /\ inbox \in Seq(RequestIds) /\ outbox \in Seq(Event)
    /\ answer \in [RequestIds -> Settled \cup {"open"}]
    /\ reacted \in SUBSET RequestIds
    /\ view \in [Renderers -> [of : 0..MaxRequests, current : BOOLEAN,
                               status : {"idle", "loading", "layout", "error"}]]
    /\ mounted \in BOOLEAN

\* A promise is open exactly while the coordinator awaits it: one for each
\* renderer, its newest, and none when there is no worker to answer it.
OpenIsAwaited ==
    /\ \A i \in RequestIds : i \in pendingIds <=> i < nextId /\ answer[i] = "open"
    /\ \A i \in pendingIds : \E r \in Renderers : latest[r] = i
    /\ pendingIds # {} => worker = "up" /\ mounted

\* A renderer that shows its layout as loading has a request to wait for, and
\* the answer will be a layout or an error.  The one exception is a message that
\* named the other renderer: its request is refused though nothing replaced it.
LoadingIsAwaited ==
    \A r \in Renderers : view[r].current =>
        /\ view[r].of = latest[r]
        /\ view[r].status = "loading" =>
               \/ view[r].of \in pendingIds
               \/ /\ answer[view[r].of] \in {"worker", "computed", "failed"}
                  /\ view[r].of \notin reacted
               \/ answer[view[r].of] = "misnamed"

\* Nothing is awaited that nobody will answer, and nobody waits for what is not
\* open: coordinator, promises and displays agree, whatever order the worker's
\* messages, its errors and the timers come in.
Awaited == OpenIsAwaited /\ LoadingIsAwaited

\* "A newer canonical graph layout request superseded this result" is said of
\* no request that is still the newest of its renderer, while the workspace is
\* mounted: "simultaneous 2D and 3D requests do not cancel each other", whichever
\* of them a failing worker, a message or a timer finds open.
StaleIsReplaced ==
    \A i \in RequestIds : answer[i] = "stale" => ~mounted \/ ~IsNewest(i)

\* No renderer shows its layout as loading for ever, unless the worker's message
\* named the other renderer.
LoadingEnds ==
    \A r \in Renderers :
        view[r].current /\ view[r].status = "loading"
            ~> \/ ~view[r].current \/ view[r].status # "loading"
               \/ answer[view[r].of] = "misnamed"
=============================================================================
