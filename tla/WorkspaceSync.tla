---------------------------- MODULE WorkspaceSync ----------------------------
(***************************************************************************)
(* The member's workspace (CanonicalMemberShell.tsx) kept in step with the *)
(* canonical event log.                                                    *)
(*                                                                         *)
(* The server's half is small.  A transaction that changes canonical state *)
(* draws its event's sequence number when it inserts the event             *)
(* (emit_canonical_event: an identity column) and shows it when it         *)
(* commits; nothing makes the two orders agree.  A snapshot (portfolio,    *)
(* hierarchy, graph projection) is one repeatable-read transaction: it     *)
(* holds the effects of all committed events and is labelled with the      *)
(* greatest of their numbers.  The feed returns the events beyond a        *)
(* cursor.                                                                 *)
(*                                                                         *)
(* The client's half is the shell: refreshes that assemble a workspace out *)
(* of two or three snapshots, of which several can be under way and only   *)
(* the newest may publish; a polling subscription that starts at the       *)
(* displayed number and is started anew when that number changes; the      *)
(* user, who switches organization, scope or route or asks for a refresh;  *)
(* the organization kept in the browser's storage, which every page of the *)
(* member's reads and writes; and requests that fail.                      *)
(*                                                                         *)
(* React renders the page after an act and runs the effects whose          *)
(* dependencies changed.  activeOrganizationRef is always set together     *)
(* with the state organizationId, so it is the state's latest value, and   *)
(* what the closures of the page use is the value last rendered.           *)
(*                                                                         *)
(* A snapshot is modelled as the set of events whose effects it shows.     *)
(***************************************************************************)
EXTENDS Integers, FiniteSets

CONSTANTS
    Orgs,        \* the member's organizations
    FirstOrg,    \* the first of them in the session, which the page shows first
    NoOrg,       \* no organization: nothing displayed, no subscription
    GraphShown,  \* whether the destination is the graph, which adds a third snapshot
    MaxEvents,   \* bound: sequence numbers drawn
    Slots,       \* bound: refreshes under way at once
    MaxActs,     \* bound: acts of the user
    MaxFaults    \* bound: requests that fail, and writes of the member's other pages

ASSUME OrgAssumption == NoOrg \notin Orgs /\ FirstOrg \in Orgs
ASSUME GraphAssumption == GraphShown \in BOOLEAN
ASSUME BoundAssumption ==
    MaxEvents \in Nat /\ Slots \in Nat /\ MaxActs \in Nat /\ MaxFaults \in Nat

VARIABLES
    next,        \* the last sequence number drawn
    open,        \* events inserted by transactions that have not ended
    committed,   \* events every later snapshot sees
    org,         \* activeOrganizationRef, and organizationId as last set
    rendered,    \* organizationId as last rendered
    stored,      \* the organization in localStorage, NoOrg when there is none
    refresh,     \* the refreshes under way
    shown,       \* portfolio, hierarchy and graphProjection on display
    aligned,     \* alignedEventSequenceRef
    pending,     \* pendingEventSequenceRef
    eventOrg,    \* eventRefreshOrganizationRef
    error,       \* workspaceError is set
    sync,        \* syncState
    due,         \* what else has changed since effects ran: first mount, scope, route
    sub,         \* the subscription to the feed
    heard,       \* ghost: greatest number the feed reported since the marks were reset
    acts, faults

server == <<next, open, committed>>
marks == <<aligned, pending, heard>>
status == <<error, sync>>
page == <<rendered, stored, due>>
budget == <<acts, faults>>
vars == <<next, open, committed, org, rendered, stored, due, refresh, shown, aligned,
          pending, eventOrg, error, sync, sub, heard, acts, faults>>

Events == 1 .. MaxEvents
Ids == 1 .. Slots

\* COALESCE(max(sequence_number), 0) over the events of a snapshot.
Latest(S) == IF S = {} THEN 0 ELSE CHOOSE m \in S : \A n \in S : n <= m
Greater(a, b) == IF a >= b THEN a ELSE b

None == -1          \* null in the two sequence references
Unread == {0}       \* a response that has not arrived
Attempts == 3       \* snapshot pairs one refresh reads at most

NoView == [org |-> NoOrg, p |-> {}, h |-> {}, g |-> {}]
NoSub == [org |-> NoOrg, key |-> 0, cursor |-> 0, reply |-> Unread]
Idle == [stage |-> "idle", kind |-> "none", org |-> NoOrg, min |-> 0,
         current |-> FALSE, attempt |-> 0, p |-> Unread, h |-> Unread, g |-> Unread]

Init ==
    /\ next = 0 /\ open = {} /\ committed = {}
    /\ org = FirstOrg /\ rendered = FirstOrg
    /\ stored \in Orgs \cup {NoOrg}
    /\ due = {"mount"}
    /\ refresh = [i \in Ids |-> Idle]
    /\ shown = NoView
    /\ aligned = None /\ pending = None
    /\ eventOrg = NoOrg
    /\ error = FALSE /\ sync = "connecting"
    /\ sub = NoSub
    /\ heard = 0
    /\ acts = 0 /\ faults = 0

-----------------------------------------------------------------------------
(* The event log. *)

Insert ==
    /\ next < MaxEvents
    /\ next' = next + 1
    /\ open' = open \cup {next + 1}
    /\ UNCHANGED <<committed, org, refresh, shown, marks, eventOrg, status, page, sub, budget>>

Commit(e) ==
    /\ e \in open
    /\ open' = open \ {e}
    /\ committed' = committed \cup {e}
    /\ UNCHANGED <<next, org, refresh, shown, marks, eventOrg, status, page, sub, budget>>

Rollback(e) ==
    /\ e \in open
    /\ open' = open \ {e}
    /\ UNCHANGED <<next, committed, org, refresh, shown, marks, eventOrg, status, page, sub, budget>>

-----------------------------------------------------------------------------
(* refreshWorkspace.  A generation counter tells the newest refresh from   *)
(* the others; here each refresh carries whether its generation is still   *)
(* the counter's value.                                                    *)

Begun(kind, o, min) ==
    [Idle EXCEPT !.stage = "snapshots", !.kind = kind, !.org = o, !.min = min,
                 !.current = TRUE]

Superseded(r) == [r EXCEPT !.current = FALSE]

\* Mutant: the generation is not compared.
IsCurrentAnyGeneration(i) == refresh[i].org = org

IsCurrent(i) == refresh[i].current /\ refresh[i].org = org

Free(i) == refresh[i].stage = "idle"

Begin(i, kind, o, min) ==
    /\ refresh' = [j \in Ids |-> IF j = i THEN Begun(kind, o, min) ELSE Superseded(refresh[j])]
    /\ error' = FALSE

\* The end of a refresh; that of an event refresh also gives the guard back.
Finish(i) ==
    /\ refresh' = [refresh EXCEPT ![i] = Idle]
    /\ eventOrg' = IF refresh[i].kind = "event" /\ eventOrg = refresh[i].org
                   THEN NoOrg ELSE eventOrg

\* Mutant: the guard is given back only by an event refresh that succeeds.
RejectKeepsGuard(i) ==
    /\ refresh' = [refresh EXCEPT ![i] = Idle]
    /\ IF IsCurrent(i)
       THEN error' = TRUE /\ sync' = "disconnected"
       ELSE UNCHANGED status
    /\ UNCHANGED <<shown, aligned, pending, eventOrg>>

\* The catch block: only the newest refresh reports its failure.
Reject(i) ==
    /\ Finish(i)
    /\ IF IsCurrent(i)
       THEN error' = TRUE /\ sync' = "disconnected"
       ELSE UNCHANGED status
    /\ UNCHANGED <<shown, aligned, pending>>

ReadPortfolio(i) ==
    /\ refresh[i].stage = "snapshots" /\ refresh[i].p = Unread
    /\ refresh' = [refresh EXCEPT ![i].p = committed]
    /\ UNCHANGED <<server, org, shown, marks, eventOrg, status, page, sub, budget>>

ReadHierarchy(i) ==
    /\ refresh[i].stage = "snapshots" /\ refresh[i].h = Unread
    /\ refresh' = [refresh EXCEPT ![i].h = committed]
    /\ UNCHANGED <<server, org, shown, marks, eventOrg, status, page, sub, budget>>

Aligned(r) == Latest(r.p) = Latest(r.h) /\ Latest(r.p) >= r.min

\* Both snapshots have arrived: go on, read the pair again, or give up.
Compare(i) ==
    LET r == refresh[i] IN
    /\ r.stage = "snapshots" /\ r.p # Unread /\ r.h # Unread
    /\ \/ /\ Aligned(r) /\ IsCurrent(i)
          /\ refresh' = [refresh EXCEPT ![i].stage = "conversation"]
          /\ UNCHANGED <<shown, aligned, pending, eventOrg, status>>
       \/ /\ Aligned(r) /\ ~IsCurrent(i)
          /\ Finish(i)
          /\ UNCHANGED <<shown, aligned, pending, status>>
       \/ /\ ~Aligned(r) /\ r.attempt + 1 < Attempts
          /\ refresh' = [refresh EXCEPT ![i] = [r EXCEPT !.attempt = @ + 1,
                                                         !.p = Unread, !.h = Unread]]
          /\ UNCHANGED <<shown, aligned, pending, eventOrg, status>>
       \/ /\ ~Aligned(r) /\ r.attempt + 1 >= Attempts
          /\ Reject(i)
    /\ UNCHANGED <<server, org, page, sub, heard, budget>>

\* The conversation is read later than the snapshots and its number must
\* not be behind theirs; the graph destination then asks for its projection.
Converse(i) ==
    LET r == refresh[i] IN
    /\ r.stage = "conversation"
    /\ \/ /\ Latest(committed) < Latest(r.p)
          /\ Reject(i)
       \/ /\ Latest(committed) >= Latest(r.p) /\ ~IsCurrent(i)
          /\ Finish(i)
          /\ UNCHANGED <<shown, aligned, pending, status>>
       \/ /\ Latest(committed) >= Latest(r.p) /\ IsCurrent(i)
          /\ refresh' = [refresh EXCEPT ![i].stage = "graph",
                                        ![i].g = IF GraphShown THEN Unread ELSE r.h]
          /\ UNCHANGED <<shown, aligned, pending, eventOrg, status>>
    /\ UNCHANGED <<server, org, page, sub, heard, budget>>

ReadGraph(i) ==
    /\ refresh[i].stage = "graph" /\ refresh[i].g = Unread
    /\ refresh' = [refresh EXCEPT ![i].g = committed]
    /\ UNCHANGED <<server, org, shown, marks, eventOrg, status, page, sub, budget>>

\* setPortfolio, setHierarchy, setGraphProjection and the references.
Display(i) ==
    LET r == refresh[i]  seq == Latest(r.p) IN
    /\ shown' = [org |-> r.org, p |-> r.p, h |-> r.h, g |-> r.g]
    /\ aligned' = seq
    /\ pending' = IF seq >= pending THEN None ELSE pending
    /\ sync' = IF seq >= pending THEN "connected" ELSE "connecting"

\* The last checks, and the state updates when they hold.
Publish(i) ==
    LET r == refresh[i] IN
    /\ r.stage = "graph" /\ r.g # Unread
    /\ \/ /\ Latest(r.g) # Latest(r.h)
          /\ Reject(i)
       \/ /\ Latest(r.g) = Latest(r.h) /\ ~IsCurrent(i)
          /\ Finish(i)
          /\ UNCHANGED <<shown, aligned, pending, status>>
       \/ /\ Latest(r.g) = Latest(r.h) /\ IsCurrent(i)
          /\ Display(i)
          /\ Finish(i)
          /\ UNCHANGED error
    /\ UNCHANGED <<server, org, page, sub, heard, budget>>

\* A request of the refresh fails.
RefreshFails(i) ==
    /\ ~Free(i) /\ faults < MaxFaults
    /\ Reject(i)
    /\ faults' = faults + 1
    /\ UNCHANGED <<server, org, page, sub, heard, acts>>

-----------------------------------------------------------------------------
(* The subscription (subscribeCanonicalPortfolioEvents and its callbacks). *)

\* An effect of a page that shows organization o starts it at the displayed
\* number; nothing displayed, no subscription.
Subscribed(o) ==
    IF shown.org = NoOrg THEN NoSub
    ELSE [NoSub EXCEPT !.org = o, !.key = Latest(shown.p), !.cursor = Latest(shown.p)]

\* The displayed number has changed: the old subscription is closed with its poll.
Resubscribe ==
    /\ (sub.org = NoOrg) # (shown.org = NoOrg) \/ sub.key # Latest(shown.p)
    /\ sub' = Subscribed(rendered)
    /\ UNCHANGED <<server, org, refresh, shown, marks, eventOrg, status, page, budget>>

PollReads ==
    /\ sub.org # NoOrg /\ sub.reply = Unread
    /\ sub' = [sub EXCEPT !.reply = {e \in committed : e > sub.cursor}]
    /\ UNCHANGED <<server, org, refresh, shown, marks, eventOrg, status, page, budget>>

NextSequence == IF sub.reply = {} THEN sub.cursor ELSE Latest(sub.reply)

\* Mutant: the poll reports connected whenever it finds no new events.
UpToDateNoEvents == sub.reply = {}

\* The reply leaves nothing to do: no events, nothing pending, the display
\* as far as the feed.
UpToDate == sub.reply = {} /\ pending = None /\ aligned # None /\ NextSequence <= aligned

\* refreshPendingEvents: one event refresh per organization at a time.
RefreshPending ==
    IF eventOrg = org
    THEN UNCHANGED <<refresh, eventOrg, error>>
    ELSE /\ \E i \in Ids : Free(i) /\ (\A j \in Ids : Free(j) => i <= j)
                           /\ Begin(i, "event", org, Greater(pending, NextSequence))
         /\ eventOrg' = org

PollArrives ==
    /\ sub.org # NoOrg /\ sub.reply # Unread
    /\ sub' = [sub EXCEPT !.cursor = NextSequence, !.reply = Unread]
    /\ \/ /\ sub.org # org
          /\ UNCHANGED <<refresh, pending, eventOrg, status, heard>>
       \/ /\ sub.org = org /\ UpToDate
          /\ sync' = "connected"
          /\ heard' = Greater(heard, NextSequence)
          /\ UNCHANGED <<refresh, pending, eventOrg, error>>
       \/ /\ sub.org = org /\ ~UpToDate
          /\ pending' = Greater(pending, NextSequence)
          /\ sync' = "connecting"
          /\ heard' = Greater(heard, NextSequence)
          /\ RefreshPending
    /\ UNCHANGED <<server, org, shown, aligned, page, budget>>

PollFails ==
    /\ sub.org # NoOrg /\ sub.reply = Unread /\ faults < MaxFaults
    /\ faults' = faults + 1
    /\ sync' = IF sub.org = org THEN "disconnected" ELSE sync
    /\ UNCHANGED <<server, org, refresh, shown, marks, eventOrg, error, page, sub, acts>>

-----------------------------------------------------------------------------
(* The user, and the effects React runs after an act. *)

Due == due \cup (IF rendered # org THEN {"organization"} ELSE {})

RunsRestore(d) == d \cap {"mount", "organization", "route"} # {}
RunsRefresh(d) == d \cap {"mount", "organization", "scope"} # {}

\* The storage effect makes the stored organization the active one, whichever
\* the page shows, and forgets the marks; the display and the status stay.
Restore ==
    /\ org' = stored
    /\ aligned' = None /\ pending' = None /\ heard' = 0
    /\ eventOrg' = NoOrg

\* The effect that refreshes aborts its previous refresh, moves the generation
\* on and starts again for the organization the page shows.
RefreshAnew(o) ==
    /\ \E i \in Ids :
        /\ Free(i) \/ refresh[i].kind = "effect"
        /\ \A j \in Ids : Free(j) \/ refresh[j].kind = "effect" => i <= j
        /\ refresh' = [j \in Ids |->
             IF j = i THEN Begun("effect", o, Greater(pending', 0))
             ELSE IF refresh[j].kind = "effect" THEN Idle
             ELSE Superseded(refresh[j])]
    /\ error' = FALSE /\ sync' = "connecting"

\* React renders some of what is due and runs, in this order, the effect that
\* restores the stored organization, the one that refreshes, the one that
\* subscribes and the one that stores what is shown.  The stored or routed
\* scope may replace the page's.
RunEffects ==
    \E d \in SUBSET Due \ {{}}, scope \in SUBSET {"scope"} :
        LET o == IF "organization" \in d THEN org ELSE rendered IN
        /\ rendered' = o
        /\ scope # {} => RunsRestore(d)
        /\ due' = (due \ d) \cup scope
        /\ IF RunsRestore(d) /\ stored # NoOrg THEN Restore
           ELSE UNCHANGED <<org, aligned, pending, heard, eventOrg>>
        /\ IF RunsRefresh(d)
           THEN RefreshAnew(o) /\ sub' = Subscribed(o) /\ stored' = o
           ELSE UNCHANGED <<refresh, status, sub, stored>>
        /\ UNCHANGED <<server, shown, budget>>

SwitchOrganization(o) ==
    /\ acts < MaxActs /\ "mount" \notin due /\ o # rendered
    /\ acts' = acts + 1
    /\ org' = o
    /\ refresh' = [i \in Ids |-> Superseded(refresh[i])]
    /\ shown' = NoView
    /\ aligned' = None /\ pending' = None /\ heard' = 0
    /\ eventOrg' = NoOrg
    /\ error' = FALSE /\ sync' = "connecting"
    /\ UNCHANGED <<server, page, sub, faults>>

\* The business scope changes: the user's choice, or a displayed portfolio that
\* lacks the business.  On the dashboard the route follows it.
ChangeScope ==
    /\ acts < MaxActs /\ shown.org # NoOrg
    /\ acts' = acts + 1
    /\ \E changed \in {{"scope"}, {"scope", "route"}} :
        /\ GraphShown => "route" \notin changed
        /\ due' = due \cup changed
    /\ UNCHANGED <<server, org, rendered, stored, refresh, shown, marks, eventOrg, status, sub, faults>>

\* The user follows a link to another business or entity of the same page.
ChangeRoute ==
    /\ acts < MaxActs /\ "mount" \notin due
    /\ acts' = acts + 1
    /\ due' = due \cup {"route"}
    /\ UNCHANGED <<server, org, rendered, stored, refresh, shown, marks, eventOrg, status, sub, faults>>

\* The user selects an entity on display: of the effects only the one that
\* stores what is shown runs.
SelectEntity ==
    /\ acts < MaxActs /\ shown.org # NoOrg
    /\ acts' = acts + 1
    /\ stored' = rendered
    /\ UNCHANGED <<server, org, rendered, due, refresh, shown, marks, eventOrg, status, sub, faults>>

\* Another page of the member's stores the organization it shows.
OtherPage(o) ==
    /\ faults < MaxFaults /\ o # stored
    /\ faults' = faults + 1
    /\ stored' = o
    /\ UNCHANGED <<server, org, rendered, due, refresh, shown, marks, eventOrg, status, sub, acts>>

\* The Retry button, and the children's onRefresh.
AskRefresh ==
    /\ acts < MaxActs
    /\ error \/ shown.org # NoOrg
    /\ acts' = acts + 1
    /\ \E i \in Ids : Free(i) /\ (\A j \in Ids : Free(j) => i <= j)
                      /\ Begin(i, "manual", rendered, Greater(pending, 0))
    /\ sync' = "connecting"
    /\ UNCHANGED <<server, org, page, shown, marks, eventOrg, sub, faults>>

-----------------------------------------------------------------------------
RefreshStep(i) ==
    \/ ReadPortfolio(i) \/ ReadHierarchy(i) \/ Compare(i)
    \/ Converse(i) \/ ReadGraph(i) \/ Publish(i)

Next ==
    \/ Insert
    \/ \E e \in Events : Commit(e) \/ Rollback(e)
    \/ \E i \in Ids : RefreshStep(i) \/ RefreshFails(i)
    \/ Resubscribe \/ PollReads \/ PollArrives \/ PollFails
    \/ RunEffects
    \/ \E o \in Orgs : SwitchOrganization(o) \/ OtherPage(o)
    \/ ChangeScope \/ ChangeRoute \/ SelectEntity \/ AskRefresh

Spec == Init /\ [][Next]_vars

\* Requests are answered or fail, effects run, the polling timer fires, and
\* transactions end.  Nothing is assumed of the user.
Fairness ==
    /\ \A e \in Events : WF_vars(Commit(e) \/ Rollback(e))
    /\ \A i \in Ids : WF_vars(RefreshStep(i))
    /\ WF_vars(Resubscribe) /\ WF_vars(PollReads) /\ WF_vars(PollArrives)
    /\ WF_vars(RunEffects)

FairSpec == Spec /\ Fairness

-----------------------------------------------------------------------------
(* Properties. *)

Snapshots == (SUBSET Events) \cup {Unread}

Refreshes ==
    [stage : {"idle", "snapshots", "conversation", "graph"},
     kind : {"none", "effect", "event", "manual"}, org : Orgs \cup {NoOrg},
     min : 0 .. MaxEvents, current : BOOLEAN, attempt : 0 .. Attempts - 1,
     p : Snapshots, h : Snapshots, g : Snapshots]

\* Every variable keeps its type.
TypeOK ==
    /\ next \in 0 .. MaxEvents /\ open \subseteq Events /\ committed \subseteq Events
    /\ org \in Orgs /\ rendered \in Orgs /\ stored \in Orgs \cup {NoOrg}
    /\ due \subseteq {"mount", "scope", "route"}
    /\ refresh \in [Ids -> Refreshes]
    /\ shown \in [org : Orgs \cup {NoOrg}, p : Snapshots, h : Snapshots, g : Snapshots]
    /\ aligned \in None .. MaxEvents /\ pending \in None .. MaxEvents
    /\ eventOrg \in Orgs \cup {NoOrg}
    /\ error \in BOOLEAN /\ sync \in {"connecting", "connected", "disconnected"}
    /\ sub \in [org : Orgs \cup {NoOrg}, key : 0 .. MaxEvents, cursor : 0 .. MaxEvents,
               reply : Snapshots]
    /\ heard \in 0 .. MaxEvents
    /\ acts \in 0 .. MaxActs /\ faults \in 0 .. MaxFaults

\* "Connected" is said of a complete workspace of the organization the page
\* names, whose snapshots carry one number, with nothing pending: polls,
\* refreshes, failures and acts of the user in any order never show it early
\* (onPoll, onEvents, refreshWorkspace).  The storage effect leaves it on show
\* when it forgets the marks; while the marks are kept, the number is at least
\* the greatest the feed has reported since, and the organization the active one.
ConnectedIsAligned ==
    sync = "connected" =>
        /\ shown.org = rendered
        /\ Latest(shown.h) = Latest(shown.p) /\ Latest(shown.g) = Latest(shown.p)
        /\ pending = None
        /\ aligned # None => aligned = Latest(shown.p) /\ aligned >= heard /\ shown.org = org

\* Two refreshes that overlap never put an older snapshot over a newer one: as
\* long as one organization is displayed the display only gains events, and
\* what is put on display belongs to the organization active at that moment,
\* whatever the storage effect and the user did while it was read.
NeverBackwards ==
    [][/\ shown' # shown => shown'.org \in {org', NoOrg}
       /\ shown'.org = shown.org => /\ shown.p \subseteq shown'.p
                                    /\ shown.h \subseteq shown'.h
                                    /\ shown.g \subseteq shown'.g]_vars

\* The guard that keeps event refreshes one at a time never outlives its refresh:
\* whoever else begins, fails or is aborted meanwhile, an event refresh of the
\* active organization is under way that gives it back (eventRefreshOrganizationRef);
\* a guard nobody gives back would silence the feed for good.
GuardIsHeld ==
    eventOrg # NoOrg =>
        /\ eventOrg = org
        /\ \E i \in Ids : refresh[i].kind = "event" /\ refresh[i].org = eventOrg

EventRefreshes == {i \in Ids : refresh[i].kind = "event"}

\* Once a workspace is displayed, it follows the log: the display reaches every
\* number a later snapshot would carry, whatever fails on the way and however
\* often the storage effect forgets what was pending (refreshPendingEvents, run
\* again by each later poll).  Excepted are a user who leaves the organization,
\* a page whose organization never settles because the stored and the rendered
\* one keep replacing each other, and event refreshes that for ever overlap:
\* the storage effect takes the guard from one, and then each that ends gives
\* back the guard of its successor, which the next poll supersedes.
EventsAreShown ==
    <>[](rendered = org /\ Cardinality(EventRefreshes) <= 1) =>
        \A n \in Events : (Latest(committed) >= n /\ shown.org # NoOrg)
                            ~> (Latest(shown.p) >= n \/ shown.org = NoOrg)

\* What refreshWorkspace says of its comparison of the two numbers: "Entral
\* will retry before displaying mixed versions".  Portfolio and hierarchy on
\* display show the same events.
NeverMixed == shown.p = shown.h

=============================================================================
