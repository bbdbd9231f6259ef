---------------------------- MODULE FrontendProofs ----------------------------
(***************************************************************************)
(* Proofs about the two components of the member's browser: WorkspaceSync, *)
(* for any organizations, events and refreshes, and then GraphLayout, for  *)
(* any renderers and any number of requests.                               *)
(*                                                                         *)
(* The workspace publishes a refresh only if it is the current one, the    *)
(* newest, and the current refresh has read all of its snapshots after     *)
(* what is displayed was published.  Snapshots only grow, so the display   *)
(* only advances.                                                          *)
(***************************************************************************)
EXTENDS WorkspaceSync, GraphLayout, WellFoundedInduction, TLAPS

-----------------------------------------------------------------------------
(* The member workspace: the inductive invariant.                          *)

\* What is known of a refresh r while the page names organization o, c is
\* committed and s is displayed. What it has read is committed; the current
\* refresh, the newest, is bound to the named organization and has read
\* nothing older than the display; past the comparison its sources agree on
\* the latest event.
Sound(r, o, c, s) ==
    /\ r.stage = "idle" => r.kind = "none" /\ ~r.current
    /\ r.current => r.org = o
    /\ r.p # Unread => r.p \subseteq c /\ (r.current => s.p \subseteq r.p)
    /\ r.h # Unread => r.h \subseteq c /\ (r.current => s.h \subseteq r.h)
    /\ r.g # Unread => r.g \subseteq c /\ (r.current => s.g \subseteq r.g)
    /\ r.stage \in {"conversation", "graph"} =>
           r.p # Unread /\ r.h # Unread /\ Latest(r.p) = Latest(r.h)
    /\ r.stage = "graph" /\ ~GraphShown => r.g = r.h

\* Every refresh is sound, and at most one is the current one.
RefreshesSound ==
    /\ \A i \in Ids : Sound(refresh[i], rendered, committed, shown)
    /\ \A i, j \in Ids : refresh[i].current /\ refresh[j].current => i = j

\* The three parts of the display stand at the same event. While the marks are
\* kept it is the aligned one, and the display belongs to the active
\* organization, which the page names.
DisplaySound ==
    /\ shown.p \subseteq committed /\ shown.h \subseteq committed /\ shown.g \subseteq committed
    /\ shown.org = NoOrg => shown = NoView /\ aligned = None
    /\ Latest(shown.h) = Latest(shown.p) /\ Latest(shown.g) = Latest(shown.p)
    /\ aligned # None => aligned = Latest(shown.p) /\ shown.org = org /\ rendered = org
    /\ ~GraphShown => shown.g = shown.h

\* The subscription is the one of the organization the page names.
SubSound == sub.org \in {NoOrg, rendered}

\* What the feed has reported is displayed or pending.
HeardIsKept == (heard = 0) \/ (heard <= aligned) \/ (heard <= pending)

Inv == /\ RefreshesSound /\ DisplaySound /\ SubSound /\ HeardIsKept
       /\ ConnectedIsAligned /\ GuardIsHeld

-----------------------------------------------------------------------------
\* A nonempty set of event numbers has a greatest one: the gap to the bound
\* has a least one, because < is well founded on Nat.
LEMMA GreatestOf ==
    ASSUME NEW S \in SUBSET (0 .. MaxEvents), S # {}
    PROVE  \E m \in S : \A n \in S : n <= m
<1> DEFINE Gap == {MaxEvents - n : n \in S}
           Less == OpToRel(<, Nat)
<1>1. Gap \in SUBSET Nat /\ Gap # {}
  <2>1. \A n \in S : MaxEvents - n \in Nat
    BY BoundAssumption
  <2> QED
    BY <2>1
<1>2. PICK k \in Gap : \A j \in Gap : <<j, k>> \notin Less
  <2> HIDE DEF Gap, Less
  <2>1. IsWellFoundedOn(Less, Nat)
    BY NatLessThanWellFounded DEF Less
  <2> QED
    BY <1>1, <2>1, WFMin
<1>3. \A j \in Gap : k <= j
  <2> SUFFICES ASSUME NEW j \in Gap
               PROVE  k <= j
    OBVIOUS
  <2>1. j \in Nat /\ k \in Nat
    BY <1>1
  <2>2. ~(j < k)
    BY <1>2, <2>1 DEF OpToRel
  <2> QED
    BY <2>1, <2>2
<1>4. PICK m \in S : k = MaxEvents - m
  OBVIOUS
<1>5. ASSUME NEW n \in S
      PROVE  n <= m
  <2>1. MaxEvents - n \in Gap
    OBVIOUS
  <2>2. MaxEvents - m <= MaxEvents - n
    BY <1>3, <1>4, <2>1
  <2>3. n \in Nat /\ m \in Nat
    BY BoundAssumption
  <2> QED
    BY <2>2, <2>3, BoundAssumption
<1> QED
  BY <1>5

\* Latest is the greatest element, or 0 for the empty set.
LEMMA LatestOf ==
    ASSUME NEW S \in SUBSET (0 .. MaxEvents)
    PROVE  /\ Latest(S) \in 0 .. MaxEvents
           /\ \A n \in S : n <= Latest(S)
           /\ S # {} => Latest(S) \in S
<1>1. CASE S = {}
  BY <1>1, BoundAssumption DEF Latest
<1>2. CASE S # {}
  <2>1. \E m \in S : \A n \in S : n <= m
    BY <1>2, GreatestOf
  <2>2. Latest(S) \in S /\ \A n \in S : n <= Latest(S)
    BY <1>2, <2>1 DEF Latest
  <2> QED
    BY <2>2
<1> QED
  BY <1>1, <1>2

\* A later snapshot has a later latest event.
LEMMA LatestGrows ==
    ASSUME NEW T \in SUBSET Events, NEW S \in SUBSET T
    PROVE  Latest(S) <= Latest(T)
<1>1. S \in SUBSET (0 .. MaxEvents) /\ T \in SUBSET (0 .. MaxEvents)
  BY DEF Events
<1>2. CASE S = {}
  <2>1. Latest(S) = 0 /\ Latest(T) \in 0 .. MaxEvents
    BY <1>1, <1>2, LatestOf DEF Latest
  <2> QED
    BY <2>1
<1>3. CASE S # {}
  BY <1>1, <1>3, LatestOf
<1> QED
  BY <1>2, <1>3

TypesAndInv == TypeOK /\ Inv

\* What NeverBackwards says of a step.
Forward ==
    /\ shown' # shown => shown'.org \in {org', NoOrg}
    /\ shown'.org = shown.org => /\ shown.p \subseteq shown'.p
                                 /\ shown.h \subseteq shown'.h
                                 /\ shown.g \subseteq shown'.g

-----------------------------------------------------------------------------
(* Refreshes, one at a time.                                               *)

\* Greater is the maximum.
LEMMA GreaterOf ==
    ASSUME NEW a \in Int, NEW b \in Int
    PROVE  Greater(a, b) \in {a, b} /\ a <= Greater(a, b) /\ b <= Greater(a, b)
BY DEF Greater

\* A free slot is sound whatever is selected, committed and displayed.
LEMMA SoundIdle ==
    ASSUME NEW o, NEW c, NEW s
    PROVE  Sound(Idle, o, c, s) /\ Idle \in Refreshes
<1>1. Sound(Idle, o, c, s)
  BY DEF Sound, Idle
<1>2. Idle \in Refreshes
  BY BoundAssumption DEF Idle, Refreshes, Snapshots, Attempts
<1> QED
  BY <1>1, <1>2

\* A commit adds to what snapshots see.
LEMMA SoundLater ==
    ASSUME NEW r, NEW o, NEW c, NEW s, NEW d, Sound(r, o, c, s), c \subseteq d
    PROVE  Sound(r, o, d, s)
BY DEF Sound

\* A superseded refresh is bound to no organization and to no display.
LEMMA SoundOutdated ==
    ASSUME NEW r \in Refreshes, NEW o, NEW c, NEW s, NEW v, NEW t, Sound(r, o, c, s)
    PROVE  /\ Superseded(r) \in Refreshes /\ ~Superseded(r).current
           /\ Sound(Superseded(r), v, c, t)
           /\ Superseded(r).kind = r.kind /\ Superseded(r).org = r.org
           /\ ~r.current => Sound(r, v, c, t)
BY DEF Sound, Superseded, Refreshes

\* Refresh i changes, not into the current one.
Changes(i) ==
    /\ refresh' \in [Ids -> Refreshes]
    /\ \A j \in Ids \ {i} : refresh'[j] = refresh[j]
    /\ refresh'[i].current => refresh[i].current

\* The refreshes stay sound when one of them changes soundly.
LEMMA ChangeKeepsSound ==
    ASSUME TypeOK, RefreshesSound, NEW i \in Ids, Changes(i),
           Sound(refresh'[i], rendered, committed, shown), UNCHANGED <<rendered, shown, committed>>
    PROVE  RefreshesSound'
<1>1. \A j \in Ids : Sound(refresh'[j], rendered, committed, shown)
  BY DEF Changes, RefreshesSound
<1>2. \A j \in Ids : refresh'[j].current => refresh[j].current
  BY DEF Changes
<1> QED
  BY <1>1, <1>2 DEF RefreshesSound

\* The end of a refresh gives back the guard, if it has it.
LEMMA FinishEnds ==
    ASSUME TypeOK, Inv, NEW i \in Ids, Finish(i), org' = org
    PROVE  /\ Changes(i) /\ refresh'[i] = Idle
           /\ eventOrg' \in Orgs \cup {NoOrg} /\ GuardIsHeld'
<1>1. Changes(i) /\ refresh'[i] = Idle
  BY SoundIdle DEF Finish, TypeOK, Changes, Idle
<1>2. eventOrg' \in Orgs \cup {NoOrg}
  BY DEF Finish, TypeOK
<1>3. ASSUME eventOrg' # NoOrg
      PROVE  /\ eventOrg' = org
             /\ \E j \in Ids : refresh'[j].kind = "event" /\ refresh'[j].org = eventOrg'
  <2>1. /\ eventOrg' = eventOrg /\ eventOrg = org
        /\ ~(refresh[i].kind = "event" /\ eventOrg = refresh[i].org)
    BY <1>3 DEF Finish, Inv, GuardIsHeld
  <2>2. PICK j \in Ids : refresh[j].kind = "event" /\ refresh[j].org = eventOrg
    BY <1>3, <2>1 DEF Inv, GuardIsHeld
  <2>3. j # i
    BY <2>1, <2>2
  <2> QED
    BY <1>1, <2>1, <2>2, <2>3 DEF Changes
<1> QED
  BY <1>1, <1>2, <1>3 DEF GuardIsHeld

\* A refresh that ends without publishing changes nothing but the status.
LEMMA EndKeeps ==
    ASSUME TypeOK, Inv, NEW i \in Ids, Finish(i),
           UNCHANGED <<server, org, shown, marks, page, sub, acts>>,
           faults' \in 0 .. MaxFaults,
           \/ UNCHANGED status
           \/ error' = TRUE /\ sync' = "disconnected"
    PROVE  TypesAndInv' /\ Forward
<1>1. /\ Changes(i) /\ refresh'[i] = Idle
      /\ eventOrg' \in Orgs \cup {NoOrg} /\ GuardIsHeld'
  BY FinishEnds
<1>2. RefreshesSound'
  BY <1>1, SoundIdle, ChangeKeepsSound DEF Inv, server, page
<1>3. TypeOK'
  BY <1>1 DEF TypeOK, Changes, server, marks, status, page
<1>4. DisplaySound' /\ SubSound' /\ HeardIsKept' /\ ConnectedIsAligned'
  BY DEF Inv, DisplaySound, SubSound, HeardIsKept, ConnectedIsAligned, server, marks, status, page
<1>5. Forward
  BY DEF Forward, Inv, DisplaySound
<1> QED
  BY <1>1, <1>2, <1>3, <1>4, <1>5 DEF TypesAndInv, Inv

\* A rejected or superseded refresh ends.
LEMMA RejectKeeps ==
    ASSUME TypeOK, Inv, NEW i \in Ids, Reject(i),
           UNCHANGED <<server, org, page, sub, heard, acts>>,
           faults' \in 0 .. MaxFaults
    PROVE  TypesAndInv' /\ Forward
<1>1. /\ Finish(i) /\ UNCHANGED <<server, org, shown, marks, page, sub, acts>>
      /\ UNCHANGED status \/ (error' = TRUE /\ sync' = "disconnected")
  BY DEF Reject, marks
<1> QED
  BY <1>1, EndKeeps

\* A refresh goes on: it has read more, or passed a comparison.
LEMMA GoOnKeeps ==
    ASSUME TypeOK, Inv, NEW i \in Ids, Changes(i),
           Sound(refresh'[i], rendered, committed, shown),
           refresh'[i].kind = refresh[i].kind, refresh'[i].org = refresh[i].org,
           UNCHANGED <<server, org, shown, marks, eventOrg, status, page, sub, budget>>
    PROVE  TypesAndInv' /\ Forward
<1>1. RefreshesSound'
  BY ChangeKeepsSound DEF Inv, server, page
<1>2. TypeOK'
  BY DEF TypeOK, Changes, server, marks, status, page, budget
<1>3. GuardIsHeld'
  BY DEF Inv, GuardIsHeld, Changes
<1>4. DisplaySound' /\ SubSound' /\ HeardIsKept' /\ ConnectedIsAligned' /\ Forward
  BY DEF Inv, DisplaySound, SubSound, HeardIsKept, ConnectedIsAligned, Forward, server, marks, status, page
<1> QED
  BY <1>1, <1>2, <1>3, <1>4 DEF TypesAndInv, Inv

-----------------------------------------------------------------------------
(* The event log.                                                          *)

\* A step of the server's transactions.
LogStep == Insert \/ \E e \in Events : Commit(e) \/ Rollback(e)

\* Only commits reach what snapshots and the display are compared with.
LEMMA LogKeeps ==
    ASSUME TypeOK, Inv, LogStep
    PROVE  TypesAndInv' /\ Forward
<1>1. /\ next' \in 0 .. MaxEvents /\ open' \subseteq Events
      /\ committed' \subseteq Events /\ committed \subseteq committed'
      /\ UNCHANGED <<org, refresh, shown, marks, eventOrg, status, page, sub, budget>>
  <2>1. CASE Insert
    <3>1. next + 1 \in Events /\ next + 1 \in 0 .. MaxEvents
      BY <2>1, BoundAssumption DEF Insert, TypeOK, Events
    <3> QED
      BY <2>1, <3>1 DEF Insert, TypeOK
  <2>2. ASSUME NEW e \in Events, Commit(e) \/ Rollback(e)
        PROVE  <1>1!:
    BY <2>2 DEF Commit, Rollback, TypeOK
  <2> QED
    BY <2>1, <2>2 DEF LogStep
<1>2. \A i \in Ids : Sound(refresh[i], rendered, committed', shown)
  <2> TAKE i \in Ids
  <2>1. Sound(refresh[i], rendered, committed, shown)
    BY DEF Inv, RefreshesSound
  <2> QED
    BY <1>1, <2>1, SoundLater
<1>3. RefreshesSound'
  BY <1>1, <1>2 DEF Inv, RefreshesSound, page
<1>4. TypeOK'
  BY <1>1 DEF TypeOK, marks, status, budget, page
<1>5. DisplaySound' /\ SubSound' /\ HeardIsKept' /\ ConnectedIsAligned' /\ GuardIsHeld' /\ Forward
  BY <1>1 DEF Inv, DisplaySound, SubSound, HeardIsKept, ConnectedIsAligned, GuardIsHeld, Forward,
              marks, status, page
<1> QED
  BY <1>3, <1>4, <1>5 DEF TypesAndInv, Inv

-----------------------------------------------------------------------------
(* Refreshes read, compare and publish.                                    *)

\* A read takes what is committed at that moment, so the current refresh reads
\* nothing older than the display.
LEMMA ReadKeeps ==
    ASSUME TypeOK, Inv, NEW i \in Ids,
           ReadPortfolio(i) \/ ReadHierarchy(i) \/ ReadGraph(i)
    PROVE  TypesAndInv' /\ Forward
<1>1. UNCHANGED <<server, org, shown, marks, eventOrg, status, page, sub, budget>>
  BY DEF ReadPortfolio, ReadHierarchy, ReadGraph
<1>2. committed \in Snapshots
  BY DEF TypeOK, Snapshots
<1>3. /\ shown.p \subseteq committed /\ shown.h \subseteq committed /\ shown.g \subseteq committed
      /\ refresh[i] \in Refreshes /\ Sound(refresh[i], rendered, committed, shown)
  BY DEF Inv, DisplaySound, RefreshesSound, TypeOK
<1>4. CASE ReadPortfolio(i)
  <2>1. refresh' = [refresh EXCEPT ![i].p = committed] /\ refresh[i].stage = "snapshots"
    BY <1>4 DEF ReadPortfolio
  <2>2. /\ Changes(i) /\ refresh'[i] = [refresh[i] EXCEPT !.p = committed]
        /\ refresh'[i].kind = refresh[i].kind /\ refresh'[i].org = refresh[i].org
    BY <1>2, <2>1 DEF Changes, TypeOK, Refreshes
  <2>3. Sound(refresh'[i], rendered, committed, shown)
    BY <1>3, <2>1, <2>2 DEF Sound, Refreshes
  <2> QED
    BY <1>1, <2>2, <2>3, GoOnKeeps
<1>5. CASE ReadHierarchy(i)
  <2>1. refresh' = [refresh EXCEPT ![i].h = committed] /\ refresh[i].stage = "snapshots"
    BY <1>5 DEF ReadHierarchy
  <2>2. /\ Changes(i) /\ refresh'[i] = [refresh[i] EXCEPT !.h = committed]
        /\ refresh'[i].kind = refresh[i].kind /\ refresh'[i].org = refresh[i].org
    BY <1>2, <2>1 DEF Changes, TypeOK, Refreshes
  <2>3. Sound(refresh'[i], rendered, committed, shown)
    BY <1>3, <2>1, <2>2 DEF Sound, Refreshes
  <2> QED
    BY <1>1, <2>2, <2>3, GoOnKeeps
<1>6. CASE ReadGraph(i)
  <2>1. /\ refresh' = [refresh EXCEPT ![i].g = committed]
        /\ refresh[i].stage = "graph" /\ refresh[i].g = Unread
    BY <1>6 DEF ReadGraph
  <2>2. /\ Changes(i) /\ refresh'[i] = [refresh[i] EXCEPT !.g = committed]
        /\ refresh'[i].kind = refresh[i].kind /\ refresh'[i].org = refresh[i].org
    BY <1>2, <2>1 DEF Changes, TypeOK, Refreshes
  <2>3. GraphShown
    BY <1>3, <2>1 DEF Sound
  <2>4. Sound(refresh'[i], rendered, committed, shown)
    BY <1>3, <2>1, <2>2, <2>3 DEF Sound, Refreshes
  <2> QED
    BY <1>1, <2>2, <2>4, GoOnKeeps
<1> QED
  BY <1>4, <1>5, <1>6

\* A refresh that passes the comparison has aligned sources.
LEMMA CompareKeeps ==
    ASSUME TypeOK, Inv, NEW i \in Ids, Compare(i)
    PROVE  TypesAndInv' /\ Forward
<1> DEFINE r == refresh[i]
<1>1. /\ r \in Refreshes /\ Sound(r, rendered, committed, shown)
      /\ r.stage = "snapshots" /\ r.p # Unread /\ r.h # Unread
      /\ UNCHANGED <<server, org, page, sub, heard, budget>>
  BY DEF Inv, RefreshesSound, TypeOK, Compare
<1>2. CASE /\ Aligned(r)
           /\ refresh' = [refresh EXCEPT ![i].stage = "conversation"]
           /\ UNCHANGED <<shown, aligned, pending, eventOrg, status>>
  <2>1. /\ Changes(i) /\ refresh'[i] = [r EXCEPT !.stage = "conversation"]
        /\ refresh'[i].kind = r.kind /\ refresh'[i].org = r.org
    BY <1>2 DEF Changes, TypeOK, Refreshes
  <2>2. Sound(refresh'[i], rendered, committed, shown)
    BY <1>1, <1>2, <2>1 DEF Sound, Refreshes, Aligned
  <2> QED
    BY <1>1, <1>2, <2>1, <2>2, GoOnKeeps DEF marks
<1>3. CASE Finish(i) /\ UNCHANGED <<shown, aligned, pending, status>>
  <2>1. faults' \in 0 .. MaxFaults /\ acts' = acts
    BY <1>1 DEF budget, TypeOK
  <2> QED
    BY <1>1, <1>3, <2>1, EndKeeps DEF marks
<1>4. CASE /\ r.attempt + 1 < Attempts
           /\ refresh' = [refresh EXCEPT ![i] = [r EXCEPT !.attempt = @ + 1,
                                                         !.p = Unread, !.h = Unread]]
           /\ UNCHANGED <<shown, aligned, pending, eventOrg, status>>
  <2>1. r.attempt + 1 \in 0 .. Attempts - 1 /\ Unread \in Snapshots
    BY <1>1, <1>4 DEF Refreshes, Attempts, Snapshots
  <2>2. /\ Changes(i)
        /\ refresh'[i] = [r EXCEPT !.attempt = @ + 1, !.p = Unread, !.h = Unread]
        /\ refresh'[i].kind = r.kind /\ refresh'[i].org = r.org
    <3> DEFINE q == [r EXCEPT !.attempt = @ + 1, !.p = Unread, !.h = Unread]
    <3>1. /\ q \in Refreshes
          /\ q.kind = r.kind /\ q.org = r.org /\ q.current = r.current
      BY <1>1, <2>1 DEF Refreshes
    <3>2. refresh' = [refresh EXCEPT ![i] = q] /\ refresh \in [Ids -> Refreshes]
      BY <1>4 DEF TypeOK
    <3> HIDE DEF q
    <3>3. Changes(i) /\ refresh'[i] = q
      BY <3>1, <3>2 DEF Changes
    <3> QED
      BY <3>1, <3>3 DEF q
  <2>3. Sound(refresh'[i], rendered, committed, shown)
    BY <1>1, <2>2 DEF Sound, Refreshes
  <2> QED
    BY <1>1, <1>4, <2>2, <2>3, GoOnKeeps DEF marks
<1>5. CASE Reject(i)
  <2>1. faults' \in 0 .. MaxFaults /\ acts' = acts
    BY <1>1 DEF budget, TypeOK
  <2> QED
    BY <1>1, <1>5, <2>1, RejectKeeps
<1> QED
  BY <1>2, <1>3, <1>4, <1>5 DEF Compare

\* The conversation's number is compared, and the rest of the world shows the
\* snapshots of the portfolio and the hierarchy, which agree.
LEMMA ConverseKeeps ==
    ASSUME TypeOK, Inv, NEW i \in Ids, Converse(i)
    PROVE  TypesAndInv' /\ Forward
<1> DEFINE r == refresh[i]
<1>1. /\ r \in Refreshes /\ Sound(r, rendered, committed, shown)
      /\ r.stage = "conversation" /\ r.p # Unread /\ r.h # Unread
      /\ UNCHANGED <<server, org, page, sub, heard, budget>>
      /\ faults' \in 0 .. MaxFaults /\ acts' = acts
  BY DEF Inv, RefreshesSound, TypeOK, Converse, Sound, budget
<1>2. CASE Reject(i)
  BY <1>1, <1>2, RejectKeeps
<1>3. CASE Finish(i) /\ UNCHANGED <<shown, aligned, pending, status>>
  BY <1>1, <1>3, EndKeeps DEF marks
<1>4. CASE /\ refresh' = [refresh EXCEPT ![i].stage = "graph",
                                         ![i].g = IF GraphShown THEN Unread ELSE r.h]
           /\ UNCHANGED <<shown, aligned, pending, eventOrg, status>>
  <2>1. (IF GraphShown THEN Unread ELSE r.h) \in Snapshots
    BY <1>1 DEF Refreshes, Snapshots
  <2>2. /\ Changes(i)
        /\ refresh'[i] = [r EXCEPT !.stage = "graph",
                                   !.g = IF GraphShown THEN Unread ELSE r.h]
        /\ refresh'[i].kind = r.kind /\ refresh'[i].org = r.org
    <3> DEFINE q == [r EXCEPT !.stage = "graph", !.g = IF GraphShown THEN Unread ELSE r.h]
    <3>1. /\ q \in Refreshes
          /\ q.kind = r.kind /\ q.org = r.org /\ q.current = r.current
      BY <1>1, <2>1 DEF Refreshes
    <3>2. refresh' = [refresh EXCEPT ![i] = q] /\ refresh \in [Ids -> Refreshes]
      BY <1>4 DEF TypeOK
    <3> HIDE DEF q
    <3>3. Changes(i) /\ refresh'[i] = q
      BY <3>1, <3>2 DEF Changes
    <3> QED
      BY <3>1, <3>3 DEF q
  <2>3. ~GraphShown => shown.g = shown.h
    BY DEF Inv, DisplaySound
  <2>4. Sound(refresh'[i], rendered, committed, shown)
    <3>1. CASE GraphShown
      BY <1>1, <2>2, <3>1 DEF Sound, Refreshes
    <3>2. CASE ~GraphShown
      BY <1>1, <2>2, <2>3, <3>2 DEF Sound, Refreshes
    <3> QED
      BY <3>1, <3>2
  <2> QED
    BY <1>1, <1>4, <2>2, <2>4, GoOnKeeps DEF marks
<1> QED
  BY <1>2, <1>3, <1>4 DEF Converse


\* The newest refresh read all of its snapshots after the display it replaces
\* was published, so it replaces them by later ones.
LEMMA PublishKeeps ==
    ASSUME TypeOK, Inv, NEW i \in Ids, Publish(i)
    PROVE  TypesAndInv' /\ Forward
<1> DEFINE r == refresh[i]
           seq == Latest(r.p)
<1>1. /\ r \in Refreshes /\ Sound(r, rendered, committed, shown)
      /\ r.stage = "graph" /\ r.g # Unread
      /\ UNCHANGED <<server, org, page, sub, heard, budget>>
      /\ faults' \in 0 .. MaxFaults /\ acts' = acts
  BY DEF Inv, RefreshesSound, TypeOK, Publish, budget
<1>2. CASE Reject(i)
  BY <1>1, <1>2, RejectKeeps
<1>3. CASE Finish(i) /\ UNCHANGED <<shown, aligned, pending, status>>
  BY <1>1, <1>3, EndKeeps DEF marks
<1>4. CASE /\ Latest(r.g) = Latest(r.h) /\ IsCurrent(i)
           /\ Display(i) /\ Finish(i) /\ UNCHANGED error
  <2>1. /\ shown' = [org |-> org, p |-> r.p, h |-> r.h, g |-> r.g]
        /\ aligned' = seq
        /\ pending' = IF seq >= pending THEN None ELSE pending
        /\ sync' = IF seq >= pending THEN "connected" ELSE "connecting"
        /\ r.current /\ org' = org /\ committed' = committed /\ heard' = heard
        /\ rendered' = rendered /\ rendered = org
    BY <1>1, <1>4 DEF Display, IsCurrent, Sound, server, page
  <2>2. /\ Changes(i) /\ refresh'[i] = Idle
        /\ eventOrg' \in Orgs \cup {NoOrg} /\ GuardIsHeld'
    BY <1>1, <1>4, FinishEnds
  <2>3. /\ r.p \subseteq committed /\ r.h \subseteq committed /\ r.g \subseteq committed
        /\ shown.p \subseteq r.p /\ shown.h \subseteq r.h /\ shown.g \subseteq r.g
        /\ seq = Latest(r.h)
        /\ ~GraphShown => r.g = r.h
    BY <1>1, <2>1 DEF Sound
  <2>4. r.p \in SUBSET Events /\ r.h \in SUBSET Events /\ r.g \in SUBSET Events
    BY <2>3 DEF TypeOK
  <2>5. seq \in 0 .. MaxEvents /\ aligned <= seq
    <3>1. seq \in 0 .. MaxEvents
      BY <2>4, LatestOf DEF Events
    <3>2. CASE aligned = None
      BY <3>1, <3>2 DEF None
    <3>3. CASE aligned # None
      <4>1. aligned = Latest(shown.p)
        BY <3>3 DEF Inv, DisplaySound
      <4>2. r.p \in SUBSET Events /\ shown.p \in SUBSET r.p
        BY <2>3, <2>4
      <4>3. Latest(shown.p) <= Latest(r.p)
        BY <4>2, LatestGrows
      <4> QED
        BY <3>1, <4>1, <4>3
    <3> QED
      BY <3>1, <3>2, <3>3
  <2>6. RefreshesSound'
    <3>1. \A j \in Ids : Sound(refresh'[j], rendered', committed', shown')
      <4> TAKE j \in Ids
      <4>1. CASE j = i
        BY <2>2, <4>1, SoundIdle
      <4>2. CASE j # i
        <5>1. refresh'[j] = refresh[j] /\ refresh[j] \in Refreshes /\ ~refresh[j].current
          BY <2>1, <2>2, <4>2 DEF Changes, Inv, RefreshesSound, TypeOK
        <5>2. Sound(refresh[j], rendered, committed, shown)
          BY DEF Inv, RefreshesSound
        <5>3. Sound(refresh[j], rendered', committed, shown')
          BY <5>1, <5>2, SoundOutdated
        <5> QED
          BY <2>1, <5>1, <5>3
      <4> QED
        BY <4>1, <4>2
    <3>2. \A j \in Ids : refresh'[j].current => refresh[j].current
      BY <2>2 DEF Changes
    <3> QED
      BY <3>1, <3>2 DEF Inv, RefreshesSound
  <2>7. org \in Orgs /\ org # NoOrg
    BY OrgAssumption DEF TypeOK
  <2>8. DisplaySound'
    <3>1. shown'.org = org /\ shown'.p = r.p /\ shown'.h = r.h /\ shown'.g = r.g
      BY <2>1
    <3>2. Latest(shown'.h) = Latest(shown'.p) /\ Latest(shown'.g) = Latest(shown'.p)
      BY <1>4, <2>3, <3>1
    <3>3. aligned' = Latest(shown'.p) /\ rendered' = org'
      BY <2>1, <3>1
    <3> QED
      BY <2>1, <2>3, <2>7, <3>1, <3>2, <3>3 DEF DisplaySound
  <2>9. pending \in Int /\ heard \in Nat /\ aligned \in Int /\ None = -1 /\ pending >= -1
    BY DEF TypeOK, None
  <2>10. HeardIsKept' /\ ConnectedIsAligned'
    <3>1. (heard <= seq) \/ (~(seq >= pending) /\ heard <= pending)
      BY <2>5, <2>9 DEF Inv, HeardIsKept
    <3>2. CASE seq >= pending
      <4>1. heard <= seq /\ pending' = None /\ aligned' = seq
        BY <2>1, <3>1, <3>2
      <4>2. /\ shown'.org = rendered' /\ shown'.org = org'
            /\ Latest(shown'.h) = Latest(shown'.p) /\ Latest(shown'.g) = Latest(shown'.p)
            /\ aligned' = Latest(shown'.p) /\ heard' <= aligned'
        BY <1>4, <2>1, <2>3, <4>1
      <4> QED
        BY <4>1, <4>2 DEF HeardIsKept, ConnectedIsAligned
    <3>3. CASE ~(seq >= pending)
      <4>1. pending' = pending /\ sync' # "connected"
        BY <2>1, <3>3
      <4> QED
        BY <2>1, <3>1, <4>1 DEF HeardIsKept, ConnectedIsAligned
    <3> QED
      BY <3>2, <3>3
  <2>11. TypeOK'
    <3>1. shown' \in [org : Orgs \cup {NoOrg}, p : Snapshots, h : Snapshots, g : Snapshots]
      BY <2>1, <2>4, <2>7 DEF Snapshots
    <3>2. aligned' \in None .. MaxEvents /\ pending' \in None .. MaxEvents
      BY <2>1, <2>5, BoundAssumption DEF TypeOK, None
    <3>3. sync' \in {"connecting", "connected", "disconnected"} /\ error' \in BOOLEAN
      BY <1>4, <2>1 DEF TypeOK
    <3> QED
      BY <1>1, <2>2, <3>1, <3>2, <3>3 DEF TypeOK, Changes, server, page
  <2>12. Forward
    BY <2>1, <2>3 DEF Forward
  <2>13. SubSound'
    BY <1>1 DEF Inv, SubSound, page
  <2> QED
    BY <2>2, <2>6, <2>8, <2>10, <2>11, <2>12, <2>13 DEF TypesAndInv, Inv
<1> QED
  BY <1>2, <1>3, <1>4 DEF Publish

\* A failing refresh ends.
LEMMA FailKeeps ==
    ASSUME TypeOK, Inv, NEW i \in Ids, RefreshFails(i)
    PROVE  TypesAndInv' /\ Forward
<1>1. faults' \in 0 .. MaxFaults
  BY BoundAssumption DEF RefreshFails, TypeOK
<1> QED
  BY <1>1, RejectKeeps DEF RefreshFails

-----------------------------------------------------------------------------
(* A refresh begins.                                                       *)

\* Refresh i is the current one; the others go on without publishing, or are
\* aborted when an effect runs again.
Started(i, kind) ==
    /\ refresh[i].kind # "event"
    /\ refresh' \in [Ids -> Refreshes]
    /\ refresh'[i].stage = "snapshots" /\ refresh'[i].kind = kind
    /\ refresh'[i].org = rendered' /\ refresh'[i].current
    /\ refresh'[i].p = Unread /\ refresh'[i].h = Unread /\ refresh'[i].g = Unread
    /\ \A j \in Ids \ {i} : \/ refresh'[j] = Superseded(refresh[j])
                            \/ refresh[j].kind = "effect" /\ refresh'[j] = Idle

\* A refresh that begins has read nothing.
LEMMA BegunIsRefresh ==
    ASSUME NEW kind \in {"effect", "event", "manual"}, NEW o \in Orgs,
           NEW m \in 0 .. MaxEvents
    PROVE  /\ Begun(kind, o, m) \in Refreshes
           /\ Begun(kind, o, m).stage = "snapshots" /\ Begun(kind, o, m).kind = kind
           /\ Begun(kind, o, m).org = o /\ Begun(kind, o, m).current
           /\ Begun(kind, o, m).p = Unread /\ Begun(kind, o, m).h = Unread
           /\ Begun(kind, o, m).g = Unread
<1>1. Idle \in Refreshes
  BY SoundIdle
<1> QED
  BY <1>1 DEF Begun, Idle, Refreshes

\* The refresh that starts is the only current one.
LEMMA StartedSound ==
    ASSUME TypeOK, Inv, NEW i \in Ids, NEW kind, Started(i, kind),
           UNCHANGED <<committed, shown>>
    PROVE  RefreshesSound'
<1>1. \A j \in Ids \ {i} : Sound(refresh'[j], rendered', committed, shown) /\ ~refresh'[j].current
  <2> TAKE j \in Ids \ {i}
  <2>1. refresh[j] \in Refreshes /\ Sound(refresh[j], rendered, committed, shown)
    BY DEF TypeOK, Inv, RefreshesSound
  <2>2. CASE refresh'[j] = Superseded(refresh[j])
    BY <2>1, <2>2, SoundOutdated
  <2>3. CASE refresh'[j] = Idle
    <3>1. ~Idle.current
      BY DEF Idle
    <3> QED
      BY <2>3, <3>1, SoundIdle
  <2> QED
    BY <2>2, <2>3 DEF Started
<1>2. Sound(refresh'[i], rendered', committed, shown)
  BY DEF Started, Sound
<1> QED
  BY <1>1, <1>2 DEF RefreshesSound

\* Starting a refresh supersedes the holder of the guard but leaves it under
\* way.
LEMMA StartedGuard ==
    ASSUME TypeOK, Inv, NEW i \in Ids, NEW kind, Started(i, kind),
           \/ eventOrg' = NoOrg
           \/ eventOrg' = eventOrg /\ org' = org
           \/ eventOrg' = org' /\ rendered' = org' /\ kind = "event"
    PROVE  GuardIsHeld'
<1>1. CASE eventOrg' = org' /\ rendered' = org' /\ kind = "event"
  BY <1>1 DEF GuardIsHeld, Started
<1>2. CASE eventOrg' = eventOrg /\ org' = org /\ eventOrg # NoOrg
  <2>1. PICK j \in Ids : refresh[j].kind = "event" /\ refresh[j].org = eventOrg
    BY <1>2 DEF Inv, GuardIsHeld
  <2>2. j # i /\ refresh[j] \in Refreshes
    BY <2>1 DEF Started, TypeOK
  <2>3. refresh'[j] = Superseded(refresh[j])
    BY <2>1, <2>2 DEF Started
  <2>4. refresh'[j].kind = "event" /\ refresh'[j].org = eventOrg
    BY <2>1, <2>2, <2>3 DEF Superseded, Refreshes
  <2> QED
    BY <1>2, <2>4 DEF GuardIsHeld, Inv
<1>3. CASE eventOrg' = NoOrg
  BY <1>3 DEF GuardIsHeld
<1> QED
  BY <1>1, <1>2, <1>3

\* Begin starts a refresh in a free slot.
LEMMA BeginStarts ==
    ASSUME TypeOK, Inv, NEW i \in Ids, NEW kind \in {"effect", "event", "manual"},
           NEW m \in 0 .. MaxEvents, Free(i), rendered' \in Orgs,
           refresh' = [j \in Ids |-> IF j = i THEN Begun(kind, rendered', m)
                                     ELSE Superseded(refresh[j])]
    PROVE  Started(i, kind)
<1>1. refresh[i].kind # "event"
  <2>1. Sound(refresh[i], rendered, committed, shown)
    BY DEF Inv, RefreshesSound
  <2> QED
    BY <2>1 DEF Free, Sound
<1>2. \A j \in Ids : Superseded(refresh[j]) \in Refreshes
  <2> TAKE j \in Ids
  <2>1. refresh[j] \in Refreshes /\ Sound(refresh[j], rendered, committed, shown)
    BY DEF TypeOK, Inv, RefreshesSound
  <2> QED
    BY <2>1, SoundOutdated
<1>3. Begun(kind, rendered', m) \in Refreshes
  BY BegunIsRefresh
<1>4. refresh' \in [Ids -> Refreshes] /\ refresh'[i] = Begun(kind, rendered', m)
  BY <1>2, <1>3
<1> QED
  BY <1>1, <1>4, BegunIsRefresh DEF Started

-----------------------------------------------------------------------------
(* The subscription.                                                       *)

\* The cursor after a reply is an event number.
LEMMA NextSequenceTyped ==
    ASSUME TypeOK
    PROVE  NextSequence \in 0 .. MaxEvents
<1>1. sub.cursor \in 0 .. MaxEvents /\ sub.reply \in SUBSET (0 .. MaxEvents)
  BY BoundAssumption DEF TypeOK, Snapshots, Events, Unread
<1>2. Latest(sub.reply) \in 0 .. MaxEvents
  BY <1>1, LatestOf
<1> QED
  BY <1>1, <1>2 DEF NextSequence

\* A subscription starts at an event number.
LEMMA SubscribedTyped ==
    ASSUME TypeOK, Inv, NEW o \in Orgs
    PROVE  /\ Subscribed(o) \in [org : Orgs \cup {NoOrg}, key : 0 .. MaxEvents,
                                 cursor : 0 .. MaxEvents, reply : Snapshots]
           /\ Subscribed(o).org \in {NoOrg, o}
<1>1. shown.p \in SUBSET (0 .. MaxEvents)
  <2>1. committed \subseteq 1 .. MaxEvents
    BY DEF TypeOK, Events
  <2>2. shown.p \subseteq committed
    BY DEF Inv, DisplaySound
  <2>3. 1 .. MaxEvents \subseteq 0 .. MaxEvents
    OBVIOUS
  <2>4. shown.p \subseteq 0 .. MaxEvents
    BY ONLY <2>1, <2>2, <2>3
  <2> QED
    BY ONLY <2>4
<1>2. Latest(shown.p) \in 0 .. MaxEvents
  BY <1>1, LatestOf
<1>3. 0 \in 0 .. MaxEvents /\ Unread \in Snapshots
  BY BoundAssumption DEF Snapshots, TypeOK
<1> QED
  BY <1>2, <1>3 DEF Subscribed, NoSub

\* Resubscribing and polling touch no refresh and no display.
LEMMA SubscriptionKeeps ==
    ASSUME TypeOK, Inv, Resubscribe \/ PollReads \/ PollFails
    PROVE  TypesAndInv' /\ Forward
<1>1. /\ UNCHANGED <<server, org, refresh, shown, marks, eventOrg, error, page, acts>>
      /\ sync' \in {sync, "disconnected"}
  BY DEF Resubscribe, PollReads, PollFails, status, budget
<1>2. faults' \in 0 .. MaxFaults
  BY BoundAssumption DEF Resubscribe, PollReads, PollFails, budget, TypeOK
<1>3. sub' \in [org : Orgs \cup {NoOrg}, key : 0 .. MaxEvents, cursor : 0 .. MaxEvents,
                reply : Snapshots]
  <2>1. CASE Resubscribe
    BY <2>1, SubscribedTyped DEF Resubscribe, TypeOK
  <2>2. CASE PollReads
    <3>1. {e \in committed : e > sub.cursor} \in Snapshots
      BY DEF TypeOK, Snapshots
    <3> QED
      BY <2>2, <3>1 DEF PollReads, TypeOK
  <2>3. CASE PollFails
    BY <2>3 DEF PollFails, TypeOK
  <2> QED
    BY <2>1, <2>2, <2>3
<1>4. TypeOK'
  BY <1>1, <1>2, <1>3 DEF TypeOK, server, marks, page
<1>5. RefreshesSound' /\ DisplaySound' /\ HeardIsKept' /\ GuardIsHeld'
  BY <1>1 DEF Inv, RefreshesSound, DisplaySound, HeardIsKept, GuardIsHeld, server, marks, page
<1>6. SubSound'
  <2>1. CASE Resubscribe
    BY <1>1, <2>1, SubscribedTyped DEF Resubscribe, SubSound, TypeOK, page
  <2>2. CASE PollReads \/ PollFails
    <3>1. sub'.org = sub.org
      BY <2>2 DEF PollReads, PollFails, TypeOK
    <3> QED
      BY <1>1, <3>1 DEF Inv, SubSound, page
  <2> QED
    BY <2>1, <2>2
<1>7. ConnectedIsAligned' /\ Forward
  BY <1>1 DEF Inv, DisplaySound, ConnectedIsAligned, Forward, marks, page
<1> QED
  BY <1>4, <1>5, <1>6, <1>7 DEF TypesAndInv, Inv

\* What the feed reports is displayed already, or it becomes pending and an
\* event refresh is or gets under way.
LEMMA ArrivesKeeps ==
    ASSUME TypeOK, Inv, PollArrives
    PROVE  TypesAndInv' /\ Forward
<1>1. NextSequence \in 0 .. MaxEvents
  BY NextSequenceTyped
<1>2. UNCHANGED <<server, org, shown, aligned, page, budget>>
  BY DEF PollArrives
<1>3. sub' \in [org : Orgs \cup {NoOrg}, key : 0 .. MaxEvents, cursor : 0 .. MaxEvents,
                reply : Snapshots]
  <2>1. Unread \in Snapshots
    BY DEF Snapshots
  <2> QED
    BY <1>1, <2>1 DEF PollArrives, TypeOK
<1>4. DisplaySound' /\ SubSound' /\ Forward
  <2>1. sub'.org = sub.org
    BY DEF PollArrives, TypeOK
  <2> QED
    BY <1>2, <2>1 DEF Inv, DisplaySound, SubSound, Forward, server, page
<1>5. /\ heard \in 0 .. MaxEvents /\ aligned \in Int /\ aligned <= MaxEvents
      /\ pending \in Int /\ pending <= MaxEvents /\ MaxEvents \in Nat /\ None = -1
      /\ aligned >= -1 /\ pending >= -1
  BY BoundAssumption DEF TypeOK, None
<1>6. CASE UNCHANGED <<refresh, pending, eventOrg, status, heard>>
  <2>1. TypeOK'
    BY <1>2, <1>3, <1>6 DEF TypeOK, server, status, budget, page
  <2>2. RefreshesSound' /\ HeardIsKept' /\ GuardIsHeld' /\ ConnectedIsAligned'
    BY <1>2, <1>6 DEF Inv, RefreshesSound, HeardIsKept, GuardIsHeld, ConnectedIsAligned,
                      server, status, page
  <2> QED
    BY <1>4, <2>1, <2>2 DEF TypesAndInv, Inv
<1>7. CASE /\ UpToDate
           /\ sync' = "connected"
           /\ heard' = Greater(heard, NextSequence)
           /\ UNCHANGED <<refresh, pending, eventOrg, error>>
  <2>1. pending = None /\ aligned # None /\ NextSequence <= aligned
    BY <1>7 DEF UpToDate
  <2>2. heard' \in 0 .. MaxEvents /\ heard' <= aligned
    <3>1. heard' \in {heard, NextSequence}
      BY <1>7 DEF Greater
    <3>2. heard <= aligned
      BY <1>5, <2>1 DEF Inv, HeardIsKept
    <3> QED
      BY <1>1, <1>5, <2>1, <3>1, <3>2
  <2>3. TypeOK'
    BY <1>2, <1>3, <1>7, <2>2 DEF TypeOK, server, budget, page
  <2>4. RefreshesSound' /\ GuardIsHeld'
    BY <1>2, <1>7 DEF Inv, RefreshesSound, GuardIsHeld, server, page
  <2>5. HeardIsKept' /\ ConnectedIsAligned'
    BY <1>2, <1>5, <1>7, <2>1, <2>2 DEF Inv, DisplaySound, SubSound, HeardIsKept, ConnectedIsAligned, page
  <2> QED
    BY <1>4, <2>3, <2>4, <2>5 DEF TypesAndInv, Inv
<1>8. CASE /\ sub.org = org
           /\ pending' = Greater(pending, NextSequence)
           /\ sync' = "connecting"
           /\ heard' = Greater(heard, NextSequence)
           /\ RefreshPending
  <2>1. /\ pending' \in 0 .. MaxEvents /\ pending' \in None .. MaxEvents
        /\ heard' \in 0 .. MaxEvents /\ HeardIsKept'
    <3>1. /\ pending' \in {pending, NextSequence}
          /\ pending <= pending' /\ NextSequence <= pending'
      BY <1>1, <1>5, <1>8 DEF Greater
    <3>2. heard' \in {heard, NextSequence} /\ heard <= heard' /\ NextSequence <= heard'
      BY <1>1, <1>5, <1>8 DEF Greater
    <3>3. pending' \in 0 .. MaxEvents /\ heard' \in 0 .. MaxEvents
      BY <1>1, <1>5, <3>1, <3>2
    <3>4. heard = 0 \/ (heard <= aligned) \/ (heard <= pending)
      BY DEF Inv, HeardIsKept
    <3>5. heard' = 0 \/ (heard' <= aligned) \/ (heard' <= pending')
      BY <1>1, <1>5, <3>1, <3>2, <3>3, <3>4
    <3> QED
      BY <1>2, <1>5, <3>3, <3>5 DEF HeardIsKept
  <2>2. /\ refresh' \in [Ids -> Refreshes] /\ eventOrg' \in Orgs \cup {NoOrg}
        /\ error' \in BOOLEAN /\ RefreshesSound' /\ GuardIsHeld'
    <3>1. CASE UNCHANGED <<refresh, eventOrg, error>>
      BY <1>2, <3>1 DEF TypeOK, Inv, RefreshesSound, GuardIsHeld, server, page
    <3>2. CASE ~UNCHANGED <<refresh, eventOrg, error>>
      <4>1. PICK i \in Ids : Free(i) /\ Begin(i, "event", org, Greater(pending, NextSequence))
        BY <1>8, <3>2 DEF RefreshPending
      <4>2. eventOrg' = org /\ org \in Orgs /\ error' = FALSE
        BY <1>8, <3>2, <4>1 DEF RefreshPending, Begin, TypeOK
      <4>3. Greater(pending, NextSequence) \in 0 .. MaxEvents
        BY <1>8, <2>1
      <4>5. /\ committed' = committed /\ org' = org /\ shown' = shown
            /\ rendered' = org
        BY <1>2, <1>8, <4>2, OrgAssumption DEF server, page, Inv, SubSound
      <4>4. Started(i, "event")
        BY <4>1, <4>2, <4>3, <4>5, BeginStarts DEF Begin
      <4>6. RefreshesSound'
        BY <4>4, <4>5, StartedSound
      <4>7. GuardIsHeld'
        BY <4>2, <4>4, <4>5, StartedGuard
      <4> QED
        BY <4>2, <4>4, <4>6, <4>7 DEF Started
    <3> QED
      BY <3>1, <3>2
  <2>3. TypeOK'
    BY <1>2, <1>3, <1>8, <2>1, <2>2 DEF TypeOK, server, budget, page
  <2>4. ConnectedIsAligned'
    BY <1>8 DEF ConnectedIsAligned
  <2> QED
    BY <1>4, <2>1, <2>2, <2>3, <2>4 DEF TypesAndInv, Inv
<1> QED
  BY <1>6, <1>7, <1>8 DEF PollArrives

-----------------------------------------------------------------------------
(* The user and the effects.                                               *)

\* The target of a refresh is an event number.
LEMMA AtLeastZero ==
    ASSUME NEW n \in None .. MaxEvents
    PROVE  Greater(n, 0) \in 0 .. MaxEvents
BY BoundAssumption DEF Greater, None

\* The effect that refreshes aborts the refresh it began before and starts its
\* own for the organization the page now names.
LEMMA AnewStarts ==
    ASSUME TypeOK, Inv, rendered' \in Orgs, pending' \in None .. MaxEvents,
           RefreshAnew(rendered')
    PROVE  \E i \in Ids : Started(i, "effect")
<1> DEFINE m == Greater(pending', 0)
<1>1. PICK i \in Ids :
        /\ Free(i) \/ refresh[i].kind = "effect"
        /\ refresh' = [j \in Ids |->
             IF j = i THEN Begun("effect", rendered', m)
             ELSE IF refresh[j].kind = "effect" THEN Idle
             ELSE Superseded(refresh[j])]
  BY DEF RefreshAnew
<1>2. refresh[i].kind # "event"
  <2>1. Sound(refresh[i], rendered, committed, shown)
    BY DEF Inv, RefreshesSound
  <2> QED
    BY <1>1, <2>1 DEF Free, Sound
<1>3. \A j \in Ids : Superseded(refresh[j]) \in Refreshes
  <2> TAKE j \in Ids
  <2>1. refresh[j] \in Refreshes /\ Sound(refresh[j], rendered, committed, shown)
    BY DEF TypeOK, Inv, RefreshesSound
  <2> QED
    BY <2>1, SoundOutdated
<1>4. m \in 0 .. MaxEvents
  BY AtLeastZero
<1> HIDE DEF m
<1>5. Begun("effect", rendered', m) \in Refreshes /\ Idle \in Refreshes
  BY <1>4, BegunIsRefresh, SoundIdle
<1>6. /\ refresh' \in [Ids -> Refreshes] /\ refresh'[i] = Begun("effect", rendered', m)
      /\ \A j \in Ids \ {i} : \/ refresh'[j] = Superseded(refresh[j])
                              \/ refresh[j].kind = "effect" /\ refresh'[j] = Idle
  BY <1>1, <1>3, <1>5
<1>7. Started(i, "effect")
  BY <1>2, <1>4, <1>6, BegunIsRefresh DEF Started
<1> QED
  BY <1>7

\* The storage effect may make another organization the active one: it forgets
\* the marks with it, and the page will be rendered, and refresh, again.
LEMMA EffectsKeep ==
    ASSUME TypeOK, Inv, RunEffects
    PROVE  TypesAndInv' /\ Forward
<1>1. PICK d \in SUBSET Due \ {{}}, scope \in SUBSET {"scope"} :
        /\ rendered' = IF "organization" \in d THEN org ELSE rendered
        /\ due' = (due \ d) \cup scope
        /\ IF RunsRestore(d) /\ stored # NoOrg THEN Restore
           ELSE UNCHANGED <<org, aligned, pending, heard, eventOrg>>
        /\ IF RunsRefresh(d)
           THEN RefreshAnew(rendered') /\ sub' = Subscribed(rendered') /\ stored' = rendered'
           ELSE UNCHANGED <<refresh, status, sub, stored>>
        /\ UNCHANGED <<server, shown, budget>>
  BY DEF RunEffects
<1>2. /\ rendered' \in Orgs /\ due' \subseteq {"mount", "scope", "route"}
      /\ stored' \in Orgs \cup {NoOrg}
  BY <1>1 DEF TypeOK
<1>3. /\ org' \in Orgs /\ aligned' \in None .. MaxEvents /\ pending' \in None .. MaxEvents
      /\ heard' \in 0 .. MaxEvents /\ eventOrg' \in Orgs \cup {NoOrg}
      /\ \/ aligned' = None /\ pending' = None /\ heard' = 0 /\ eventOrg' = NoOrg
         \/ UNCHANGED <<org, aligned, pending, heard, eventOrg>>
  <2>1. None \in None .. MaxEvents /\ 0 \in 0 .. MaxEvents
    BY BoundAssumption DEF None
  <2> QED
    BY <1>1, <2>1 DEF TypeOK, Restore
<1>4. /\ UNCHANGED <<committed, shown>>
      /\ refresh' \in [Ids -> Refreshes] /\ RefreshesSound' /\ GuardIsHeld'
      /\ error' \in BOOLEAN
      /\ sub' \in [org : Orgs \cup {NoOrg}, key : 0 .. MaxEvents, cursor : 0 .. MaxEvents,
                   reply : Snapshots]
      /\ SubSound'
      /\ sync' = "connecting" \/ (sync' = sync /\ rendered' = rendered)
  <2>1. UNCHANGED <<committed, shown>>
    BY <1>1 DEF server
  <2>2. CASE RunsRefresh(d)
    <3>1. RefreshAnew(rendered') /\ sub' = Subscribed(rendered')
      BY <1>1, <2>2
    <3>2. PICK i \in Ids : Started(i, "effect")
      BY <1>2, <1>3, <3>1, AnewStarts
    <3>3. RefreshesSound' /\ GuardIsHeld'
      BY <1>3, <2>1, <3>2, StartedSound, StartedGuard
    <3>4. error' = FALSE /\ sync' = "connecting"
      BY <3>1 DEF RefreshAnew
    <3> QED
      BY <1>2, <2>1, <3>1, <3>2, <3>3, <3>4, SubscribedTyped DEF Started, SubSound
  <2>3. CASE ~RunsRefresh(d)
    <3>1. UNCHANGED <<refresh, status, sub, rendered>>
      BY <1>1, <2>3 DEF RunsRefresh
    <3>2. RefreshesSound' /\ SubSound'
      BY <2>1, <3>1 DEF Inv, RefreshesSound, SubSound
    <3>3. GuardIsHeld'
      BY <1>3, <3>1 DEF Inv, GuardIsHeld
    <3> QED
      BY <2>1, <3>1, <3>2, <3>3 DEF TypeOK, status
  <2> QED
    BY <2>2, <2>3
<1>5. DisplaySound'
  <2>1. rendered = org => rendered' = org
    BY <1>1
  <2> QED
    BY <1>3, <1>4, <2>1 DEF Inv, DisplaySound
<1>6. HeardIsKept' /\ ConnectedIsAligned' /\ Forward
  BY <1>3, <1>4 DEF Inv, HeardIsKept, ConnectedIsAligned, Forward
<1>7. TypeOK'
  BY <1>1, <1>2, <1>3, <1>4 DEF TypeOK, server, budget, status
<1> QED
  BY <1>4, <1>5, <1>6, <1>7 DEF TypesAndInv, Inv

\* A refresh the user asks for becomes the current one.
LEMMA AskKeeps ==
    ASSUME TypeOK, Inv, AskRefresh
    PROVE  TypesAndInv' /\ Forward
<1>1. /\ UNCHANGED <<server, org, shown, marks, eventOrg, page, sub, faults>>
      /\ error' = FALSE /\ sync' = "connecting"
  BY DEF AskRefresh, Begin
<1>2. PICK i \in Ids : Free(i) /\ Begin(i, "manual", rendered, Greater(pending, 0))
  BY DEF AskRefresh
<1>3. Started(i, "manual")
  <2>1. Greater(pending, 0) \in 0 .. MaxEvents
    BY AtLeastZero DEF TypeOK
  <2>2. rendered' = rendered /\ rendered \in Orgs
    BY <1>1 DEF page, TypeOK
  <2> QED
    BY <1>2, <2>1, <2>2, BeginStarts DEF Begin
<1>4. RefreshesSound' /\ GuardIsHeld'
  BY <1>1, <1>3, StartedSound, StartedGuard DEF server
<1>5. acts' \in 0 .. MaxActs
  BY BoundAssumption DEF AskRefresh, TypeOK
<1>6. TypeOK'
  BY <1>1, <1>3, <1>5 DEF TypeOK, Started, server, marks, page
<1>7. DisplaySound' /\ SubSound' /\ HeardIsKept' /\ ConnectedIsAligned' /\ Forward
  BY <1>1 DEF Inv, DisplaySound, SubSound, HeardIsKept, ConnectedIsAligned, Forward, server, marks, page
<1> QED
  BY <1>4, <1>6, <1>7 DEF TypesAndInv, Inv

\* A change of scope or route only makes effects due; a selection, and another
\* page of the member's, change the storage only.
LEMMA PageKeeps ==
    ASSUME TypeOK, Inv,
           ChangeScope \/ ChangeRoute \/ SelectEntity \/ \E o \in Orgs : OtherPage(o)
    PROVE  TypesAndInv' /\ Forward
<1>1. UNCHANGED <<server, org, rendered, refresh, shown, marks, eventOrg, status, sub>>
  BY DEF ChangeScope, ChangeRoute, SelectEntity, OtherPage
<1>2. /\ due' \subseteq {"mount", "scope", "route"} /\ stored' \in Orgs \cup {NoOrg}
      /\ acts' \in 0 .. MaxActs /\ faults' \in 0 .. MaxFaults
  <2>1. CASE ChangeScope
    <3>1. acts' = acts + 1 /\ acts < MaxActs /\ UNCHANGED <<stored, faults>>
          /\ due' \subseteq {"mount", "scope", "route"}
      BY <2>1 DEF ChangeScope, TypeOK
    <3> QED
      BY <3>1, BoundAssumption DEF TypeOK
  <2>2. CASE ChangeRoute
    <3>1. acts' = acts + 1 /\ acts < MaxActs /\ UNCHANGED <<stored, faults>>
          /\ due' \subseteq {"mount", "scope", "route"}
      BY <2>2 DEF ChangeRoute, TypeOK
    <3> QED
      BY <3>1, BoundAssumption DEF TypeOK
  <2>3. ASSUME NEW o \in Orgs, OtherPage(o)
        PROVE  <1>2!:
    <3>1. faults' = faults + 1 /\ faults < MaxFaults /\ UNCHANGED <<due, acts>> /\ stored' = o
      BY <2>3 DEF OtherPage
    <3> QED
      BY <3>1, BoundAssumption DEF TypeOK
  <2>4. CASE SelectEntity
    <3>1. acts' = acts + 1 /\ acts < MaxActs /\ UNCHANGED <<due, faults>> /\ stored' = rendered
      BY <2>4 DEF SelectEntity
    <3> QED
      BY <3>1, BoundAssumption DEF TypeOK
  <2> QED
    BY <2>1, <2>2, <2>3, <2>4
<1>3. TypeOK'
  BY <1>1, <1>2 DEF TypeOK, server, marks, status
<1>4. RefreshesSound' /\ DisplaySound' /\ SubSound' /\ HeardIsKept' /\ GuardIsHeld'
  BY <1>1 DEF Inv, RefreshesSound, DisplaySound, SubSound, HeardIsKept, GuardIsHeld, server, marks
<1>5. ConnectedIsAligned' /\ Forward
  BY <1>1 DEF Inv, ConnectedIsAligned, Forward, marks, status
<1> QED
  BY <1>3, <1>4, <1>5 DEF TypesAndInv, Inv

\* Nothing of the organization that is left is displayed again: what is under
\* way for it is superseded.
LEMMA SwitchKeeps ==
    ASSUME TypeOK, Inv, NEW o \in Orgs, SwitchOrganization(o)
    PROVE  TypesAndInv' /\ Forward
<1>1. /\ org' = o /\ shown' = NoView /\ aligned' = None /\ pending' = None
      /\ heard' = 0 /\ eventOrg' = NoOrg /\ error' = FALSE /\ sync' = "connecting"
      /\ UNCHANGED <<server, page, sub, faults>>
      /\ refresh' = [i \in Ids |-> Superseded(refresh[i])]
  BY DEF SwitchOrganization
<1>2. \A i \in Ids : /\ refresh'[i] \in Refreshes /\ ~refresh'[i].current
                     /\ Sound(refresh'[i], rendered, committed, NoView)
  <2> TAKE i \in Ids
  <2>1. refresh[i] \in Refreshes /\ Sound(refresh[i], rendered, committed, shown)
    BY DEF TypeOK, Inv, RefreshesSound
  <2>2. refresh'[i] = Superseded(refresh[i])
    BY <1>1
  <2> QED
    BY <2>1, <2>2, SoundOutdated
<1>3. RefreshesSound'
  BY <1>1, <1>2 DEF RefreshesSound, server, page
<1>4. DisplaySound' /\ SubSound' /\ HeardIsKept' /\ ConnectedIsAligned' /\ GuardIsHeld'
  BY <1>1 DEF Inv, DisplaySound, SubSound, HeardIsKept, ConnectedIsAligned, GuardIsHeld, NoView,
              page
<1>5. acts' \in 0 .. MaxActs
  BY BoundAssumption DEF SwitchOrganization, TypeOK
<1>6. TypeOK'
  <2>1. NoView \in [org : Orgs \cup {NoOrg}, p : Snapshots, h : Snapshots, g : Snapshots]
    BY DEF NoView, Snapshots
  <2>2. None \in None .. MaxEvents /\ 0 \in 0 .. MaxEvents
    BY BoundAssumption DEF None
  <2>3. refresh' \in [Ids -> Refreshes]
    BY <1>1, <1>2
  <2> QED
    BY <1>1, <1>5, <2>1, <2>2, <2>3 DEF TypeOK, server, page
<1>7. Forward
  BY <1>1 DEF Forward, NoView, Inv, DisplaySound
<1> QED
  BY <1>3, <1>4, <1>6, <1>7 DEF TypesAndInv, Inv

-----------------------------------------------------------------------------
\* The initial state has the types and the invariant.
LEMMA Initially == Init => TypesAndInv
<1> SUFFICES ASSUME Init
             PROVE  TypesAndInv
  OBVIOUS
<1>1. \A i \in Ids : refresh[i] = Idle /\ ~refresh[i].current
  BY DEF Init, Idle
<1>2. RefreshesSound
  BY <1>1, SoundIdle DEF RefreshesSound
<1>3. DisplaySound /\ SubSound /\ HeardIsKept /\ ConnectedIsAligned /\ GuardIsHeld
  BY DEF Init, DisplaySound, SubSound, HeardIsKept, ConnectedIsAligned, GuardIsHeld, NoView, NoSub
<1>4. TypeOK
  <2>1. /\ NoView \in [org : Orgs \cup {NoOrg}, p : Snapshots, h : Snapshots, g : Snapshots]
        /\ NoSub \in [org : Orgs \cup {NoOrg}, key : 0 .. MaxEvents, cursor : 0 .. MaxEvents,
                      reply : Snapshots]
    BY BoundAssumption DEF NoView, NoSub, Snapshots
  <2>2. refresh \in [Ids -> Refreshes]
    BY SoundIdle DEF Init
  <2>3. None \in None .. MaxEvents /\ 0 \in 0 .. MaxEvents /\ 0 \in 0 .. MaxActs
        /\ 0 \in 0 .. MaxFaults
    BY BoundAssumption DEF None
  <2> QED
    BY <2>1, <2>2, <2>3, OrgAssumption DEF Init, TypeOK
<1> QED
  BY <1>2, <1>3, <1>4 DEF TypesAndInv, Inv

\* Every step keeps the types and the invariant, and moves the display forward.
LEMMA Step == TypesAndInv /\ [Next]_vars => TypesAndInv' /\ Forward
<1> SUFFICES ASSUME TypeOK, Inv, [Next]_vars
             PROVE  TypesAndInv' /\ Forward
  BY DEF TypesAndInv
<1>1. CASE LogStep
  BY <1>1, LogKeeps
<1>2. ASSUME NEW i \in Ids, RefreshStep(i) \/ RefreshFails(i)
      PROVE  TypesAndInv' /\ Forward
  BY <1>2, ReadKeeps, CompareKeeps, ConverseKeeps, PublishKeeps, FailKeeps DEF RefreshStep
<1>3. CASE Resubscribe \/ PollReads \/ PollFails
  BY <1>3, SubscriptionKeeps
<1>4. CASE PollArrives
  BY <1>4, ArrivesKeeps
<1>5. CASE RunEffects
  BY <1>5, EffectsKeep
<1>6. ASSUME NEW o \in Orgs, SwitchOrganization(o)
      PROVE  TypesAndInv' /\ Forward
  BY <1>6, SwitchKeeps
<1>7. CASE ChangeScope \/ ChangeRoute \/ SelectEntity \/ \E o \in Orgs : OtherPage(o)
  BY <1>7, PageKeeps
<1>8. CASE AskRefresh
  BY <1>8, AskKeeps
<1>9. CASE UNCHANGED vars
  <2>1. TypeOK'
    BY <1>9 DEF vars, TypeOK
  <2>2. Inv'
    BY <1>9 DEF vars, Inv, RefreshesSound, DisplaySound, SubSound, HeardIsKept, ConnectedIsAligned,
                GuardIsHeld
  <2>3. Forward
    BY <1>9 DEF vars, Inv, DisplaySound, Forward
  <2> QED
    BY <2>1, <2>2, <2>3 DEF TypesAndInv
<1> QED
  BY <1>1, <1>2, <1>3, <1>4, <1>5, <1>6, <1>7, <1>8, <1>9 DEF Next, LogStep

\* The inductive invariant of the workspace, for any organizations, events and
\* refreshes.
THEOREM Invariance == Spec => []TypesAndInv
<1>1. TypesAndInv /\ [Next]_vars => TypesAndInv'
  BY Step
<1> QED
  BY Initially, <1>1, PTL DEF Spec

\* Every variable of the workspace keeps its type.
THEOREM TypesAreKept == Spec => []TypeOK
<1>1. TypesAndInv => TypeOK
  BY DEF TypesAndInv
<1> QED
  BY <1>1, Invariance, PTL

\* "Connected" is never shown early.
THEOREM ConnectedIsEarned == Spec => []ConnectedIsAligned
<1>1. TypesAndInv => ConnectedIsAligned
  BY DEF TypesAndInv, Inv
<1> QED
  BY <1>1, Invariance, PTL

\* The guard of event refreshes is never left behind.
THEOREM GuardComesBack == Spec => []GuardIsHeld
<1>1. TypesAndInv => GuardIsHeld
  BY DEF TypesAndInv, Inv
<1> QED
  BY <1>1, Invariance, PTL

\* The display never goes back.
THEOREM DisplayAdvances == Spec => NeverBackwards
<1>1. TypesAndInv /\ [Next]_vars =>
        [/\ shown' # shown => shown'.org \in {org', NoOrg}
         /\ shown'.org = shown.org => /\ shown.p \subseteq shown'.p
                                      /\ shown.h \subseteq shown'.h
                                      /\ shown.g \subseteq shown'.g]_vars
  BY Step DEF Forward
<1> QED
  BY <1>1, Invariance, PTL DEF Spec, NeverBackwards

-----------------------------------------------------------------------------
(* What the comparison of two numbers would promise if transactions        *)
(* committed in the order in which their events are numbered.              *)

\* Whoever commits has no open transaction with a smaller number before it.
InOrder == \A e \in committed' \ committed : \A d \in open : e <= d

\* The display lacks no committed event up to the number it carries.
NothingSkipped ==
    shown.org # NoOrg =>
        \A e \in committed : e <= Latest(shown.p) => e \in shown.p /\ e \in shown.h /\ e \in shown.g

\* Numbers are drawn upwards, and those that are open are greater than those
\* that are committed.
OpenIsLater ==
    /\ \A e \in open \cup committed : e <= next
    /\ \A e \in open : \A d \in committed : d < e

\* A snapshot is complete when it lacks no committed event up to its greatest.
Complete(S) == \A e \in committed : e <= Latest(S) => e \in S

AllComplete ==
    /\ \A i \in Ids : Complete(refresh[i].p) /\ Complete(refresh[i].h) /\ Complete(refresh[i].g)
    /\ Complete(shown.p) /\ Complete(shown.h) /\ Complete(shown.g)

OrderInv == TypesAndInv /\ OpenIsLater /\ AllComplete

\* What a refresh or the display may carry after a step: what somebody carries
\* already, what is committed now, or nothing.
Carried(S) ==
    \/ S \in {Unread, {}, committed, shown.p, shown.h, shown.g}
    \/ \E i \in Ids : S \in {refresh[i].p, refresh[i].h, refresh[i].g}

CarriedOver ==
    /\ \A i \in Ids : /\ Carried(refresh'[i].p) /\ Carried(refresh'[i].h)
                      /\ Carried(refresh'[i].g)
    /\ Carried(shown'.p) /\ Carried(shown'.h) /\ Carried(shown'.g)

\* A step of the browser keeps snapshots complete.
LEMMA CarriedIsComplete ==
    ASSUME OrderInv, CarriedOver, UNCHANGED server
    PROVE  OpenIsLater' /\ AllComplete'
<1>1. committed \in SUBSET Events /\ committed \in SUBSET (0 .. MaxEvents)
  BY DEF OrderInv, TypesAndInv, TypeOK, Events
<1>2. \A e \in committed : e \in Int /\ e > 0
  BY <1>1 DEF Events
<1>3. Latest({}) = 0 /\ Latest(Unread) = 0
  BY DEF Latest, Unread
<1>4. Complete({}) /\ Complete(Unread)
  BY <1>2, <1>3 DEF Complete
<1>5. Complete(committed)
  BY DEF Complete
<1>6. ASSUME NEW S, Carried(S)
      PROVE  Complete(S)
  BY <1>4, <1>5, <1>6 DEF Carried, OrderInv, AllComplete
<1>7. ASSUME NEW S, Complete(S)
      PROVE  Complete(S)'
  BY <1>7 DEF Complete, server
<1>8. AllComplete'
  BY <1>6, <1>7 DEF CarriedOver, AllComplete, Complete, server
<1>9. OpenIsLater'
  BY DEF OrderInv, OpenIsLater, server
<1> QED
  BY <1>8, <1>9

\* So does a commit in order: the new event is greater than all that were read.
LEMMA LogStaysComplete ==
    ASSUME OrderInv, LogStep, InOrder
    PROVE  OpenIsLater' /\ AllComplete'
<1>1. /\ next \in 0 .. MaxEvents /\ open \in SUBSET Events /\ committed \in SUBSET Events
      /\ refresh \in [Ids -> Refreshes]
  BY DEF OrderInv, TypesAndInv, TypeOK
<1>2. UNCHANGED <<refresh, shown>>
  BY DEF LogStep, Insert, Commit, Rollback
<1>3. \A e \in Events : e \in Int /\ e > 0
  BY DEF Events
<1>4. OpenIsLater'
  <2>1. CASE Insert
    BY <1>1, <1>3, <2>1 DEF Insert, OrderInv, OpenIsLater
  <2>2. ASSUME NEW c \in Events, Commit(c)
        PROVE  OpenIsLater'
    <3>1. \A d \in open : c <= d
      <4>1. c \notin committed
        BY <1>1, <1>3, <2>2 DEF Commit, OrderInv, OpenIsLater
      <4> QED
        BY <2>2, <4>1 DEF Commit, InOrder
    <3>2. /\ c \in open /\ open' = open \ {c} /\ committed' = committed \cup {c}
          /\ next' = next
      BY <2>2 DEF Commit
    <3>3. \A e \in open' : c < e
      BY <1>1, <1>3, <3>1, <3>2
    <3> QED
      BY <3>2, <3>3 DEF OrderInv, OpenIsLater
  <2>3. ASSUME NEW c \in Events, Rollback(c)
        PROVE  OpenIsLater'
    BY <2>3 DEF Rollback, OrderInv, OpenIsLater
  <2> QED
    BY <2>1, <2>2, <2>3 DEF LogStep
<1>5. ASSUME NEW S, S = Unread \/ S \subseteq committed, Complete(S)
      PROVE  Complete(S)'
  <2>1. CASE committed' = committed
    BY <1>5, <2>1 DEF Complete
  <2>2. ASSUME NEW c \in Events, Commit(c)
        PROVE  Complete(S)'
    <3>1. \A e \in committed : e < c
      BY <2>2 DEF Commit, OrderInv, OpenIsLater
    <3>2. ~(c <= Latest(S))
      <4>1. S \in SUBSET (0 .. MaxEvents)
        <5>1. 1 .. MaxEvents \subseteq 0 .. MaxEvents /\ Unread \subseteq 0 .. MaxEvents
          BY BoundAssumption DEF Unread
        <5>2. committed \subseteq 1 .. MaxEvents
          BY <1>1 DEF Events
        <5>3. S \subseteq 0 .. MaxEvents
          BY ONLY <1>5, <5>1, <5>2
        <5> QED
          BY ONLY <5>3
      <4>2. Latest(S) = 0 \/ Latest(S) \in committed
        <5>1. CASE S = {} \/ S = Unread
          BY <5>1 DEF Latest, Unread
        <5>2. CASE S # {} /\ S \subseteq committed
          BY <4>1, <5>2, LatestOf
        <5> QED
          BY <1>5, <5>1, <5>2
      <4> QED
        BY <1>1, <1>3, <2>2, <3>1, <4>2
    <3> QED
      BY <1>5, <2>2, <3>2 DEF Complete, Commit
  <2> QED
    BY <2>1, <2>2 DEF LogStep, Insert, Rollback
<1>6. /\ \A i \in Ids : \A S \in {refresh[i].p, refresh[i].h, refresh[i].g} :
             S = Unread \/ S \subseteq committed
      /\ shown.p \subseteq committed /\ shown.h \subseteq committed /\ shown.g \subseteq committed
  BY DEF OrderInv, TypesAndInv, Inv, RefreshesSound, Sound, DisplaySound
<1>7. AllComplete'
  BY <1>2, <1>5, <1>6 DEF OrderInv, AllComplete, Complete
<1> QED
  BY <1>4, <1>7

\* A refresh after a step that reads nothing: free, as one was, superseded, or
\* begun.
Continues(r) ==
    \/ r = Idle
    \/ \E j \in Ids : r = refresh[j] \/ r = Superseded(refresh[j])
    \/ \E kind, o, m : r = Begun(kind, o, m)

\* Such a refresh carries nothing new.
LEMMA ContinuesCarried ==
    ASSUME refresh \in [Ids -> Refreshes], NEW r, Continues(r)
    PROVE  Carried(r.p) /\ Carried(r.h) /\ Carried(r.g)
<1>1. CASE r = Idle
  BY <1>1 DEF Idle, Carried
<1>2. CASE \E j \in Ids : r = refresh[j]
  BY <1>2 DEF Carried
<1>3. ASSUME NEW j \in Ids, r = Superseded(refresh[j])
      PROVE  Carried(r.p) /\ Carried(r.h) /\ Carried(r.g)
  <2>1. r.p = refresh[j].p /\ r.h = refresh[j].h /\ r.g = refresh[j].g
    BY <1>3 DEF Superseded, Refreshes
  <2> QED
    BY <2>1 DEF Carried
<1>4. ASSUME NEW kind, NEW o, NEW m, r = Begun(kind, o, m)
      PROVE  Carried(r.p) /\ Carried(r.h) /\ Carried(r.g)
  <2>1. r.p = Unread /\ r.h = Unread /\ r.g = Unread
    BY <1>4 DEF Begun, Idle
  <2> QED
    BY <2>1 DEF Carried
<1> QED
  BY <1>1, <1>2, <1>3, <1>4 DEF Continues

\* The steps of a refresh carry over: they read what is committed, or display
\* what they have read.
LEMMA RefreshCarries ==
    ASSUME TypesAndInv, NEW i \in Ids, RefreshStep(i) \/ RefreshFails(i)
    PROVE  CarriedOver /\ UNCHANGED server
<1>1. refresh \in [Ids -> Refreshes]
  BY DEF TypesAndInv, TypeOK
<1>2. Carried(shown.p) /\ Carried(shown.h) /\ Carried(shown.g)
      /\ \A j \in Ids : Carried(refresh[j].p) /\ Carried(refresh[j].h) /\ Carried(refresh[j].g)
  BY DEF Carried
<1>3. Carried(committed) /\ Carried(Unread)
  BY DEF Carried
<1>4. ASSUME Finish(i), shown' = shown
      PROVE  CarriedOver
  <2>1. \A j \in Ids : refresh'[j] = IF j = i THEN Idle ELSE refresh[j]
    BY <1>1, <1>4 DEF Finish
  <2>2. \A j \in Ids : Continues(refresh'[j])
    BY <2>1 DEF Continues
  <2> QED
    BY <1>1, <1>2, <1>4, <2>2, ContinuesCarried DEF CarriedOver
<1>5. ASSUME Reject(i)
      PROVE  CarriedOver
  BY <1>4, <1>5 DEF Reject
<1>6. CASE ReadPortfolio(i) \/ ReadHierarchy(i) \/ ReadGraph(i)
  BY <1>1, <1>2, <1>3, <1>6 DEF ReadPortfolio, ReadHierarchy, ReadGraph, Refreshes, CarriedOver
<1>7. CASE Compare(i)
  <2>1. UNCHANGED server /\ shown' = shown
    BY <1>7 DEF Compare, Finish, Reject
  <2>2. CASE refresh' = [refresh EXCEPT ![i].stage = "conversation"]
    BY <1>1, <1>2, <2>1, <2>2 DEF Refreshes, CarriedOver
  <2>3. CASE refresh' = [refresh EXCEPT ![i] = [refresh[i] EXCEPT !.attempt = @ + 1,
                                                                !.p = Unread, !.h = Unread]]
    BY <1>1, <1>2, <1>3, <2>1, <2>3 DEF Refreshes, CarriedOver
  <2>4. CASE Finish(i) \/ Reject(i)
    BY <1>4, <1>5, <2>1, <2>4
  <2> QED
    BY <1>7, <2>1, <2>2, <2>3, <2>4 DEF Compare
<1>8. CASE Converse(i)
  <2>1. UNCHANGED server /\ shown' = shown
    BY <1>8 DEF Converse, Finish, Reject
  <2>2. CASE refresh' = [refresh EXCEPT ![i].stage = "graph",
                                        ![i].g = IF GraphShown THEN Unread ELSE refresh[i].h]
    BY <1>1, <1>2, <1>3, <2>1, <2>2 DEF Refreshes, CarriedOver
  <2>3. CASE Finish(i) \/ Reject(i)
    BY <1>4, <1>5, <2>1, <2>3
  <2> QED
    BY <1>8, <2>1, <2>2, <2>3 DEF Converse
<1>9. CASE Publish(i)
  <2>1. UNCHANGED server /\ (Finish(i) \/ Reject(i))
    BY <1>9 DEF Publish, Reject
  <2>2. CASE Display(i) /\ Finish(i)
    <3>1. /\ Carried(shown'.p) /\ Carried(shown'.h) /\ Carried(shown'.g)
      BY <1>2, <2>2 DEF Display
    <3>2. \A j \in Ids : refresh'[j] = IF j = i THEN Idle ELSE refresh[j]
      BY <1>1, <2>2 DEF Finish
    <3>3. \A j \in Ids : Continues(refresh'[j])
      BY <3>2 DEF Continues
    <3> QED
      BY <1>1, <2>1, <3>1, <3>3, ContinuesCarried DEF CarriedOver
  <2>3. CASE shown' = shown
    BY <1>4, <1>5, <2>1, <2>3
  <2> QED
    BY <1>9, <2>1, <2>2, <2>3 DEF Publish, Reject
<1>10. CASE RefreshFails(i)
  BY <1>5, <1>10 DEF RefreshFails
<1> QED
  BY <1>6, <1>7, <1>8, <1>9, <1>10 DEF RefreshStep, ReadPortfolio, ReadHierarchy, ReadGraph

\* So do the others, which read nothing.
LEMMA BrowserCarries ==
    ASSUME TypesAndInv, [Next]_vars, ~LogStep
    PROVE  CarriedOver /\ UNCHANGED server
<1>1. refresh \in [Ids -> Refreshes]
  BY DEF TypesAndInv, TypeOK
<1>2. Carried(shown.p) /\ Carried(shown.h) /\ Carried(shown.g) /\ Carried({})
  BY DEF Carried
<1>3. ASSUME UNCHANGED server, shown' = shown \/ shown' = NoView,
             \A j \in Ids : Continues(refresh'[j])
      PROVE  CarriedOver /\ UNCHANGED server
  <2>1. Carried(shown'.p) /\ Carried(shown'.h) /\ Carried(shown'.g)
    BY <1>2, <1>3 DEF NoView
  <2>2. \A j \in Ids : /\ Carried(refresh'[j].p) /\ Carried(refresh'[j].h)
                       /\ Carried(refresh'[j].g)
    BY <1>1, <1>3, ContinuesCarried
  <2> QED
    BY <1>3, <2>1, <2>2 DEF CarriedOver
<1>4. CASE \E i \in Ids : RefreshStep(i) \/ RefreshFails(i)
  BY <1>4, RefreshCarries
<1>5. CASE \/ Resubscribe \/ PollReads \/ PollFails \/ ChangeScope \/ ChangeRoute
           \/ SelectEntity \/ (\E o \in Orgs : OtherPage(o)) \/ UNCHANGED vars
  <2>1. UNCHANGED <<server, shown, refresh>>
    BY <1>5 DEF Resubscribe, PollReads, PollFails, ChangeScope, ChangeRoute, SelectEntity,
                   OtherPage, vars, server
  <2>2. \A j \in Ids : Continues(refresh'[j])
    BY <2>1 DEF Continues
  <2> QED
    BY <1>3, <2>1, <2>2
<1>6. ASSUME NEW i \in Ids, NEW kind, NEW o, NEW m, Begin(i, kind, o, m)
      PROVE  \A j \in Ids : Continues(refresh'[j])
  BY <1>6 DEF Begin, Continues
<1>7. CASE PollArrives
  <2>1. UNCHANGED <<server, shown>>
    BY <1>7 DEF PollArrives
  <2>2. \A j \in Ids : Continues(refresh'[j])
    <3>1. refresh' = refresh \/ \E i \in Ids : \E kind, o, m : Begin(i, kind, o, m)
      BY <1>7 DEF PollArrives, RefreshPending
    <3> QED
      BY <1>6, <3>1 DEF Continues
  <2> QED
    BY <1>3, <2>1, <2>2
<1>8. CASE AskRefresh
  <2>1. UNCHANGED <<server, shown>>
    BY <1>8 DEF AskRefresh
  <2>2. \A j \in Ids : Continues(refresh'[j])
    BY <1>6, <1>8 DEF AskRefresh
  <2> QED
    BY <1>3, <2>1, <2>2
<1>9. CASE RunEffects
  <2>1. UNCHANGED <<server, shown>>
    BY <1>9 DEF RunEffects
  <2>2. \A j \in Ids : Continues(refresh'[j])
    BY <1>9 DEF RunEffects, RefreshAnew, Continues
  <2> QED
    BY <1>3, <2>1, <2>2
<1>10. CASE \E o \in Orgs : SwitchOrganization(o)
  <2>1. UNCHANGED server /\ shown' = NoView
    BY <1>10 DEF SwitchOrganization
  <2>2. \A j \in Ids : Continues(refresh'[j])
    BY <1>10 DEF SwitchOrganization, Continues
  <2> QED
    BY <1>3, <2>1, <2>2
<1> QED
  BY <1>4, <1>5, <1>7, <1>8, <1>9, <1>10 DEF Next, LogStep

\* The finding, the other way round: if transactions committed in the order of
\* their numbers, equal numbers would mean equal snapshots, and the workspace
\* would keep its word that it never displays mixed versions; nor would it lack
\* an event that is older than what it displays (refreshWorkspace).
THEOREM OrderedCommitsNeverMix ==
    Spec /\ [][InOrder]_vars => [](NeverMixed /\ NothingSkipped)
<1>1. Init => OrderInv
  <2> SUFFICES ASSUME Init
               PROVE  OrderInv
    OBVIOUS
  <2>1. TypesAndInv
    BY Initially
  <2>2. OpenIsLater /\ committed = {}
    BY DEF Init, OpenIsLater
  <2>3. AllComplete
    BY <2>2 DEF AllComplete, Complete
  <2> QED
    BY <2>1, <2>2, <2>3 DEF OrderInv
<1>2. OrderInv /\ [Next]_vars /\ [InOrder]_vars => OrderInv'
  <2> SUFFICES ASSUME OrderInv, [Next]_vars, [InOrder]_vars
               PROVE  OrderInv'
    OBVIOUS
  <2>1. TypesAndInv'
    BY Step DEF OrderInv
  <2>2. CASE LogStep /\ InOrder
    BY <2>1, <2>2, LogStaysComplete DEF OrderInv
  <2>3. CASE ~LogStep \/ UNCHANGED vars
    <3>1. CarriedOver /\ UNCHANGED server
      <4>1. CASE ~LogStep
        BY <4>1, BrowserCarries DEF OrderInv
      <4>2. CASE UNCHANGED vars
        BY <4>2 DEF vars, server, CarriedOver, Carried
      <4> QED
        BY <2>3, <4>1, <4>2
    <3> QED
      BY <2>1, <3>1, CarriedIsComplete DEF OrderInv
  <2> QED
    BY <2>2, <2>3
<1>3. OrderInv => NeverMixed /\ NothingSkipped
  <2> SUFFICES ASSUME OrderInv
               PROVE  NeverMixed /\ NothingSkipped
    OBVIOUS
  <2>1. /\ shown.p \subseteq committed /\ shown.h \subseteq committed
        /\ Complete(shown.p) /\ Complete(shown.h) /\ Complete(shown.g)
    BY DEF OrderInv, TypesAndInv, Inv, DisplaySound, AllComplete
  <2>2. committed \in SUBSET (0 .. MaxEvents)
    BY BoundAssumption DEF OrderInv, TypesAndInv, TypeOK, Events
  <2>3. CASE shown.org = NoOrg
    BY <2>3 DEF OrderInv, TypesAndInv, Inv, DisplaySound, NoView, NeverMixed, NothingSkipped
  <2>4. CASE shown.org # NoOrg
    <3>1. Latest(shown.h) = Latest(shown.p) /\ Latest(shown.g) = Latest(shown.p)
      BY <2>4 DEF OrderInv, TypesAndInv, Inv, DisplaySound
    <3>2. /\ \A e \in shown.p : e <= Latest(shown.p)
          /\ \A e \in shown.h : e <= Latest(shown.h)
      BY <2>1, <2>2, LatestOf
    <3>3. NeverMixed
      BY <2>1, <3>1, <3>2 DEF NeverMixed, Complete
    <3>4. NothingSkipped
      BY <2>1, <3>1 DEF NothingSkipped, Complete
    <3> QED
      BY <3>3, <3>4
  <2> QED
    BY <2>3, <2>4
<1> QED
  BY <1>1, <1>2, <1>3, PTL DEF Spec

-----------------------------------------------------------------------------
(* The graph layout client: the inductive invariant.                       *)

\* Requests are numbered in their order, each for one renderer, and none is
\* answered before it is made.
Numbered ==
    /\ \A r \in Renderers : latest[r] < nextId
    /\ \A r, q \in Renderers : r # q => latest[r] # latest[q] \/ latest[r] = 0
    /\ \A i \in RequestIds : i >= nextId => answer[i] = "open"

ReactedIsAnswered == \A i \in reacted : answer[i] # "open"

LoadingIsAsked == \A r \in Renderers : view[r].status = "loading" => view[r].of \in RequestIds

LayoutInv ==
    /\ OpenIsAwaited /\ LoadingIsAwaited /\ StaleIsReplaced
    /\ Numbered /\ ReactedIsAnswered /\ LoadingIsAsked

-----------------------------------------------------------------------------
\* The initial state satisfies both invariants.
LEMMA LayoutInitially == LayoutInit => LayoutTypeOK /\ LayoutInv
<1> SUFFICES ASSUME LayoutInit
             PROVE  LayoutTypeOK /\ LayoutInv
  OBVIOUS
<1>1. view \in [Renderers -> [of : 0..MaxRequests, current : BOOLEAN,
                              status : {"idle", "loading", "layout", "error"}]]
  BY RequestAssumption DEF LayoutInit, View
<1>2. LayoutTypeOK
  <2>1. nextId \in 1..(MaxRequests + 1) /\ latest \in [Renderers -> 0..MaxRequests]
    BY RequestAssumption DEF LayoutInit
  <2>2. inbox \in Seq(RequestIds) /\ outbox \in Seq(Event)
    BY DEF LayoutInit
  <2> QED
    BY <1>1, <2>1, <2>2 DEF LayoutInit, LayoutTypeOK
<1>3. LayoutInv
  BY RequestAssumption
  DEF LayoutInit, LayoutInv, OpenIsAwaited, LoadingIsAwaited, StaleIsReplaced, Numbered,
      ReactedIsAnswered, LoadingIsAsked, View, RequestIds
<1> QED
  BY <1>2, <1>3

-----------------------------------------------------------------------------
(* Steps of the coordinator: how they change what is open.                 *)

\* #failWorker closes whatever is open, and what is the newest of a renderer
\* with a layout or an error.
LEMMA FailWorkerStep ==
    ASSUME LayoutTypeOK, LayoutInv, FailWorker, UNCHANGED <<nextId, latest, reacted, view, mounted>>
    PROVE  LayoutTypeOK' /\ LayoutInv'
<1>1. PICK c \in [pendingIds -> Computed] :
        answer' = [i \in RequestIds |->
                     IF i \notin pendingIds THEN answer[i]
                     ELSE IF IsNewest(i) THEN c[i] ELSE "stale"]
  BY DEF FailWorker
<1>2. \A i \in pendingIds : c[i] \in Computed
  BY <1>1
<1>3. /\ answer' \in [RequestIds -> Settled \cup {"open"}]
      /\ \A i \in RequestIds \ pendingIds : answer'[i] = answer[i]
      /\ \A i \in pendingIds : answer'[i] # "open"
      /\ \A i \in pendingIds : IsNewest(i) => answer'[i] \in Computed
  BY <1>1, <1>2 DEF LayoutTypeOK, Computed, Settled
<1>4. pendingIds' = {} /\ worker' = "gone" /\ inbox' = <<>> /\ outbox' = <<>>
  BY DEF FailWorker, Terminate
<1>5. LayoutTypeOK'
  BY <1>3, <1>4 DEF LayoutTypeOK
<1>6. OpenIsAwaited'
  BY <1>3, <1>4 DEF LayoutInv, OpenIsAwaited, LayoutTypeOK
<1>7. LoadingIsAwaited'
  <2> SUFFICES ASSUME NEW r \in Renderers, view[r].current, view[r].status = "loading",
                      view[r].of = latest[r]
               PROVE  \/ answer'[view[r].of] \in {"worker", "computed", "failed"} /\ view[r].of \notin reacted
                      \/ answer'[view[r].of] = "misnamed"
    BY DEF LoadingIsAwaited, LayoutInv
  <2>1. view[r].of \in RequestIds
    BY DEF LayoutInv, LoadingIsAsked
  <2>2. CASE view[r].of \in pendingIds
    BY <1>3, <2>2 DEF Computed, LayoutInv, OpenIsAwaited, ReactedIsAnswered, LayoutTypeOK, IsNewest
  <2>3. CASE view[r].of \notin pendingIds
    BY <1>3, <2>1, <2>3 DEF LayoutInv, LoadingIsAwaited
  <2> QED
    BY <2>2, <2>3
<1>8. Numbered' /\ ReactedIsAnswered' /\ LoadingIsAsked'
  BY <1>3 DEF LayoutInv, Numbered, ReactedIsAnswered, LoadingIsAsked, OpenIsAwaited, LayoutTypeOK
<1>9. StaleIsReplaced'
  BY <1>3 DEF LayoutInv, StaleIsReplaced, Computed, IsNewest
<1> QED
  BY <1>5, <1>6, <1>7, <1>8, <1>9 DEF LayoutInv

\* A message that settles its own request closes no other one, and the newest of
\* a renderer with a layout or as misnamed.
LEMMA SettlesStep ==
    ASSUME LayoutTypeOK, LayoutInv, outbox # <<>>,
           NEW k \in pendingIds, NEW a \in {"worker", "stale", "misnamed"}, Settles(k, a),
           a = "stale" => ~IsNewest(k),
           UNCHANGED <<nextId, latest, reacted, view, mounted>>
    PROVE  LayoutTypeOK' /\ LayoutInv'
<1>1. k \in RequestIds
  BY DEF LayoutTypeOK
<1>2. /\ pendingIds' = pendingIds \ {k}
      /\ answer' = [answer EXCEPT ![k] = a]
      /\ outbox' = Tail(outbox) /\ UNCHANGED <<worker, inbox>>
  BY DEF Settles
<1>3. outbox' \in Seq(Event)
  BY <1>2 DEF LayoutTypeOK
<1>4. /\ answer' \in [RequestIds -> Settled \cup {"open"}]
      /\ \A i \in RequestIds : i # k => answer'[i] = answer[i]
      /\ answer'[k] = a
  BY <1>1, <1>2 DEF LayoutTypeOK, Settled
<1>5. LayoutTypeOK'
  BY <1>2, <1>3, <1>4 DEF LayoutTypeOK
<1>6. OpenIsAwaited'
  BY <1>1, <1>2, <1>4 DEF LayoutInv, OpenIsAwaited
<1>7. LoadingIsAwaited'
  <2> SUFFICES ASSUME NEW r \in Renderers, view[r].current, view[r].status = "loading",
                      view[r].of = latest[r], view[r].of \notin pendingIds'
               PROVE  \/ answer'[view[r].of] \in {"worker", "computed", "failed"} /\ view[r].of \notin reacted
                      \/ answer'[view[r].of] = "misnamed"
    BY DEF LoadingIsAwaited, LayoutInv
  <2>1. view[r].of \in RequestIds
    BY DEF LayoutInv, LoadingIsAsked
  <2>2. CASE view[r].of = k
    BY <1>4, <2>2 DEF LayoutInv, OpenIsAwaited, ReactedIsAnswered, LayoutTypeOK, IsNewest
  <2>3. CASE view[r].of # k
    BY <1>2, <1>4, <2>1, <2>3 DEF LayoutInv, LoadingIsAwaited
  <2> QED
    BY <2>2, <2>3
<1>8. Numbered' /\ ReactedIsAnswered' /\ LoadingIsAsked'
  BY <1>2, <1>4 DEF LayoutInv, Numbered, ReactedIsAnswered, LoadingIsAsked, OpenIsAwaited, LayoutTypeOK
<1>9. StaleIsReplaced'
  BY <1>4 DEF LayoutInv, StaleIsReplaced, IsNewest
<1> QED
  BY <1>5, <1>6, <1>7, <1>8, <1>9 DEF LayoutInv

-----------------------------------------------------------------------------
\* What both kinds of request do: they close the request that they supersede,
\* and the new one is open or answered here.
Made(r) ==
    /\ answer' \in [RequestIds -> Settled \cup {"open"}]
    /\ \A i \in RequestIds : i # nextId /\ i \notin Replaced(r) => answer'[i] = answer[i]
    /\ \A i \in Replaced(r) : answer'[i] = "stale"
    /\ \/ pendingIds' = pendingIds \ Replaced(r) /\ answer'[nextId] \in Computed
       \/ /\ pendingIds' = (pendingIds \ Replaced(r)) \cup {nextId}
          /\ answer'[nextId] = "open" /\ worker' = "up"
    /\ worker' \in {"none", "up", "gone"} /\ inbox' \in Seq(RequestIds)
    /\ worker' = "up" \/ worker' = worker \/ worker # "up"

LEMMA RequestMakes ==
    ASSUME LayoutTypeOK, LayoutInv, NEW r \in Renderers, Request(r)
    PROVE  Made(r)
<1>1. nextId \in RequestIds /\ answer[nextId] = "open" /\ nextId \notin Replaced(r)
  BY RequestAssumption DEF Request, LayoutTypeOK, RequestIds, LayoutInv, Numbered, Replaced
<1>2. ASSUME NEW w \in {"none", "up", "gone"}, AnsweredHere(r, w),
             w = "up" \/ w = worker \/ worker # "up"
      PROVE  Made(r)
  <2>1. PICK c \in Computed :
          answer' = [i \in RequestIds |-> IF i \in Replaced(r) THEN "stale"
                                          ELSE IF i = nextId THEN c ELSE answer[i]]
    BY <1>2 DEF AnsweredHere
  <2>2. /\ answer' \in [RequestIds -> Settled \cup {"open"}]
        /\ \A i \in RequestIds : i # nextId /\ i \notin Replaced(r) => answer'[i] = answer[i]
        /\ \A i \in Replaced(r) : answer'[i] = "stale"
        /\ answer'[nextId] \in Computed
    BY <1>1, <2>1 DEF LayoutTypeOK, Computed, Settled, Replaced
  <2> QED
    BY <1>2, <2>2 DEF Made, AnsweredHere, LayoutTypeOK
<1>3. CASE Posted(r)
  <2>1. /\ answer' \in [RequestIds -> Settled \cup {"open"}]
        /\ \A i \in RequestIds : i # nextId /\ i \notin Replaced(r) => answer'[i] = answer[i]
        /\ \A i \in Replaced(r) : answer'[i] = "stale"
        /\ answer'[nextId] = "open"
    BY <1>1, <1>3 DEF Posted, LayoutTypeOK, Settled, Replaced
  <2>2. inbox' \in Seq(RequestIds)
    BY <1>1, <1>3 DEF Posted, LayoutTypeOK
  <2> QED
    BY <1>3, <2>1, <2>2 DEF Made, Posted
<1> QED
  BY <1>2, <1>3 DEF Request, LayoutTypeOK

LEMMA RequestStep ==
    ASSUME LayoutTypeOK, LayoutInv, NEW r \in Renderers, Request(r)
    PROVE  LayoutTypeOK' /\ LayoutInv'
<1>1. nextId \in RequestIds /\ nextId' = nextId + 1 /\ answer[nextId] = "open" /\ mounted /\ mounted' = mounted
      /\ UNCHANGED <<outbox, reacted>>
  BY RequestAssumption DEF Request, LayoutTypeOK, RequestIds, LayoutInv, Numbered
<1>2. latest' \in [Renderers -> 0..MaxRequests]
      /\ latest'[r] = nextId /\ \A q \in Renderers \ {r} : latest'[q] = latest[q]
  BY RequestAssumption, <1>1 DEF Request, LayoutTypeOK, RequestIds
<1>3. /\ view' \in [Renderers -> [of : 0..MaxRequests, current : BOOLEAN,
                                  status : {"idle", "loading", "layout", "error"}]]
      /\ view'[r].of = nextId /\ view'[r].current /\ view'[r].status = "loading"
      /\ \A q \in Renderers \ {r} : view'[q] = view[q]
  BY RequestAssumption, <1>1 DEF Request, LayoutTypeOK, View, RequestIds
<1>4. Made(r)
  BY RequestMakes
<1>5. Replaced(r) \subseteq pendingIds /\ \A i \in Replaced(r) : i = latest[r] /\ i < nextId
  BY DEF Replaced, LayoutInv, OpenIsAwaited, LayoutTypeOK
<1>6. LayoutTypeOK'
  <2>1. nextId' \in 1..(MaxRequests + 1)
    BY RequestAssumption, <1>1 DEF RequestIds
  <2>2. pendingIds' \in SUBSET RequestIds
    BY <1>1, <1>4 DEF Made, LayoutTypeOK
  <2> QED
    BY <1>1, <1>2, <1>3, <1>4, <2>1, <2>2 DEF LayoutTypeOK, Made
<1>7. OpenIsAwaited'
  <2>1. \A i \in RequestIds : i \in pendingIds' <=> i < nextId' /\ answer'[i] = "open"
    <3> SUFFICES ASSUME NEW i \in RequestIds
                 PROVE  i \in pendingIds' <=> i < nextId' /\ answer'[i] = "open"
      OBVIOUS
    <3>1. i < nextId' <=> i < nextId \/ i = nextId
      BY <1>1 DEF LayoutTypeOK, RequestIds
    <3>2. CASE i = nextId
      <4>1. i \notin pendingIds /\ i \notin Replaced(r)
        BY <1>5, <3>2 DEF LayoutTypeOK, LayoutInv, OpenIsAwaited
      <4>2. i \in pendingIds' <=> answer'[i] = "open"
        BY <1>4, <3>2, <4>1 DEF Made, Computed
      <4> QED
        BY <3>1, <3>2, <4>2
    <3>3. CASE i # nextId /\ i \in Replaced(r)
      BY <1>4, <3>3 DEF Made
    <3>4. CASE i # nextId /\ i \notin Replaced(r)
      BY <1>4, <3>1, <3>4 DEF Made, LayoutInv, OpenIsAwaited
    <3> QED
      BY <3>2, <3>3, <3>4
  <2>2. \A i \in pendingIds' : \E q \in Renderers : latest'[q] = i
    <3> SUFFICES ASSUME NEW i \in pendingIds', i # nextId
                 PROVE  \E q \in Renderers : latest'[q] = i
      BY <1>2
    <3>1. i \in pendingIds /\ i # latest[r]
      BY <1>4 DEF Made, Replaced
    <3>2. PICK q \in Renderers : latest[q] = i
      BY <3>1 DEF LayoutInv, OpenIsAwaited
    <3> QED
      BY <1>2, <3>1, <3>2
  <2>3. pendingIds' # {} => worker' = "up" /\ mounted'
    BY <1>1, <1>4 DEF Made, LayoutInv, OpenIsAwaited
  <2> QED
    BY <2>1, <2>2, <2>3 DEF OpenIsAwaited
<1>8. ReactedIsAnswered'
  BY <1>1, <1>4, <1>5 DEF Made, LayoutInv, ReactedIsAnswered, OpenIsAwaited, Computed, LayoutTypeOK
<1>9. LoadingIsAwaited'
  <2> SUFFICES ASSUME NEW q \in Renderers, view'[q].current
               PROVE  /\ view'[q].of = latest'[q]
                      /\ view'[q].status = "loading" =>
                           \/ view'[q].of \in pendingIds'
                           \/ /\ answer'[view'[q].of] \in {"worker", "computed", "failed"}
                              /\ view'[q].of \notin reacted'
                           \/ answer'[view'[q].of] = "misnamed"
    BY DEF LoadingIsAwaited
  <2>1. CASE q = r
    BY <1>1, <1>2, <1>3, <1>4, <2>1 DEF Made, Computed, LayoutInv, ReactedIsAnswered
  <2>2. CASE q # r
    <3>1. view'[q] = view[q] /\ view[q].of = latest[q] /\ latest'[q] = latest[q]
      BY <1>2, <1>3, <2>2 DEF LayoutInv, LoadingIsAwaited
    <3>2. ASSUME view[q].status = "loading"
          PROVE  \/ view[q].of \in pendingIds'
                 \/ /\ answer'[view[q].of] \in {"worker", "computed", "failed"}
                    /\ view[q].of \notin reacted'
                 \/ answer'[view[q].of] = "misnamed"
      <4>1. latest[q] \in RequestIds /\ latest[q] # latest[r] /\ latest[q] # nextId
        BY <2>2, <3>1, <3>2 DEF LayoutInv, LoadingIsAsked, Numbered, RequestIds, LayoutTypeOK
      <4>2. answer'[latest[q]] = answer[latest[q]] /\ (latest[q] \in pendingIds => latest[q] \in pendingIds')
        BY <1>4, <1>5, <4>1 DEF Made
      <4> QED
        BY <1>1, <3>1, <3>2, <4>2 DEF LayoutInv, LoadingIsAwaited
    <3> QED
      BY <3>1, <3>2
  <2> QED
    BY <2>1, <2>2
<1>10. Numbered'
  <2>1. \A i \in RequestIds : i >= nextId' => answer'[i] = "open"
    <3> SUFFICES ASSUME NEW i \in RequestIds, i >= nextId'
                 PROVE  answer'[i] = "open"
      OBVIOUS
    <3>1. i >= nextId /\ i # nextId
      BY <1>1 DEF RequestIds, LayoutTypeOK
    <3>2. i \notin Replaced(r)
      BY <1>5, <3>1 DEF RequestIds, LayoutTypeOK
    <3> QED
      BY <1>4, <3>1, <3>2 DEF Made, LayoutInv, Numbered
  <2>2. \A q \in Renderers : latest[q] \in Nat /\ latest[q] < nextId /\ nextId \in Nat
    BY DEF LayoutInv, Numbered, LayoutTypeOK
  <2>3. \A q \in Renderers : latest'[q] < nextId' /\ (q # r => latest'[q] # latest'[r])
    <3> TAKE q \in Renderers
    <3>1. CASE q = r
      BY <1>1, <1>2, <2>2, <3>1
    <3>2. CASE q # r
      BY <1>1, <1>2, <2>2, <3>2
    <3> QED
      BY <3>1, <3>2
  <2>4. \A p, q \in Renderers : p # q => latest'[p] # latest'[q] \/ latest'[p] = 0
    BY <1>2, <2>3 DEF LayoutInv, Numbered
  <2> QED
    BY <2>1, <2>3, <2>4 DEF Numbered
<1>11. LoadingIsAsked'
  BY <1>1, <1>3 DEF LayoutInv, LoadingIsAsked
<1>12. StaleIsReplaced'
  <2> SUFFICES ASSUME NEW i \in RequestIds, answer'[i] = "stale", NEW q \in Renderers,
                      latest'[q] = i
               PROVE  FALSE
    BY <1>1 DEF StaleIsReplaced, IsNewest
  <2>1. i # nextId
    BY <1>1, <1>4 DEF Made, Computed
  <2>2. q # r /\ latest[q] = i
    BY <1>2, <2>1
  <2>3. i \notin Replaced(r)
    BY <1>5, <2>2 DEF LayoutInv, Numbered, RequestIds, LayoutTypeOK
  <2>4. answer[i] = "stale"
    BY <1>4, <2>1, <2>3 DEF Made
  <2> QED
    BY <1>1, <2>2, <2>4 DEF LayoutInv, StaleIsReplaced, IsNewest
<1> QED
  BY <1>6, <1>7, <1>8, <1>9, <1>10, <1>11, <1>12 DEF LayoutInv

-----------------------------------------------------------------------------
\* Every step keeps the types and the invariant.
LEMMA LayoutStep ==
    ASSUME LayoutTypeOK, LayoutInv, [LayoutNext]_layoutVars
    PROVE  LayoutTypeOK' /\ LayoutInv'
<1>1. ASSUME NEW r \in Renderers, Request(r)
      PROVE  LayoutTypeOK' /\ LayoutInv'
  BY <1>1, RequestStep
<1>2. ASSUME NEW r \in Renderers, Deselect(r)
      PROVE  LayoutTypeOK' /\ LayoutInv'
  <2>1. /\ view' = [view EXCEPT ![r].current = FALSE]
        /\ UNCHANGED <<nextId, latest, pendingIds, worker, inbox, outbox, answer, reacted, mounted>>
    BY <1>2 DEF Deselect
  <2>2. /\ view' \in [Renderers -> [of : 0..MaxRequests, current : BOOLEAN,
                                    status : {"idle", "loading", "layout", "error"}]]
        /\ \A q \in Renderers : /\ view'[q].of = view[q].of /\ view'[q].status = view[q].status
                                /\ view'[q].current => view[q].current
    BY <2>1 DEF LayoutTypeOK
  <2> QED
    BY <2>1, <2>2
    DEF LayoutTypeOK, LayoutInv, OpenIsAwaited, LoadingIsAwaited, StaleIsReplaced, IsNewest,
        Numbered, ReactedIsAnswered, LoadingIsAsked
<1>3. CASE WorkerStep
  <2>1. inbox' \in Seq(RequestIds) /\ outbox' \in Seq(Event)
    <3>1. CASE inbox # <<>> /\ inbox' = Tail(inbox)
               /\ \E kind \in {"layout", "failure", "malformed", "misnamed"} :
                     outbox' = Append(outbox, [kind |-> kind, id |-> Head(inbox)])
      <4>1. Head(inbox) \in RequestIds /\ inbox' \in Seq(RequestIds)
        BY <3>1 DEF LayoutTypeOK
      <4>2. \A kind \in {"layout", "failure", "malformed", "misnamed"} : [kind |-> kind, id |-> Head(inbox)] \in Event
        BY <4>1 DEF Event
      <4> QED
        BY <3>1, <4>1, <4>2 DEF LayoutTypeOK
    <3>2. CASE outbox' = Append(outbox, [kind |-> "error", id |-> 0]) /\ UNCHANGED inbox
      <4>1. [kind |-> "error", id |-> 0] \in Event
        BY DEF Event
      <4> QED
        BY <3>2, <4>1 DEF LayoutTypeOK
    <3> QED
      BY <1>3, <3>1, <3>2 DEF WorkerStep
  <2> QED
    BY <1>3, <2>1
    DEF WorkerStep, LayoutTypeOK, LayoutInv, OpenIsAwaited, LoadingIsAwaited, StaleIsReplaced, IsNewest,
        Numbered, ReactedIsAnswered, LoadingIsAsked
<1>4. CASE Message
  <2>1. ASSUME NEW k \in pendingIds, NEW a \in {"worker", "stale", "misnamed"}, Settles(k, a),
               a = "stale" => ~IsNewest(k)
        PROVE  LayoutTypeOK' /\ LayoutInv'
    BY <1>4, <2>1, SettlesStep DEF Message
  <2>2. CASE FailWorker
    BY <1>4, <2>2, FailWorkerStep DEF Message
  <2>3. CASE outbox' = Tail(outbox) /\ UNCHANGED <<worker, inbox, pendingIds, answer>>
    <3>1. outbox' \in Seq(Event)
      BY <1>4, <2>3 DEF Message, LayoutTypeOK
    <3> QED
      BY <1>4, <2>3, <3>1
      DEF Message, LayoutTypeOK, LayoutInv, OpenIsAwaited, LoadingIsAwaited, StaleIsReplaced, IsNewest,
        Numbered, ReactedIsAnswered, LoadingIsAsked
  <2> QED
    BY <1>4, <2>1, <2>2, <2>3 DEF Message
<1>5. ASSUME NEW i \in RequestIds, Timeout(i)
      PROVE  LayoutTypeOK' /\ LayoutInv'
  BY <1>5, FailWorkerStep DEF Timeout
<1>6. ASSUME NEW i \in RequestIds, React(i)
      PROVE  LayoutTypeOK' /\ LayoutInv'
  <2>1. /\ answer[i] # "open" /\ reacted' = reacted \cup {i}
        /\ view' = [r \in Renderers |-> Shown(i, view[r])]
        /\ UNCHANGED <<nextId, latest, pendingIds, worker, inbox, outbox, answer, mounted>>
    BY <1>6 DEF React
  <2>2. \A r \in Renderers :
          /\ view'[r] \in [of : 0..MaxRequests, current : BOOLEAN,
                           status : {"idle", "loading", "layout", "error"}]
          /\ view'[r].of = view[r].of /\ view'[r].current = view[r].current
          /\ view'[r].status = "loading" =>
                 /\ view[r].status = "loading"
                 /\ view[r].of # i \/ ~view[r].current \/ answer[i] \in Refused
    BY <2>1 DEF Shown, View, LayoutTypeOK
  <2>3. LayoutTypeOK'
    BY <2>1, <2>2 DEF LayoutTypeOK
  <2>4. LoadingIsAwaited'
    BY <2>1, <2>2 DEF LayoutInv, LoadingIsAwaited, OpenIsAwaited, Refused
  <2> QED
    BY <2>1, <2>2, <2>3, <2>4
    DEF LayoutInv, OpenIsAwaited, StaleIsReplaced, IsNewest, Numbered, ReactedIsAnswered, LoadingIsAsked
<1>7. CASE Unmount
  <2>1. /\ pendingIds' = {} /\ worker' = "gone" /\ inbox' = <<>> /\ outbox' = <<>> /\ mounted' = FALSE
        /\ answer' = [i \in RequestIds |-> IF i \in pendingIds THEN "stale" ELSE answer[i]]
        /\ view' = [r \in Renderers |-> View(view[r].of, FALSE, view[r].status)]
        /\ UNCHANGED <<nextId, latest, reacted>>
    BY <1>7 DEF Unmount, Terminate
  <2>2. /\ view' \in [Renderers -> [of : 0..MaxRequests, current : BOOLEAN,
                                    status : {"idle", "loading", "layout", "error"}]]
        /\ \A r \in Renderers : /\ ~view'[r].current
                                /\ view'[r].of = view[r].of /\ view'[r].status = view[r].status
    BY <2>1 DEF View, LayoutTypeOK
  <2>3. /\ answer' \in [RequestIds -> Settled \cup {"open"}]
        /\ \A i \in RequestIds : answer'[i] = IF i \in pendingIds THEN "stale" ELSE answer[i]
    BY <2>1 DEF LayoutTypeOK, Settled
  <2>4. LayoutTypeOK'
    <3>1. inbox' \in Seq(RequestIds) /\ outbox' \in Seq(Event) /\ pendingIds' \in SUBSET RequestIds
          /\ worker' \in {"none", "up", "gone"} /\ mounted' \in BOOLEAN
      <4>1. pendingIds' = {} /\ worker' = "gone" /\ inbox' = <<>> /\ outbox' = <<>> /\ mounted' = FALSE
        BY <2>1
      <4>2. inbox' \in Seq(RequestIds) /\ outbox' \in Seq(Event)
        BY <4>1
      <4> QED
        BY <4>1, <4>2
    <3>2. nextId' \in 1..(MaxRequests + 1) /\ latest' \in [Renderers -> 0..MaxRequests]
          /\ reacted' \in SUBSET RequestIds
      BY <2>1 DEF LayoutTypeOK
    <3> QED
      BY <2>2, <2>3, <3>1, <3>2 DEF LayoutTypeOK
  <2>5. OpenIsAwaited' /\ LoadingIsAwaited' /\ LoadingIsAsked'
    <3>1. OpenIsAwaited'
      BY <2>1, <2>3 DEF LayoutInv, OpenIsAwaited
    <3>2. LoadingIsAwaited' /\ LoadingIsAsked'
      BY <2>2 DEF LayoutInv, LoadingIsAwaited, LoadingIsAsked
    <3> QED
      BY <3>1, <3>2
  <2>6. Numbered' /\ ReactedIsAnswered'
    BY <2>1, <2>3 DEF LayoutInv, Numbered, ReactedIsAnswered, OpenIsAwaited, LayoutTypeOK
  <2>7. StaleIsReplaced'
    BY <2>1 DEF StaleIsReplaced
  <2> QED
    BY <2>4, <2>5, <2>6, <2>7 DEF LayoutInv
<1>8. CASE UNCHANGED layoutVars
  BY <1>8 DEF layoutVars, LayoutTypeOK, LayoutInv, OpenIsAwaited, LoadingIsAwaited, StaleIsReplaced, IsNewest,
        Numbered, ReactedIsAnswered, LoadingIsAsked
<1> QED
  BY <1>1, <1>2, <1>3, <1>4, <1>5, <1>6, <1>7, <1>8 DEF LayoutNext

\* The types and the invariant, together.
THEOREM LayoutInvariance == LayoutSpec => [](LayoutTypeOK /\ LayoutInv)
<1>1. LayoutTypeOK /\ LayoutInv /\ [LayoutNext]_layoutVars => (LayoutTypeOK /\ LayoutInv)'
  BY LayoutStep
<1> QED
  BY LayoutInitially, <1>1, PTL DEF LayoutSpec

\* The variables of coordinator, worker and workspace keep their types.
THEOREM LayoutTypesAreKept == LayoutSpec => []LayoutTypeOK
BY LayoutInvariance, PTL

\* A promise is open exactly while the coordinator awaits it, for the newest
\* request of a renderer, from a worker that is up; and a loading renderer has an
\* answer to wait for, unless the worker's message named the other renderer.
THEOREM AllIsAwaited == LayoutSpec => []Awaited
<1>1. LayoutTypeOK /\ LayoutInv => Awaited
  BY DEF LayoutInv, Awaited
<1> QED
  BY <1>1, LayoutInvariance, PTL

\* No request is refused as superseded while it is the newest of its renderer.
THEOREM OnlyReplacedAreStale == LayoutSpec => []StaleIsReplaced
<1>1. LayoutTypeOK /\ LayoutInv => StaleIsReplaced
  BY DEF LayoutInv
<1> QED
  BY <1>1, LayoutInvariance, PTL
=============================================================================
