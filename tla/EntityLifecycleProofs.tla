------------------------ MODULE EntityLifecycleProofs ------------------------
(***************************************************************************)
(* Proofs about EntityLifecycle, in two layers.  The first is about the    *)
(* abstract history alone: atomic transitions keep the history, and the    *)
(* marks of restored actions, consistent.  The second is about the         *)
(* transactions: what a transaction has checked stays the case until it    *)
(* commits, so that each of them is an atomic transition.  Together they   *)
(* give every invariant of the run for any number of entities, keys and    *)
(* transactions.                                                           *)
(***************************************************************************)
EXTENDS EntityLifecycle, TLAPS

Done(k) == action[k] # NoAction

-----------------------------------------------------------------------------
(* The abstract history. *)

HistoryType ==
    /\ log \in [Entities -> Seq(Versions)] /\ \A e \in Entities : log[e] # <<>>
    /\ action \in [Keys -> Actions \cup {NoAction}]

\* Every version that names an action was written by a completed one.
Attributed ==
    \A e \in Entities : \A w \in DOMAIN log[e] :
        log[e][w].by # NoKey => Done(log[e][w].by)

\* What a completed action restored is a completed action.
Forward ==
    \A k \in Keys : Done(k) /\ action[k].request.restores # NoKey
                        => Done(action[k].request.restores)

HistoryInv == HistoryType /\ HistoryExplains /\ Attributed /\ Forward /\ RestoredOnce

LEMMA DoneState ==
    ASSUME HistoryType, NEW k \in Keys
    PROVE  /\ Done(k) => action[k] \in Actions
           /\ Done(k) <=> action[k].state \in {"SUCCEEDED", "ROLLED_BACK"}
  BY DEF HistoryType, Done, Actions, NoAction

LEMMA VersionsAreRows ==
    ASSUME HistoryType, NEW e \in Entities
    PROVE  /\ log[e] \in Seq(Versions) /\ Len(log[e]) \in Nat \ {0}
           /\ DOMAIN log[e] = 1 .. Len(log[e])
           /\ Status(e) \in Statuses
           /\ \A w \in 1 .. Len(log[e]) : log[e][w] \in Versions
<1>1. log[e] \in Seq(Versions) /\ log[e] # <<>>
  BY DEF HistoryType
<1>2. Len(log[e]) \in Nat \ {0} /\ DOMAIN log[e] = 1 .. Len(log[e])
  BY <1>1
<1>3. \A w \in 1 .. Len(log[e]) : log[e][w] \in Versions
  BY <1>1, <1>2
<1>4. Len(log[e]) \in 1 .. Len(log[e])
  BY <1>2
<1> QED
  BY <1>1, <1>2, <1>3, <1>4 DEF Status, Versions

\* Only the state of an action that is rolled back changes.
LEMMA RollBackKeeps ==
    ASSUME NEW a \in Actions
    PROVE  /\ RolledBack(a) \in Actions /\ RolledBack(a).state = "ROLLED_BACK"
           /\ RolledBack(a).request = a.request
           /\ RolledBack(a).before = a.before /\ RolledBack(a).beforeVersion = a.beforeVersion
           /\ RolledBack(a).after = a.after /\ RolledBack(a).afterVersion = a.afterVersion
  BY DEF RolledBack, Actions

\* What a transition leaves, row by row.
LEMMA TransitionEffect ==
    ASSUME HistoryType, NEW r \in Requests, Transition(r)
    PROVE  /\ ~Done(r.key) /\ action'[r.key] = Action(r) /\ Action(r) \in Actions
           /\ r.restores # NoKey =>
                 /\ r.restores \in Keys /\ r.restores # r.key
                 /\ action[r.restores] \in Actions
                 /\ action[r.restores].state = "SUCCEEDED"
                 /\ action'[r.restores] = RolledBack(action[r.restores])
                 /\ action[r.restores].request.type = Opposite(r.type)
                 /\ action[r.restores].request.target = r.target
           /\ \A k \in Keys \ {r.key, r.restores} : action'[k] = action[k]
           /\ action' \in [Keys -> Actions \cup {NoAction}]
<1>1. r.key \in Keys /\ r.target \in Entities /\ r.restores \in Keys \cup {NoKey} /\ r.type \in Types
  BY DEF Requests
<1>2. ~Done(r.key) /\ action[r.key].state # "SUCCEEDED"
  BY <1>1, DoneState DEF Transition, Done
<1>3. Action(r) \in Actions
  <2>1. Status(r.target) \in Statuses /\ Version(r.target) \in Nat \ {0}
    BY <1>1, VersionsAreRows DEF Version
  <2>2. NextStatus(r.type) \in Statuses
    BY DEF NextStatus, Statuses
  <2> QED
    BY <2>1, <2>2 DEF Action, Actions
<1>4. action' = Recorded(r)
  BY DEF Transition
<1>5. action'[r.key] = Action(r)
  BY <1>1, <1>4 DEF Recorded
<1>6. ASSUME r.restores # NoKey
      PROVE  /\ r.restores \in Keys /\ r.restores # r.key
             /\ action[r.restores] \in Actions
             /\ action[r.restores].state = "SUCCEEDED"
             /\ action'[r.restores] = RolledBack(action[r.restores])
             /\ action[r.restores].request.type = Opposite(r.type)
             /\ action[r.restores].request.target = r.target
  <2>1. r.restores \in Keys
    BY <1>1, <1>6
  <2>2. /\ action[r.restores].state = "SUCCEEDED"
        /\ action[r.restores].request.type = Opposite(r.type)
        /\ action[r.restores].request.target = r.target
    BY <1>6 DEF Transition, Restorable
  <2>3. action[r.restores] \in Actions /\ r.restores # r.key
    BY <2>1, <2>2, <1>2, DoneState
  <2> QED
    BY <2>1, <2>2, <2>3, <1>4 DEF Recorded
<1>7. \A k \in Keys \ {r.key, r.restores} : action'[k] = action[k]
  BY <1>4 DEF Recorded
<1>8. \A k \in Keys : action'[k] \in Actions \cup {NoAction}
  <2> SUFFICES ASSUME NEW k \in Keys PROVE action'[k] \in Actions \cup {NoAction}
    OBVIOUS
  <2>1. CASE k = r.key
    BY <2>1, <1>5, <1>3
  <2>2. CASE k = r.restores /\ k # r.key
    <3>1. r.restores # NoKey
      BY <2>2, KeyAssumption
    <3>2. RolledBack(action[r.restores]) \in Actions
      BY <3>1, <1>6, RollBackKeeps
    <3> QED
      BY <2>2, <3>1, <3>2, <1>6
  <2>3. CASE k \notin {r.key, r.restores}
    BY <2>3, <1>7 DEF HistoryType
  <2> QED
    BY <2>1, <2>2, <2>3
<1>9. action' = [k \in Keys |-> action'[k]]
  BY <1>4 DEF Recorded
<1> QED
  BY <1>2, <1>3, <1>5, <1>6, <1>7, <1>8, <1>9

\* A log only grows, by at most one row.
LEMMA Grown ==
    ASSUME HistoryType, NEW e \in Entities, NEW row1 \in Versions,
           log' = [log EXCEPT ![e] = Append(@, row1)]
    PROVE  /\ log' \in [Entities -> Seq(Versions)] /\ \A f \in Entities : log'[f] # <<>>
           /\ DOMAIN log'[e] = 1 .. Len(log[e]) + 1
           /\ log'[e][Len(log[e]) + 1] = row1
           /\ \A f \in Entities : \A w \in DOMAIN log[f] :
                 w \in DOMAIN log'[f] /\ log'[f][w] = log[f][w]
           /\ \A f \in Entities : \A w \in DOMAIN log'[f] :
                 w \in DOMAIN log[f] \/ (f = e /\ w = Len(log[e]) + 1)
<1>1. log'[e] = Append(log[e], row1) /\ \A f \in Entities \ {e} : log'[f] = log[f]
  BY DEF HistoryType
<1>2. log[e] \in Seq(Versions) /\ Len(log[e]) \in Nat /\ DOMAIN log[e] = 1 .. Len(log[e])
  BY VersionsAreRows
<1>3. /\ log'[e] \in Seq(Versions) /\ Len(log'[e]) = Len(log[e]) + 1
      /\ DOMAIN log'[e] = 1 .. Len(log[e]) + 1
  BY <1>1, <1>2
<1>4. log'[e][Len(log[e]) + 1] = row1 /\ \A w \in 1 .. Len(log[e]) : log'[e][w] = log[e][w]
  BY <1>1, <1>2
<1>5. log' \in [Entities -> Seq(Versions)]
  BY <1>1, <1>3 DEF HistoryType
<1>6. \A f \in Entities : log'[f] # <<>>
  <2>1. log'[e] # <<>>
    BY <1>3, <1>2
  <2> QED
    BY <2>1, <1>1 DEF HistoryType
<1> QED
  BY <1>1, <1>2, <1>3, <1>4, <1>5, <1>6

\* The actions before a transition are still there after it, with what they state.
LEMMA TransitionKeeps ==
    ASSUME HistoryType, NEW r \in Requests, Transition(r)
    PROVE  /\ \A k \in Keys : Done(k)' <=> Done(k) \/ k = r.key
           /\ \A k \in Keys : Done(k) =>
                 /\ action'[k].request = action[k].request
                 /\ action'[k].before = action[k].before
                 /\ action'[k].beforeVersion = action[k].beforeVersion
                 /\ action'[k].after = action[k].after
                 /\ action'[k].afterVersion = action[k].afterVersion
                 /\ k # r.restores => action'[k] = action[k]
<1>1. /\ ~Done(r.key) /\ action'[r.key] \in Actions
      /\ \A k \in Keys \ {r.key, r.restores} : action'[k] = action[k]
  BY TransitionEffect
<1>2. ASSUME NEW k \in Keys, k = r.restores
      PROVE  /\ action[k] \in Actions /\ action'[k] = RolledBack(action[k])
  BY <1>2, KeyAssumption, TransitionEffect
<1>3. NoAction \notin Actions
  BY DEF NoAction, Actions
<1>4. ASSUME NEW k \in Keys PROVE Done(k)' <=> Done(k) \/ k = r.key
  <2>1. CASE k = r.key
    BY <2>1, <1>1, <1>3 DEF Done
  <2>2. CASE k = r.restores
    BY <2>2, <1>2, <1>3, RollBackKeeps DEF Done
  <2>3. CASE k \notin {r.key, r.restores}
    BY <2>3, <1>1 DEF Done
  <2> QED
    BY <2>1, <2>2, <2>3
<1>5. ASSUME NEW k \in Keys, Done(k)
      PROVE  /\ action'[k].request = action[k].request
             /\ action'[k].before = action[k].before
             /\ action'[k].beforeVersion = action[k].beforeVersion
             /\ action'[k].after = action[k].after
             /\ action'[k].afterVersion = action[k].afterVersion
             /\ k # r.restores => action'[k] = action[k]
  <2>1. k # r.key
    BY <1>1, <1>5
  <2>2. CASE k = r.restores
    BY <2>2, <1>2, RollBackKeeps
  <2>3. CASE k # r.restores
    BY <2>1, <2>3, <1>1
  <2> QED
    BY <2>2, <2>3
<1> QED
  BY <1>4, <1>5

LEMMA RequestedIsRequest ==
    ASSUME HistoryType, NEW k \in Keys, NEW type \in Types, NEW e \in Entities,
           NEW x \in Keys \cup {NoKey}
    PROVE  Requested(k, type, e, x) \in Requests
  BY VersionsAreRows DEF Requested, Requests, Version

\* A transition's own action is explained, and those before it stay so.
LEMMA TransitionExplains ==
    ASSUME HistoryType, HistoryExplains, Attributed, NEW r \in Requests, Transition(r)
    PROVE  /\ log' \in [Entities -> Seq(Versions)] /\ \A f \in Entities : log'[f] # <<>>
           /\ HistoryExplains' /\ Attributed'
<1> DEFINE e == r.target
           new == [status |-> NextStatus(r.type), by |-> r.key]
<1>1. e \in Entities /\ r.key \in Keys /\ new \in Versions
  BY DEF Requests, Versions, NextStatus, Statuses
<1>2. log' = [log EXCEPT ![e] = Append(@, new)]
  BY DEF Transition, Logged
<1> HIDE DEF new
<1>3. /\ log' \in [Entities -> Seq(Versions)] /\ \A f \in Entities : log'[f] # <<>>
      /\ DOMAIN log'[e] = 1 .. Len(log[e]) + 1
      /\ log'[e][Len(log[e]) + 1] = new
      /\ \A f \in Entities : \A w \in DOMAIN log[f] :
            w \in DOMAIN log'[f] /\ log'[f][w] = log[f][w]
      /\ \A f \in Entities : \A w \in DOMAIN log'[f] :
            w \in DOMAIN log[f] \/ (f = e /\ w = Len(log[e]) + 1)
  BY <1>1, <1>2, Grown
<1>4. /\ \A k \in Keys : Done(k)' <=> Done(k) \/ k = r.key
      /\ \A k \in Keys : Done(k) =>
            /\ action'[k].request = action[k].request
            /\ action'[k].before = action[k].before
            /\ action'[k].beforeVersion = action[k].beforeVersion
            /\ action'[k].after = action[k].after
            /\ action'[k].afterVersion = action[k].afterVersion
  BY TransitionKeeps
<1>5. action'[r.key] = Action(r) /\ ~Done(r.key)
  BY TransitionEffect
<1>6. new.by = r.key /\ new.status = NextStatus(r.type)
  BY DEF new
<1>7. Attributed'
  <2> SUFFICES ASSUME NEW f \in Entities, NEW w \in DOMAIN log'[f], log'[f][w].by # NoKey
               PROVE  action'[log'[f][w].by] # NoAction
    BY DEF Attributed, Done
  <2>1. CASE w \in DOMAIN log[f]
    <3>1. log[f][w] \in Versions /\ log'[f][w] = log[f][w]
      BY <2>1, <1>3, VersionsAreRows
    <3>2. log[f][w].by \in Keys /\ Done(log[f][w].by)
      BY <2>1, <3>1 DEF Attributed, Versions
    <3> QED
      BY <3>1, <3>2, <1>4 DEF Done
  <2>2. CASE f = e /\ w = Len(log[e]) + 1
    BY <2>2, <1>1, <1>3, <1>4, <1>6 DEF Done
  <2> QED
    BY <2>1, <2>2, <1>3
<1>8. ASSUME NEW k \in Keys, Done(k)'
      PROVE  LET a == action'[k]  g == a.request.target  v == a.afterVersion IN
             /\ a.beforeVersion = a.request.version /\ v = a.beforeVersion + 1
             /\ v \in DOMAIN log'[g]
             /\ log'[g][v] = [status |-> a.after, by |-> k]
             /\ log'[g][a.beforeVersion].status = a.before
             /\ a.before = a.request.previous
             /\ \A f \in Entities : \A w \in DOMAIN log'[f] :
                  log'[f][w].by = k => f = g /\ w = v
  <2>1. CASE k = r.key
    <3>1. /\ Version(e) = r.version /\ Status(e) = r.previous
      BY DEF Transition, Applies
    <3>2. Version(e) = Len(log[e]) /\ Len(log[e]) \in DOMAIN log[e] /\ Len(log[e]) \in Nat
      BY <1>1, VersionsAreRows DEF Version
    <3>3. /\ action'[k].request = r /\ action'[k].before = Status(e)
          /\ action'[k].beforeVersion = Version(e) /\ action'[k].after = NextStatus(r.type)
          /\ action'[k].afterVersion = Version(e) + 1
      BY <2>1, <1>5 DEF Action
    <3>4. log'[e][Version(e)].status = Status(e)
      BY <1>1, <1>3, <3>2 DEF Status
    <3>5. ASSUME NEW f \in Entities, NEW w \in DOMAIN log'[f], log'[f][w].by = k
          PROVE  f = e /\ w = Version(e) + 1
      <4>1. w \notin DOMAIN log[f]
        BY <3>5, <2>1, <1>3, <1>5, KeyAssumption DEF Attributed
      <4> QED
        BY <4>1, <1>3, <3>2
    <3>6. Version(e) + 1 \in DOMAIN log'[e] /\ log'[e][Version(e) + 1] = new
      BY <1>3, <3>2
    <3>7. new = [status |-> action'[k].after, by |-> k]
      BY <2>1, <3>3 DEF new
    <3> QED
      BY <3>1, <3>3, <3>4, <3>5, <3>6, <3>7
  <2>2. CASE k # r.key
    <3> DEFINE a == action[k]  g == a.request.target  v == a.afterVersion
    <3>1. Done(k)
      BY <2>2, <1>4, <1>8
    <3>2. a \in Actions /\ g \in Entities /\ a.beforeVersion \in Nat \ {0}
      BY <3>1, DoneState DEF Actions, Requests
    <3>3. /\ a.beforeVersion = a.request.version /\ v = a.beforeVersion + 1
          /\ v \in DOMAIN log[g]
          /\ log[g][v] = [status |-> a.after, by |-> k]
          /\ log[g][a.beforeVersion].status = a.before
          /\ a.before = a.request.previous
          /\ \A f \in Entities : \A w \in DOMAIN log[f] :
               log[f][w].by = k => f = g /\ w = v
      BY <3>1 DEF HistoryExplains, Done
    <3> HIDE DEF a
    <3>4. a.beforeVersion \in DOMAIN log[g]
      BY <3>2, <3>3, VersionsAreRows
    <3>5. /\ v \in DOMAIN log'[g] /\ log'[g][v] = log[g][v]
          /\ log'[g][a.beforeVersion] = log[g][a.beforeVersion]
      BY <3>2, <3>3, <3>4, <1>3
    <3>6. ASSUME NEW f \in Entities, NEW w \in DOMAIN log'[f], log'[f][w].by = k
          PROVE  f = g /\ w = v
      <4>1. w \in DOMAIN log[f]
        BY <3>6, <2>2, <1>3, <1>6
      <4> QED
        BY <4>1, <3>6, <3>3, <1>3
    <3>7. /\ action'[k].request = a.request /\ action'[k].before = a.before
          /\ action'[k].beforeVersion = a.beforeVersion
          /\ action'[k].after = a.after /\ action'[k].afterVersion = a.afterVersion
      BY <3>1, <1>4 DEF a
    <3> QED
      BY <3>3, <3>5, <3>6, <3>7
  <2> QED
    BY <2>1, <2>2
<1>9. HistoryExplains'
  BY <1>8 DEF HistoryExplains, Done
<1> QED
  BY <1>3, <1>7, <1>9

Restorers(k) == {j \in Keys : Done(j) /\ action[j].request.restores = k}

LEMMA TransitionRestores ==
    ASSUME HistoryType, Forward, RestoredOnce, NEW r \in Requests, Transition(r)
    PROVE  Forward' /\ RestoredOnce'
<1>1. /\ \A k \in Keys : Done(k)' <=> Done(k) \/ k = r.key
      /\ \A k \in Keys : Done(k) =>
            /\ action'[k].request = action[k].request
            /\ k # r.restores => action'[k] = action[k]
  BY TransitionKeeps
<1>2. /\ action'[r.key].request = r /\ action'[r.key].state = "SUCCEEDED" /\ ~Done(r.key)
      /\ r.key \in Keys /\ r.restores \in Keys \cup {NoKey}
  <2>1. action'[r.key] = Action(r) /\ ~Done(r.key)
    BY TransitionEffect
  <2>2. Action(r).request = r /\ Action(r).state = "SUCCEEDED"
    BY DEF Action
  <2>3. r.key \in Keys /\ r.restores \in Keys \cup {NoKey}
    BY DEF Requests
  <2> QED
    BY <2>1, <2>2, <2>3
<1>3. ASSUME r.restores # NoKey
      PROVE  /\ Done(r.restores) /\ r.restores # r.key /\ r.restores \in Keys
             /\ action[r.restores].state = "SUCCEEDED"
             /\ action'[r.restores].state = "ROLLED_BACK"
             /\ action[r.restores].request.type = Opposite(r.type)
             /\ action[r.restores].request.target = r.target
  <2>1. /\ r.restores \in Keys /\ r.restores # r.key /\ action[r.restores] \in Actions
        /\ action[r.restores].state = "SUCCEEDED"
        /\ action'[r.restores] = RolledBack(action[r.restores])
        /\ action[r.restores].request.type = Opposite(r.type)
        /\ action[r.restores].request.target = r.target
    BY <1>3, TransitionEffect
  <2>2. Done(r.restores) /\ RolledBack(action[r.restores]).state = "ROLLED_BACK"
    BY <2>1, RollBackKeeps, DoneState
  <2> QED
    BY <2>1, <2>2
<1>4. Forward'
  <2> SUFFICES ASSUME NEW k \in Keys, Done(k)', action'[k].request.restores # NoKey
               PROVE  action'[action'[k].request.restores] # NoAction
    BY DEF Forward, Done
  <2>1. CASE k = r.key
    BY <2>1, <1>1, <1>2, <1>3 DEF Done
  <2>2. CASE k # r.key
    <3>1. Done(k) /\ action'[k].request = action[k].request
      BY <2>2, <1>1
    <3>2. action[k].request.restores \in Keys /\ Done(action[k].request.restores)
      BY <3>1, DoneState DEF Forward, Actions, Requests
    <3> QED
      BY <3>1, <3>2, <1>1 DEF Done
  <2> QED
    BY <2>1, <2>2
<1>5. ASSUME NEW k \in Keys, Done(k)'
      PROVE  LET restorers == {j \in Keys : Done(j)' /\ action'[j].request.restores = k} IN
             /\ action'[k].state = "ROLLED_BACK" <=> restorers # {}
             /\ \A i, j \in restorers : i = j
             /\ \A j \in restorers : /\ action'[j].request.target = action'[k].request.target
                                     /\ action'[j].request.type = Opposite(action'[k].request.type)
  <2> DEFINE restorers == {j \in Keys : Done(j)' /\ action'[j].request.restores = k}
  <2>1. restorers = Restorers(k) \cup IF k = r.restores THEN {r.key} ELSE {}
    BY <1>1, <1>2 DEF Restorers
  <2> HIDE DEF restorers
  <2>2. CASE k = r.key
    <3>1. Restorers(k) = {}
      <4> SUFFICES ASSUME NEW j \in Keys, Done(j), action[j].request.restores = k PROVE FALSE
        BY DEF Restorers
      <4> QED
        BY <1>2, <2>2, KeyAssumption DEF Forward
    <3>2. r.restores # r.key
      BY <1>2, <1>3, KeyAssumption
    <3> QED
      BY <2>1, <2>2, <3>1, <3>2, <1>2 DEF restorers
  <2>3. CASE k # r.key
    <3>1. Done(k) /\ action'[k].request = action[k].request
      BY <2>3, <1>1, <1>5
    <3>2. /\ action[k].state = "ROLLED_BACK" <=> Restorers(k) # {}
          /\ \A i, j \in Restorers(k) : i = j
          /\ \A j \in Restorers(k) :
                /\ action[j].request.target = action[k].request.target
                /\ action[j].request.type = Opposite(action[k].request.type)
      BY <3>1 DEF RestoredOnce, Restorers, Done
    <3>3. \A j \in Restorers(k) : action'[j].request = action[j].request
      BY <1>1 DEF Restorers
    <3>4. CASE k # r.restores
      <4>1. restorers = Restorers(k) /\ action'[k] = action[k]
        BY <2>1, <3>1, <3>4, <1>1
      <4> QED
        BY <4>1, <3>1, <3>2, <3>3 DEF restorers
    <3>5. CASE k = r.restores
      <4>1. r.restores # NoKey
        BY <3>5, KeyAssumption
      <4>2. Restorers(k) = {} /\ restorers = {r.key} /\ action'[k].state = "ROLLED_BACK"
        BY <4>1, <1>3, <2>1, <3>2, <3>5
      <4>3. /\ action'[r.key].request.target = action'[k].request.target
            /\ action'[r.key].request.type = Opposite(action'[k].request.type)
        <5>1. r.type \in Types
          BY DEF Requests
        <5> QED
          BY <5>1, <4>1, <1>2, <1>3, <3>1, <3>5 DEF Opposite, Types
      <4> QED
        BY <4>2, <4>3 DEF restorers
    <3> QED
      BY <3>4, <3>5
  <2> QED
    BY <2>2, <2>3
<1>6. RestoredOnce'
  BY <1>5 DEF RestoredOnce, Done
<1> QED
  BY <1>4, <1>6

LEMMA HistoryStarts == HistoryInit => HistoryInv
<1> SUFFICES ASSUME HistoryInit PROVE HistoryInv
  OBVIOUS
<1>1. \A e \in Entities : /\ log[e] = <<[status |-> "ACTIVE", by |-> NoKey]>>
                          /\ log[e] \in Seq(Versions) /\ log[e] # <<>>
  <2> DEFINE first == [status |-> "ACTIVE", by |-> NoKey]
  <2>1. first \in Versions
    BY DEF Versions, Statuses
  <2>2. \A e \in Entities : log[e] = <<first>>
    BY DEF HistoryInit
  <2> HIDE DEF first
  <2>3. <<first>> \in Seq(Versions) /\ <<first>> # <<>>
    BY <2>1
  <2>4. \A e \in Entities : log[e] \in Seq(Versions) /\ log[e] # <<>>
    BY <2>2, <2>3
  <2> QED
    BY <2>2, <2>4 DEF first
<1>2. log \in [Entities -> Seq(Versions)] /\ \A e \in Entities : log[e] # <<>>
  BY <1>1 DEF HistoryInit
<1>3. \A k \in Keys : action[k] = NoAction
  BY DEF HistoryInit
<1>4. action \in [Keys -> Actions \cup {NoAction}]
  BY DEF HistoryInit
<1>5. HistoryExplains /\ RestoredOnce /\ Forward
  BY <1>3 DEF HistoryExplains, RestoredOnce, Forward, Done
<1>6. Attributed
  BY <1>1 DEF Attributed
<1> QED
  BY <1>2, <1>4, <1>5, <1>6 DEF HistoryInv, HistoryType

LEMMA ChangeKeeps ==
    ASSUME HistoryInv, NEW e \in Entities, NEW s \in Statuses, Change(e, s)
    PROVE  HistoryInv'
<1> DEFINE new == [status |-> s, by |-> NoKey]
<1>1. new \in Versions /\ new.by = NoKey
  BY DEF Versions
<1>2. log' = [log EXCEPT ![e] = Append(@, new)] /\ action' = action
  BY DEF Change
<1> HIDE DEF new
<1>3. HistoryType
  BY DEF HistoryInv
<1>4. /\ log' \in [Entities -> Seq(Versions)] /\ \A f \in Entities : log'[f] # <<>>
      /\ log'[e][Len(log[e]) + 1] = new
      /\ \A f \in Entities : \A w \in DOMAIN log[f] :
            w \in DOMAIN log'[f] /\ log'[f][w] = log[f][w]
      /\ \A f \in Entities : \A w \in DOMAIN log'[f] :
            w \in DOMAIN log[f] \/ (f = e /\ w = Len(log[e]) + 1)
  BY <1>1, <1>2, <1>3, Grown
<1>5. HistoryType' /\ Forward' /\ RestoredOnce'
  BY <1>2, <1>3, <1>4 DEF HistoryInv, HistoryType, Forward, RestoredOnce, Done
<1>6. Attributed'
  <2> SUFFICES ASSUME NEW f \in Entities, NEW w \in DOMAIN log'[f], log'[f][w].by # NoKey
               PROVE  action'[log'[f][w].by] # NoAction
    BY DEF Attributed, Done
  <2>1. w \in DOMAIN log[f]
    BY <1>1, <1>4
  <2> QED
    BY <2>1, <1>2, <1>4 DEF HistoryInv, Attributed, Done
<1>7. HistoryExplains'
  <2> SUFFICES ASSUME NEW k \in Keys, action'[k] # NoAction
               PROVE  LET a == action'[k]  g == a.request.target  v == a.afterVersion IN
                      /\ a.beforeVersion = a.request.version /\ v = a.beforeVersion + 1
                      /\ v \in DOMAIN log'[g]
                      /\ log'[g][v] = [status |-> a.after, by |-> k]
                      /\ log'[g][a.beforeVersion].status = a.before
                      /\ a.before = a.request.previous
                      /\ \A f \in Entities : \A w \in DOMAIN log'[f] :
                           log'[f][w].by = k => f = g /\ w = v
    BY DEF HistoryExplains
  <2> DEFINE a == action[k]  g == a.request.target  v == a.afterVersion
  <2>1. a \in Actions /\ g \in Entities /\ a.beforeVersion \in Nat \ {0}
    BY <1>2, <1>3, DoneState DEF Actions, Requests, Done
  <2>2. /\ a.beforeVersion = a.request.version /\ v = a.beforeVersion + 1
        /\ v \in DOMAIN log[g]
        /\ log[g][v] = [status |-> a.after, by |-> k]
        /\ log[g][a.beforeVersion].status = a.before
        /\ a.before = a.request.previous
        /\ \A f \in Entities : \A w \in DOMAIN log[f] :
             log[f][w].by = k => f = g /\ w = v
    BY <1>2 DEF HistoryInv, HistoryExplains
  <2>0. action'[k] = a
    BY <1>2
  <2> HIDE DEF a
  <2>3. a.beforeVersion \in DOMAIN log[g]
    BY <2>1, <2>2, <1>3, VersionsAreRows
  <2>4. /\ v \in DOMAIN log'[g] /\ log'[g][v] = log[g][v]
        /\ log'[g][a.beforeVersion] = log[g][a.beforeVersion]
    BY <2>1, <2>2, <2>3, <1>4
  <2>5. ASSUME NEW f \in Entities, NEW w \in DOMAIN log'[f], log'[f][w].by = k
        PROVE  f = g /\ w = v
    <3>1. w \in DOMAIN log[f]
      BY <2>5, <1>1, <1>4, KeyAssumption
    <3> QED
      BY <3>1, <2>5, <2>2, <1>4
  <2> QED
    BY <2>0, <2>2, <2>4, <2>5
<1> QED
  BY <1>5, <1>6, <1>7 DEF HistoryInv

LEMMA HistoryStep == HistoryInv /\ [HistoryNext]_historyVars => HistoryInv'
<1> SUFFICES ASSUME HistoryInv, [HistoryNext]_historyVars PROVE HistoryInv'
  OBVIOUS
<1>1. ASSUME NEW k \in Keys, NEW type \in Types, NEW e \in Entities, NEW x \in Keys \cup {NoKey},
             Transition(Requested(k, type, e, x))
      PROVE  HistoryInv'
  <2> DEFINE r == Requested(k, type, e, x)
  <2>1. HistoryType /\ HistoryExplains /\ Attributed /\ Forward /\ RestoredOnce
    BY DEF HistoryInv
  <2>2. r \in Requests
    BY <2>1, RequestedIsRequest
  <2> HIDE DEF r
  <2>3. Transition(r)
    BY <1>1 DEF r
  <2> QED
    BY <2>1, <2>2, <2>3, TransitionEffect, TransitionExplains, TransitionRestores
       DEF HistoryInv, HistoryType
<1>2. ASSUME NEW e \in Entities, NEW s \in Settable, Change(e, s) PROVE HistoryInv'
  BY <1>2, SettableAssumption, ChangeKeeps
<1>3. CASE UNCHANGED historyVars
  BY <1>3 DEF HistoryInv, HistoryType, HistoryExplains, Attributed, Forward, RestoredOnce,
              Done, historyVars
<1> QED
  BY <1>1, <1>2, <1>3 DEF HistoryNext

\* Atomic transitions keep the history explained and the marks of restored
\* actions right.
THEOREM HistoryIsConsistent == HistorySpec => []HistoryInv
  BY HistoryStarts, HistoryStep, PTL DEF HistorySpec

-----------------------------------------------------------------------------
(* The transactions. *)

PastClaim == {"target", "restored", "chain", "apply", "commit"}
Locked == {"restored", "chain", "apply", "commit"}
Checked == {"chain", "apply", "commit"}

TxType ==
    /\ row \in [Keys -> [request : Requests, done : BOOLEAN] \cup {NoRow}]
    /\ tx \in [Txs -> Transactions]
    /\ \A t \in Txs : tx[t].at # "idle" => tx[t].r \in Requests
    /\ sent \subseteq Requests
    /\ changes \in 0 .. MaxChanges

\* Two transactions under way hold different keys and different entities.
Exclusive ==
    \A t, u \in Txs : t # u =>
        /\ {tx[t].at, tx[u].at} \subseteq PastClaim => tx[t].r.key # tx[u].r.key
        /\ {tx[t].at, tx[u].at} \subseteq Locked => tx[t].r.target # tx[u].r.target

\* What a transaction has checked is the case.
HoldingOf(x) ==
    /\ x.at \in PastClaim => row[x.r.key] = NoRow
    /\ x.at \in Locked => /\ Applies(x.r)
                          /\ x.was = Status(x.r.target) /\ x.wasVersion = Version(x.r.target)
    /\ x.at \in Checked => Restorable(x.r)

Holding == \A t \in Txs : HoldingOf(tx[t])

Told == \A c \in told : /\ c.request.key \in Keys
                        /\ Done(c.request.key)
                        /\ c = Receipt(action, c.request.key)

TxInv == TxType /\ Exclusive /\ Holding
LInv == HistoryInv /\ TxInv /\ KeysMatchActions /\ Told

LEMMA Moves ==
    ASSUME TxType, NEW t \in Txs, NEW at, GoTo(t, at)
    PROVE  /\ DOMAIN tx' = Txs /\ tx' = [u \in Txs |-> tx'[u]]
           /\ \A u \in Txs \ {t} : tx'[u] = tx[u]
           /\ tx'[t].at = at /\ tx'[t].r = tx[t].r
           /\ tx'[t].was = tx[t].was /\ tx'[t].wasVersion = tx[t].wasVersion
           /\ at \in PastClaim => tx'[t] \in Transactions
  BY DEF GoTo, TxType, Transactions, PastClaim

LEMMA Ended ==
    ASSUME TxType, NEW t \in Txs, End(t)
    PROVE  /\ DOMAIN tx' = Txs /\ tx' = [u \in Txs |-> tx'[u]]
           /\ \A u \in Txs \ {t} : tx'[u] = tx[u]
           /\ tx'[t] = Idle /\ Idle \in Transactions /\ Idle.at = "idle"
<1>1. /\ DOMAIN tx' = Txs /\ tx' = [u \in Txs |-> tx'[u]]
      /\ \A u \in Txs \ {t} : tx'[u] = tx[u]
      /\ tx'[t] = Idle
  BY DEF End, TxType
<1>2. Idle \in Transactions /\ Idle.at = "idle"
  BY DEF Transactions, Transaction, Idle, Statuses
<1> QED
  BY <1>1, <1>2

\* A step of one transaction that changes no row.
LEMMA OneMoves ==
    ASSUME TxInv, UNCHANGED <<database, changes>>, sent' \subseteq Requests,
           NEW t \in Txs, DOMAIN tx' = Txs, tx' = [u \in Txs |-> tx'[u]],
           \A u \in Txs \ {t} : tx'[u] = tx[u],
           tx'[t] \in Transactions, tx'[t].at # "idle" => tx'[t].r \in Requests,
           HoldingOf(tx'[t]),
           \A u \in Txs \ {t} :
              /\ {tx'[t].at, tx[u].at} \subseteq PastClaim => tx'[t].r.key # tx[u].r.key
              /\ {tx'[t].at, tx[u].at} \subseteq Locked => tx'[t].r.target # tx[u].r.target
    PROVE  TxInv'
<1>1. TxType'
  <2>1. \A u \in Txs : tx'[u] \in Transactions /\ (tx'[u].at # "idle" => tx'[u].r \in Requests)
    BY DEF TxInv, TxType
  <2> QED
    BY <2>1 DEF TxInv, TxType, database
<1>2. Exclusive'
  BY DEF TxInv, Exclusive
<1>3. Holding'
  <2>1. ASSUME NEW u \in Txs PROVE HoldingOf(tx[u])'
    <3>1. HoldingOf(tx'[u])
      BY DEF TxInv, Holding
    <3> QED
      BY <3>1 DEF HoldingOf, Applies, Status, Version, Restorable, database
  <2> QED
    BY <2>1 DEF Holding
<1> QED
  BY <1>1, <1>2, <1>3 DEF TxInv

LEMMA EndKeeps ==
    ASSUME TxInv, NEW t \in Txs, End(t), UNCHANGED <<database, changes, sent>>
    PROVE  TxInv'
<1>1. /\ DOMAIN tx' = Txs /\ tx' = [u \in Txs |-> tx'[u]]
      /\ \A u \in Txs \ {t} : tx'[u] = tx[u]
      /\ tx'[t] \in Transactions /\ tx'[t].at = "idle"
  BY Ended DEF TxInv
<1>2. HoldingOf(tx'[t])
  BY <1>1 DEF HoldingOf, PastClaim, Locked, Checked
<1>3. sent' \subseteq Requests
  BY DEF TxInv, TxType
<1> QED
  BY <1>1, <1>2, <1>3, OneMoves DEF PastClaim, Locked

LEMMA BeginKeeps == ASSUME TxInv, HistoryInv, NEW t \in Txs, Begin(t) PROVE TxInv'
<1>1. PICK r \in sent \cup Composed :
          /\ sent' = sent \cup {r}
          /\ tx' = [tx EXCEPT ![t] = Transaction("claim", r, "ACTIVE", 1)]
  BY DEF Begin
<1>2. r \in Requests /\ sent \subseteq Requests
  <2>1. CASE r \in sent
    BY <2>1 DEF TxInv, TxType
  <2>2. CASE r \in Composed
    <3>1. PICK k \in Drawn, type \in Types, e \in Entities,
               x \in {j \in Keys : action[j] # NoAction} \cup {NoKey} : r = Requested(k, type, e, x)
      BY <2>2 DEF Composed
    <3>2. k \in Keys
      <4>1. \A q \in sent : q.key \in Keys
        BY DEF TxInv, TxType, Requests
      <4> QED
        BY <4>1 DEF Drawn
    <3> QED
      BY <3>1, <3>2, RequestedIsRequest DEF HistoryInv, TxInv, TxType
  <2> QED
    BY <1>1, <2>1, <2>2 DEF TxInv, TxType
<1>3. /\ DOMAIN tx' = Txs /\ tx' = [u \in Txs |-> tx'[u]]
      /\ \A u \in Txs \ {t} : tx'[u] = tx[u]
      /\ tx'[t] \in Transactions /\ tx'[t].at = "claim" /\ tx'[t].r = r
  <2> DEFINE x == Transaction("claim", r, "ACTIVE", 1)
  <2>1. x \in Transactions /\ x.at = "claim" /\ x.r = r
    BY <1>2 DEF Transactions, Transaction, Statuses
  <2>2. tx' = [tx EXCEPT ![t] = x]
    BY <1>1
  <2> HIDE DEF x
  <2> QED
    BY <2>1, <2>2 DEF TxInv, TxType
<1>4. HoldingOf(tx'[t])
  BY <1>3 DEF HoldingOf, PastClaim, Locked, Checked
<1>5. UNCHANGED <<database, changes>> /\ sent' \subseteq Requests
  BY <1>1, <1>2 DEF Begin
<1> QED
  BY <1>2, <1>3, <1>4, <1>5, OneMoves DEF PastClaim, Locked

LEMMA ClaimKeeps ==
    ASSUME LInv, NEW t \in Txs, Claim(t)
    PROVE  TxInv' /\ UNCHANGED database /\ Told'
<1> DEFINE r == tx[t].r
<1>0. TxInv /\ TxType /\ UNCHANGED <<database, changes, sent>> /\ tx[t].at = "claim" /\ r \in Requests
  BY DEF LInv, TxInv, TxType, Claim
<1>1. CASE row[r.key] = NoRow /\ GoTo(t, "target") /\ UNCHANGED told
  <2>1. /\ DOMAIN tx' = Txs /\ tx' = [u \in Txs |-> tx'[u]]
        /\ \A u \in Txs \ {t} : tx'[u] = tx[u]
        /\ tx'[t].at = "target" /\ tx'[t].r = r /\ tx'[t] \in Transactions
    BY <1>0, <1>1, Moves DEF PastClaim
  <2>2. HoldingOf(tx'[t])
    BY <1>1, <2>1 DEF HoldingOf, Locked, Checked
  <2>3. \A u \in Txs : tx[u].at \in PastClaim => tx[u].r.key # r.key
    BY DEF Claim, FreeKey, HoldsKey, PastClaim
  <2>4. TxInv'
    BY <1>0, <2>1, <2>2, <2>3, OneMoves DEF Locked, TxInv, TxType
  <2> QED
    BY <1>0, <1>1, <2>4 DEF LInv, Told, Done, Receipt, database
<1>2. CASE row[r.key] = Row(r, TRUE) /\ End(t) /\ told' = told \cup {Receipt(action, r.key)}
  <2>1. TxInv'
    BY <1>0, <1>2, EndKeeps
  <2>2. r.key \in Keys /\ row[r.key] # NoRow
    BY <1>0, <1>2 DEF Row, NoRow, Requests
  <2>3. action[r.key] # NoAction /\ row[r.key] = Row(action[r.key].request, TRUE)
    BY <2>2 DEF LInv, KeysMatchActions
  <2>4. action[r.key].request = r
    BY <2>3, <1>2 DEF Row
  <2>5. Receipt(action, r.key).request = r
    BY <2>4 DEF Receipt
  <2>6. Told'
    <3> SUFFICES ASSUME NEW c \in told'
                 PROVE  /\ c.request.key \in Keys /\ action[c.request.key] # NoAction
                        /\ c = Receipt(action, c.request.key)
      BY <1>0 DEF Told, Done, database, Receipt
    <3>1. CASE c \in told
      BY <3>1 DEF LInv, Told, Done
    <3>2. CASE c = Receipt(action, r.key)
      BY <3>2, <2>2, <2>3, <2>5
    <3> QED
      BY <3>1, <3>2, <1>2
  <2> QED
    BY <1>0, <2>1, <2>6
<1>3. CASE End(t) /\ UNCHANGED told
  <2>1. TxInv'
    BY <1>0, <1>3, EndKeeps
  <2> QED
    BY <1>0, <1>3, <2>1 DEF LInv, Told, Done, Receipt, database
<1> QED
  BY <1>1, <1>2, <1>3 DEF Claim

LEMMA LockTargetKeeps == ASSUME TxInv, NEW t \in Txs, LockTarget(t) PROVE TxInv'
<1> DEFINE r == tx[t].r
<1>0. TxType /\ UNCHANGED <<database, changes, sent>> /\ tx[t].at = "target" /\ r \in Requests
  BY DEF TxInv, TxType, LockTarget
<1> DEFINE at == IF r.restores = NoKey THEN "chain" ELSE "restored"
           x == Transaction(at, r, Status(r.target), Version(r.target))
<1>1. CASE Applies(r) /\ tx' = [tx EXCEPT ![t] = x]
  <2>1. Status(r.target) \in Statuses /\ Version(r.target) \in Nat \ {0}
    BY <1>0, <1>1 DEF Applies, Requests
  <2>2. /\ DOMAIN tx' = Txs /\ tx' = [u \in Txs |-> tx'[u]]
        /\ \A u \in Txs \ {t} : tx'[u] = tx[u]
        /\ tx'[t].at = at /\ tx'[t].r = r
        /\ tx'[t].was = Status(r.target) /\ tx'[t].wasVersion = Version(r.target)
        /\ tx'[t] \in Transactions
    <3>1. x \in Transactions /\ x.at = at /\ x.r = r
          /\ x.was = Status(r.target) /\ x.wasVersion = Version(r.target)
      BY <1>0, <2>1 DEF Transactions, Transaction
    <3> HIDE DEF x
    <3> QED
      BY <1>0, <1>1, <3>1 DEF TxType
  <2>3. HoldingOf(tx'[t])
    BY <1>0, <1>1, <2>2 DEF HoldingOf, TxInv, Holding, PastClaim, Locked, Checked, Restorable
  <2>4. \A u \in Txs \ {t} : tx[u].at \in Locked => tx[u].r.target # r.target
    BY DEF LockTarget, FreeEntity, HoldsTarget, Locked
  <2>5. \A u \in Txs \ {t} : tx[u].at \in PastClaim => tx[u].r.key # r.key
    BY <1>0 DEF TxInv, Exclusive, PastClaim
  <2> QED
    BY <1>0, <2>2, <2>3, <2>4, <2>5, OneMoves DEF TxType
<1>2. CASE End(t)
  BY <1>0, <1>2, EndKeeps
<1> QED
  BY <1>1, <1>2 DEF LockTarget

\* A transaction that goes on keeps its key and its target.
LEMMA GoesOn ==
    ASSUME TxInv, NEW t \in Txs, NEW at \in Checked, tx[t].at \in Locked, GoTo(t, at),
           UNCHANGED <<database, changes, sent>>, Restorable(tx[t].r)
    PROVE  TxInv'
<1>1. /\ DOMAIN tx' = Txs /\ tx' = [u \in Txs |-> tx'[u]]
      /\ \A u \in Txs \ {t} : tx'[u] = tx[u]
      /\ tx'[t].at = at /\ tx'[t].r = tx[t].r
      /\ tx'[t].was = tx[t].was /\ tx'[t].wasVersion = tx[t].wasVersion
      /\ tx'[t] \in Transactions
  BY Moves DEF TxInv, PastClaim, Checked
<1>2. HoldingOf(tx'[t])
  BY <1>1 DEF HoldingOf, TxInv, Holding, PastClaim, Locked, Checked
<1>3. tx[t].r \in Requests /\ sent' \subseteq Requests
  BY DEF TxInv, TxType, Locked
<1>4. \A u \in Txs \ {t} :
        /\ tx[u].at \in PastClaim => tx[u].r.key # tx[t].r.key
        /\ tx[u].at \in Locked => tx[u].r.target # tx[t].r.target
  BY DEF TxInv, Exclusive, Locked, PastClaim
<1> QED
  BY <1>1, <1>2, <1>3, <1>4, OneMoves DEF PastClaim, Locked

LEMMA CheckKeeps ==
    ASSUME TxInv, NEW t \in Txs, LockRestored(t) \/ ReadChain(t) \/ Apply(t) \/ Fail(t)
    PROVE  TxInv'
<1>1. UNCHANGED <<database, changes, sent>>
  BY DEF LockRestored, ReadChain, Apply, Fail
<1>2. CASE End(t)
  BY <1>1, <1>2, EndKeeps
<1>3. CASE tx[t].at = "restored" /\ Restorable(tx[t].r) /\ GoTo(t, "chain")
  BY <1>1, <1>3, GoesOn DEF Checked, Locked
<1>4. CASE tx[t].at \in Checked /\ (GoTo(t, "apply") \/ GoTo(t, "commit"))
  <2>1. Restorable(tx[t].r)
    BY <1>4 DEF TxInv, Holding, HoldingOf
  <2> QED
    BY <1>1, <1>4, <2>1, GoesOn DEF Checked, Locked
<1> QED
  BY <1>2, <1>3, <1>4 DEF LockRestored, ReadChain, Apply, Fail, ValidRestoration, Checked

\* What a transaction has locked and checked, its commit finds unchanged: the
\* commit is the atomic transition.
LEMMA CommitIsTransition ==
    ASSUME LInv, NEW t \in Txs, Commit(t)
    PROVE  LET r == tx[t].r IN
           /\ r \in Requests /\ r = Requested(r.key, r.type, r.target, r.restores)
           /\ Transition(r)
<1> DEFINE r == tx[t].r
<1>1. r \in Requests /\ row[r.key] = NoRow /\ Applies(r) /\ Restorable(r)
      /\ tx[t].was = Status(r.target) /\ tx[t].wasVersion = Version(r.target)
  BY DEF LInv, TxInv, TxType, Holding, HoldingOf, Commit, PastClaim, Locked, Checked
<1>2. r = Requested(r.key, r.type, r.target, r.restores)
  BY <1>1 DEF Requests, Requested, Applies
<1>3. action[r.key] = NoAction
  BY <1>1 DEF LInv, KeysMatchActions, Requests
<1>4. Completed(t) = Action(r)
  BY <1>1 DEF Completed, Action
<1>5. log' = Logged(r) /\ action' = Recorded(r)
  BY <1>4 DEF Commit, ActionsAfter, Recorded
<1> QED
  BY <1>1, <1>2, <1>3, <1>5 DEF Transition

\* A transaction keeps what it holds when another one commits.
LEMMA CommitLeavesOthers ==
    ASSUME LInv, NEW t \in Txs, Commit(t), NEW u \in Txs \ {t}
    PROVE  HoldingOf(tx[u])'
<1> DEFINE r == tx[t].r  q == tx[u].r
<1>1. r \in Requests /\ Transition(r) /\ Restorable(r) /\ tx[t].at \in Checked
  BY CommitIsTransition DEF Transition, Commit, Checked
<1>2. tx' = [tx EXCEPT ![t] = Idle] /\ tx[t].at = "commit" /\ row' = RowAfter(t)
  BY DEF Commit, End
<1>3. tx'[u] = tx[u] /\ HoldingOf(tx[u]) /\ (tx[u].at # "idle" => q \in Requests)
  BY <1>2 DEF LInv, TxInv, TxType, Holding
<1>4. /\ tx[u].at \in PastClaim => q.key # r.key
      /\ tx[u].at \in Locked => q.target # r.target
  BY <1>2 DEF LInv, TxInv, Exclusive, PastClaim, Locked
<1>5. tx[u].at \in PastClaim => row'[q.key] = NoRow
  BY <1>2, <1>3, <1>4 DEF RowAfter, HoldingOf, LInv, TxInv, TxType, Requests, PastClaim
<1>6. ASSUME tx[u].at \in Locked
      PROVE  log'[q.target] = log[q.target]
  <2>1. q \in Requests
    BY <1>3, <1>6 DEF Locked
  <2> QED
    BY <1>1, <1>4, <1>6, <2>1 DEF Transition, Logged, Requests, LInv, HistoryInv, HistoryType
<1>7. tx[u].at \in Locked => /\ Applies(q)'
                             /\ tx[u].was = Status(q.target)'
                             /\ tx[u].wasVersion = Version(q.target)'
  BY <1>3, <1>6 DEF HoldingOf, Applies, Status, Version
<1>8. ASSUME tx[u].at \in Checked, q.restores # NoKey
      PROVE  action'[q.restores] = action[q.restores]
  <2>1. /\ q \in Requests /\ q.restores \in Keys /\ q.target # r.target
        /\ Restorable(q)
    BY <1>3, <1>4, <1>8 DEF Checked, Locked, HoldingOf, Requests
  <2>2. /\ action[q.restores].state = "SUCCEEDED"
        /\ action[q.restores].request.target = q.target
    BY <2>1, <1>8 DEF Restorable
  <2>3. q.restores # r.key
    BY <2>2, <1>1, TransitionEffect, DoneState, <2>1 DEF LInv, HistoryInv
  <2>4. q.restores # r.restores
    BY <2>1, <2>2, <1>1, <1>8, TransitionEffect DEF LInv, HistoryInv
  <2> QED
    BY <2>1, <2>3, <2>4, <1>1, TransitionEffect DEF LInv, HistoryInv
<1>9. tx[u].at \in Checked => Restorable(q)'
  <2>1. SUFFICES ASSUME tx[u].at \in Checked, q.restores # NoKey PROVE Restorable(q)'
    BY <1>2, <1>3 DEF Restorable
  <2>2. Restorable(q) /\ Status(q.target)' = Status(q.target)
    BY <2>1, <1>3, <1>6 DEF HoldingOf, Checked, Locked, Status
  <2> QED
    BY <2>1, <2>2, <1>8, <1>3 DEF Restorable
<1> QED
  BY <1>3, <1>5, <1>7, <1>9 DEF HoldingOf

LEMMA CommitKeeps ==
    ASSUME LInv, NEW t \in Txs, Commit(t)
    PROVE  TxInv' /\ KeysMatchActions' /\ Told'
<1> DEFINE r == tx[t].r
<1>1. r \in Requests /\ Transition(r) /\ HistoryType
  BY CommitIsTransition DEF LInv, HistoryInv
<1>2. /\ tx' = [tx EXCEPT ![t] = Idle] /\ row' = [row EXCEPT ![r.key] = Row(r, TRUE)]
      /\ told' = told \cup {Receipt(action', r.key)} /\ UNCHANGED <<sent, changes>>
  BY DEF Commit, End, RowAfter
<1>3. /\ \A u \in Txs \ {t} : tx'[u] = tx[u]
      /\ tx'[t] = Idle /\ Idle \in Transactions /\ Idle.at = "idle"
      /\ tx' = [u \in Txs |-> tx'[u]]
  BY Ended DEF LInv, TxInv, Commit
<1>4. TxType'
  <2>1. \A u \in Txs : tx'[u] \in Transactions /\ (tx'[u].at # "idle" => tx'[u].r \in Requests)
    BY <1>3 DEF LInv, TxInv, TxType
  <2>2. Row(r, TRUE) \in [request : Requests, done : BOOLEAN]
    BY <1>1 DEF Row
  <2> QED
    BY <2>1, <2>2, <1>2, <1>3 DEF LInv, TxInv, TxType
<1>5. Exclusive'
  BY <1>3 DEF LInv, TxInv, Exclusive, PastClaim, Locked
<1>6. Holding'
  <2>1. ASSUME NEW u \in Txs PROVE HoldingOf(tx[u])'
    <3>1. CASE u # t
      BY <3>1, CommitLeavesOthers
    <3>2. CASE u = t
      BY <3>2, <1>3 DEF HoldingOf, PastClaim, Locked, Checked
    <3> QED
      BY <3>1, <3>2
  <2> QED
    BY <2>1 DEF Holding
<1>7. /\ \A k \in Keys : Done(k)' <=> Done(k) \/ k = r.key
      /\ \A k \in Keys : Done(k) =>
            /\ action'[k].request = action[k].request
            /\ action'[k].before = action[k].before
            /\ action'[k].beforeVersion = action[k].beforeVersion
            /\ action'[k].after = action[k].after
            /\ action'[k].afterVersion = action[k].afterVersion
  BY <1>1, TransitionKeeps
<1>8. action'[r.key].request = r /\ r.key \in Keys
  <2>1. action'[r.key] = Action(r)
    BY <1>1, TransitionEffect
  <2> QED
    BY <2>1, <1>1 DEF Action, Requests
<1>9. KeysMatchActions'
  <2> SUFFICES ASSUME NEW k \in Keys
               PROVE  /\ row'[k] = NoRow => action'[k] = NoAction
                      /\ row'[k] # NoRow => /\ action'[k] # NoAction
                                            /\ row'[k] = Row(action'[k].request, TRUE)
    BY DEF KeysMatchActions, Row
  <2>1. CASE k = r.key
    <3>1. row'[k] = Row(r, TRUE) /\ row'[k] # NoRow
      BY <2>1, <1>2, <1>8 DEF LInv, TxInv, TxType, Row, NoRow
    <3> QED
      BY <3>1, <2>1, <1>7, <1>8 DEF Done
  <2>2. CASE k # r.key
    <3>1. row'[k] = row[k]
      BY <2>2, <1>2 DEF LInv, TxInv, TxType
    <3> QED
      BY <3>1, <2>2, <1>7 DEF Done, LInv, KeysMatchActions
  <2> QED
    BY <2>1, <2>2
<1>10. Told'
  <2> SUFFICES ASSUME NEW c \in told'
               PROVE  /\ c.request.key \in Keys /\ action'[c.request.key] # NoAction
                      /\ c = Receipt(action', c.request.key)
    BY DEF Told, Done, Receipt
  <2>1. CASE c \in told
    <3>1. /\ c.request.key \in Keys /\ Done(c.request.key)
          /\ c = Receipt(action, c.request.key)
      BY <2>1 DEF LInv, Told
    <3>2. Receipt(action', c.request.key) = Receipt(action, c.request.key)
      BY <3>1, <1>7 DEF Receipt
    <3> QED
      BY <3>1, <3>2, <1>7 DEF Done
  <2>2. CASE c = Receipt(action', r.key)
    <3>1. c.request = r
      BY <2>2, <1>8 DEF Receipt
    <3> QED
      BY <3>1, <2>2, <1>7, <1>8 DEF Done
  <2> QED
    BY <2>1, <2>2, <1>2
<1> QED
  BY <1>4, <1>5, <1>6, <1>9, <1>10 DEF TxInv

LEMMA SetStatusKeeps ==
    ASSUME LInv, NEW e \in Entities, NEW s \in Settable, SetStatus(e, s)
    PROVE  TxInv' /\ KeysMatchActions' /\ Told'
<1>1. UNCHANGED <<row, tx, sent, told, action>> /\ changes < MaxChanges /\ changes' = changes + 1
  BY DEF SetStatus, Change
<1>2. \A f \in Entities \ {e} : log'[f] = log[f]
  BY DEF SetStatus, Change, LInv, HistoryInv, HistoryType
<1>3. TxType'
  BY <1>1, BoundAssumption DEF LInv, TxInv, TxType
<1>4. Exclusive'
  BY <1>1 DEF LInv, TxInv, Exclusive
<1>5. Holding'
  <2>1. ASSUME NEW u \in Txs PROVE HoldingOf(tx[u])'
    <3>1. tx'[u] = tx[u] /\ HoldingOf(tx[u]) /\ (tx[u].at # "idle" => tx[u].r \in Requests)
      BY <1>1 DEF LInv, TxInv, TxType, Holding
    <3>2. CASE tx[u].at \in Locked
      <4>1. tx[u].r.target \in Entities \ {e}
        BY <3>1, <3>2 DEF SetStatus, FreeEntity, HoldsTarget, Locked, Requests
      <4>2. log'[tx[u].r.target] = log[tx[u].r.target]
        BY <4>1, <1>2
      <4> QED
        BY <3>1, <4>2, <1>1 DEF HoldingOf, Applies, Status, Version, Restorable
    <3>3. CASE tx[u].at \notin Locked
      BY <3>1, <3>3, <1>1 DEF HoldingOf, Locked, Checked
    <3> QED
      BY <3>2, <3>3
  <2> QED
    BY <2>1 DEF Holding
<1>6. KeysMatchActions' /\ Told'
  BY <1>1 DEF LInv, KeysMatchActions, Told, Done, Receipt
<1> QED
  BY <1>3, <1>4, <1>5, <1>6 DEF TxInv

LEMMA Starts == Init => LInv
<1> SUFFICES ASSUME Init PROVE LInv
  OBVIOUS
<1>1. HistoryInv
  BY HistoryStarts DEF Init
<1>2. TxInv
  <2>1. Idle \in Transactions /\ Idle.at = "idle"
    BY DEF Transactions, Transaction, Idle, Statuses
  <2>2. \A t \in Txs : tx[t] = Idle
    BY DEF Init
  <2>3. TxType
    BY <2>1, <2>2, BoundAssumption DEF Init, TxType
  <2>4. Exclusive /\ Holding
    BY <2>1, <2>2 DEF Exclusive, Holding, HoldingOf, PastClaim, Locked, Checked
  <2> QED
    BY <2>3, <2>4 DEF TxInv
<1>3. KeysMatchActions /\ Told
  BY DEF Init, HistoryInit, KeysMatchActions, Told
<1> QED
  BY <1>1, <1>2, <1>3 DEF LInv

LEMMA StepIsAtomic == LInv /\ [Next]_vars => [HistoryNext]_historyVars
<1> SUFFICES ASSUME LInv, Next PROVE HistoryNext \/ UNCHANGED historyVars
  BY DEF vars, historyVars
<1>1. ASSUME NEW t \in Txs, Commit(t) PROVE HistoryNext
  <2> DEFINE r == tx[t].r
  <2>1. r \in Requests /\ r = Requested(r.key, r.type, r.target, r.restores) /\ Transition(r)
    BY <1>1, CommitIsTransition
  <2>2. r.key \in Keys /\ r.type \in Types /\ r.target \in Entities /\ r.restores \in Keys \cup {NoKey}
    BY <2>1 DEF Requests
  <2>3. Transition(Requested(r.key, r.type, r.target, r.restores))
    BY <2>1
  <2> QED
    BY <2>2, <2>3 DEF HistoryNext
<1>2. ASSUME NEW e \in Entities, NEW s \in Settable, SetStatus(e, s) PROVE HistoryNext
  BY <1>2 DEF SetStatus, HistoryNext
<1>3. ASSUME NEW t \in Txs, Begin(t) \/ Claim(t) \/ LockTarget(t) \/ LockRestored(t) \/ ReadChain(t)
                            \/ Apply(t) \/ Fail(t)
      PROVE  UNCHANGED historyVars
  BY <1>3 DEF Begin, Claim, LockTarget, LockRestored, ReadChain, Apply, Fail, database, historyVars
<1> QED
  BY <1>1, <1>2, <1>3 DEF Next, Step

LEMMA Steps == LInv /\ [Next]_vars => LInv'
<1> SUFFICES ASSUME LInv, [Next]_vars PROVE LInv'
  OBVIOUS
<1>1. HistoryInv'
  BY StepIsAtomic, HistoryStep DEF LInv
<1>2. ASSUME UNCHANGED database, UNCHANGED told
      PROVE  KeysMatchActions' /\ Told'
  BY <1>2 DEF LInv, KeysMatchActions, Told, Done, Receipt, database
<1>3. ASSUME UNCHANGED database PROVE KeysMatchActions'
  BY <1>3 DEF LInv, KeysMatchActions, database
<1>4. ASSUME NEW t \in Txs, Begin(t) PROVE LInv'
  <2>1. UNCHANGED database /\ UNCHANGED told
    BY <1>4 DEF Begin
  <2> QED
    BY <2>1, <1>1, <1>2, <1>4, BeginKeeps DEF LInv
<1>5. ASSUME NEW t \in Txs, Claim(t) PROVE LInv'
  BY <1>1, <1>3, <1>5, ClaimKeeps DEF LInv
<1>6. ASSUME NEW t \in Txs, LockTarget(t) PROVE LInv'
  <2>1. UNCHANGED database /\ UNCHANGED told
    BY <1>6 DEF LockTarget
  <2> QED
    BY <2>1, <1>1, <1>2, <1>6, LockTargetKeeps DEF LInv
<1>7. ASSUME NEW t \in Txs, LockRestored(t) \/ ReadChain(t) \/ Apply(t) \/ Fail(t) PROVE LInv'
  <2>1. UNCHANGED database /\ UNCHANGED told
    BY <1>7 DEF LockRestored, ReadChain, Apply, Fail
  <2> QED
    BY <2>1, <1>1, <1>2, <1>7, CheckKeeps DEF LInv
<1>8. ASSUME NEW t \in Txs, Commit(t) PROVE LInv'
  BY <1>1, <1>8, CommitKeeps DEF LInv
<1>9. ASSUME NEW e \in Entities, NEW s \in Settable, SetStatus(e, s) PROVE LInv'
  BY <1>1, <1>9, SetStatusKeeps DEF LInv
<1>10. CASE UNCHANGED vars
  <2>1. TxInv'
    <3>1. TxType' /\ Exclusive'
      BY <1>10 DEF LInv, TxInv, TxType, Exclusive, vars
    <3>2. ASSUME NEW u \in Txs PROVE HoldingOf(tx[u])'
      BY <1>10 DEF LInv, TxInv, Holding, HoldingOf, Applies, Status, Version, Restorable, vars
    <3> QED
      BY <3>1, <3>2 DEF TxInv, Holding
  <2>2. UNCHANGED database /\ UNCHANGED told
    BY <1>10 DEF vars, database
  <2> QED
    BY <2>1, <2>2, <1>1, <1>2 DEF LInv
<1> QED
  BY <1>4, <1>5, <1>6, <1>7, <1>8, <1>9, <1>10 DEF Next, Step

LEMMA Invariance == Spec => []LInv
  BY Starts, Steps, PTL DEF Spec

-----------------------------------------------------------------------------
(* The results. *)

\* The types.
THEOREM TypesAreKept == Spec => []TypeOK
<1>1. LInv => TypeOK
  BY DEF LInv, HistoryInv, HistoryType, TxInv, TxType, TypeOK
<1> QED
  BY <1>1, Invariance, PTL

\* The history explains itself: every completed action is one version of its
\* entity, made from what the request named, and the version names the action.
THEOREM HistoryIsExplained == Spec => []HistoryExplains
<1>1. LInv => HistoryExplains
  BY DEF LInv, HistoryInv
<1> QED
  BY <1>1, Invariance, PTL

\* An action is marked as undone exactly when one opposite action restored it.
THEOREM UndoneOnce == Spec => []RestoredOnce
<1>1. LInv => RestoredOnce
  BY DEF LInv, HistoryInv
<1> QED
  BY <1>1, Invariance, PTL

\* The idempotency keys and the actions agree.
THEOREM KeysAgree == Spec => []KeysMatchActions
<1>1. LInv => KeysMatchActions
  BY DEF LInv
<1> QED
  BY <1>1, Invariance, PTL

\* Every receipt given for a key states what the record still states.
THEOREM ReplayIsDeterministic == Spec => []ReplayIsFaithful
<1>1. LInv => ReplayIsFaithful
  BY DEF LInv, Told, Done, ReplayIsFaithful
<1> QED
  BY <1>1, Invariance, PTL

\* The overlapping transactions implement the atomic transitions.
THEOREM TransactionsAreAtomic == Spec => Atomic
<1>1. Init => HistoryInit
  BY DEF Init
<1> QED
  BY <1>1, StepIsAtomic, Invariance, PTL DEF Spec, Atomic, HistorySpec
=============================================================================
