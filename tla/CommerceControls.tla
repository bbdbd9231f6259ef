--------------------------- MODULE CommerceControls ---------------------------
(***************************************************************************)
(* The internal commerce business of phase 204: its pause, publication and *)
(* kill controls, and what they halt.                                      *)
(*                                                                         *)
(* Every operation is one SERIALIZABLE transaction, so one action.  The    *)
(* state it changes is spread over append-only records, of which the       *)
(* newest counts, and the canonical tables of the business, its entities   *)
(* and their work, which the entity lifecycle changes as well.             *)
(*                                                                         *)
(* Controls and listings are ordered by a version or by the database's     *)
(* clock; storefront states and approvals by a time that the client        *)
(* supplies, so that a record can be older than the one it follows.        *)
(***************************************************************************)
EXTENDS Integers

CONSTANTS
    Entities,       \* entities of the command chain
    Staff,          \* those of the business
    Above,          \* the ancestors of each
    Soldiers,       \* those that own a task
    Products,
    MaxVersions,    \* bound: versions of a product's files and claims
    MaxTerms        \* bound: versions of the licence and disclosure gates

ASSUME StaffAssumption ==
    /\ Soldiers \subseteq Staff /\ Staff \subseteq Entities
    /\ Above \in [Entities -> SUBSET Entities]
    /\ \A e \in Entities : e \notin Above[e]
ASSUME BoundAssumption == MaxVersions \in Nat /\ MaxTerms \in Nat

VARIABLES
    pause, disable, kill,   \* the newest record of each control
    affected,      \* what the engaged pause halted: entities, owners of tasks
    business,      \* businesses.status
    boundary,      \* BusinessBoundary.status
    entity,        \* entities.status
    task,          \* tasks.status, by the owner
    base,          \* the newest storefront state that is not a halt
    shown,         \* the newest storefront state
    version,       \* of each product's files and claims (0: none yet)
    ready,         \* phase204_product_is_ready
    terms,         \* version of the other gates that an approval binds
    listing,       \* the newest record of each product's listing
    approval,      \* the newest approval
    approved,      \* all approvals
    capable,       \* whether the capabilities it needs are active
    decided,       \* history: what Humans last decided of each entity
    settled        \* history: the newest storefront state is a control's

controls == <<pause, disable, kill, affected>>
canonical == <<business, boundary, entity, task>>
storefront == <<base, shown, settled>>
product == <<version, ready, terms>>
publication == <<listing, approval, approved>>
vars == <<controls, canonical, storefront, product, publication, capable, decided>>

Halts == {"PAUSED", "DISABLED"}
Observed == {"OWNER_ACTION_REQUIRED", "READY_FOR_OWNER_APPROVAL", "PUBLISHED"}
Ready == {"READY_FOR_OWNER_APPROVAL", "PUBLISHED"}
NoApproval == [given |-> FALSE]
Approval == [given |-> TRUE, version |-> version, terms |-> terms]
Listing(status, v) == [status |-> status, version |-> v]

\* Activation leaves an operating business that may not publish.
Init ==
    /\ pause = "ARMED" /\ disable = "ENGAGED" /\ kill = "ARMED"
    /\ affected = [entities |-> {}, owners |-> {}]
    /\ business = "OPERATING" /\ boundary = "ACTIVE"
    /\ entity = [e \in Entities |-> "ACTIVE"]
    /\ task = [e \in Soldiers |-> "ACTIVE"]
    /\ base = "OWNER_ACTION_REQUIRED" /\ shown = "OWNER_ACTION_REQUIRED"
    /\ version = [p \in Products |-> 0]
    /\ ready = [p \in Products |-> FALSE]
    /\ terms = 0
    /\ listing = [p \in Products |-> Listing("DRAFT", 0)]
    /\ approval = NoApproval /\ approved = {}
    /\ capable = FALSE
    /\ decided = [e \in Staff |-> "ACTIVE"]
    /\ settled = FALSE

-----------------------------------------------------------------------------
(* Records dated by the client. *)

Dates == {"newest", "between", "past"}

\* A storefront state enters the log at its date: after every other, between
\* the newest observation and the halt that follows it, or before both.
Dated(s, date) ==
    \/ /\ date = "newest"
       /\ shown' = s
       /\ base' = IF s \in Halts THEN base ELSE s
    \/ /\ date = "between" /\ shown \in Halts
       /\ shown' = shown
       /\ base' = IF s \in Halts THEN base ELSE s
    \/ /\ date = "past"
       /\ UNCHANGED <<base, shown>>

ByControl(s, date) == Dated(s, date) /\ settled' = (date = "newest")

-----------------------------------------------------------------------------
(* Publication. *)

AllReady == \A p \in Products : ready[p]

\* Mutant: the storefront's state stands for the controls.
AllowedAsShown ==
    /\ shown \in Ready
    /\ approval = Approval
    /\ business = "OPERATING" /\ boundary = "ACTIVE"
    /\ AllReady
    /\ \A p \in Products : listing[p].status \in Ready /\ listing[p].version = version[p]
    /\ capable

\* phase204_publication_allowed
Allowed ==
    /\ shown \in Ready
    /\ approval = Approval
    /\ business = "OPERATING" /\ boundary = "ACTIVE"
    /\ pause = "ARMED" /\ disable = "ARMED" /\ kill = "ARMED"
    /\ AllReady
    /\ \A p \in Products : listing[p].status \in Ready /\ listing[p].version = version[p]
    /\ capable

\* Assets and gates of a product.  An asset without its gates is not ready; a
\* claims gate changes what an approval binds, another product gate need not.
ChangeProduct(p) ==
    /\ \E v \in {version[p], version[p] + 1}, r \in BOOLEAN :
        /\ v <= MaxVersions
        /\ r => v > 0
        /\ version' = [version EXCEPT ![p] = v]
        /\ ready' = [ready EXCEPT ![p] = r]
    /\ UNCHANGED <<controls, canonical, storefront, terms, publication, capable, decided>>

\* Another licence or disclosure gate: listings do not bind it, approvals do.
ChangeTerms ==
    /\ terms < MaxTerms
    /\ terms' = terms + 1
    /\ UNCHANGED <<controls, canonical, storefront, version, ready, publication, capable, decided>>

RecordStorefrontState(s, date) ==
    /\ s = "READY_FOR_OWNER_APPROVAL" => AllReady
    /\ s = "PUBLISHED" => Allowed /\ \A p \in Products : listing[p].status = "PUBLISHED"
    /\ Dated(s, date)
    /\ settled' = (settled /\ date # "newest")
    /\ UNCHANGED <<controls, canonical, product, publication, capable, decided>>

\* Mutant: whatever the storefront publishes may be listed.
RecordListingUnapproved(p, status) ==
    /\ status \in Ready => ready[p]
    /\ status = "PUBLISHED" => shown \in Ready /\ disable = "ARMED" /\ pause = "ARMED"
    /\ listing' = [listing EXCEPT ![p] = Listing(status, version[p])]
    /\ UNCHANGED <<controls, canonical, storefront, product, approval, approved, capable, decided>>

\* A listing that is paused or disabled at the provider is to every check what
\* a draft is.
RecordListing(p, status) ==
    /\ status \in Ready => ready[p]
    /\ status = "PUBLISHED" => Allowed
    /\ listing' = [listing EXCEPT ![p] = Listing(status, version[p])]
    /\ UNCHANGED <<controls, canonical, storefront, product, approval, approved, capable, decided>>

\* The owner approves what is listed and ready now, which arms publication; an
\* approval dated before another is not the one that counts.
ApprovePublication(date) ==
    /\ shown = "READY_FOR_OWNER_APPROVAL"
    /\ pause = "ARMED" /\ kill = "ARMED" /\ business = "OPERATING"
    /\ AllReady
    /\ \A p \in Products : listing[p].status \in Ready /\ listing[p].version = version[p]
    /\ \/ date = "newest" /\ approval' = Approval
       \/ date = "past" /\ approval # NoApproval /\ UNCHANGED approval
    /\ approved' = approved \cup {Approval}
    /\ disable' = "ARMED"
    /\ UNCHANGED <<pause, kill, affected, canonical, storefront, product, listing, capable, decided>>

\* Capabilities and their installations move along their lifecycles
\* (phase203_transition_capability as phase 204 replaces it, and
\* phase204_transition_capability_installation) and fall back when a verification
\* fails (phase204_record_capability_evidence).  Nothing is modelled of what these
\* ask for, evidence and healthy dependencies, so whether those the storefront
\* needs are active may change at any time.
ChangeCapabilities ==
    /\ capable' = ~capable
    /\ UNCHANGED <<controls, canonical, storefront, product, publication, decided>>

-----------------------------------------------------------------------------
(* phase204_set_commerce_control *)

Active == {e \in Staff : entity[e] = "ACTIVE"}

\* Mutant: only the work of active entities is halted.
BusyActive == {e \in Soldiers : task[e] = "ACTIVE" /\ entity[e] = "ACTIVE"}
Busy == {e \in Soldiers : task[e] = "ACTIVE"}

Change(status, S, from, to) ==
    [e \in DOMAIN status |-> IF e \in S /\ status[e] = from THEN to ELSE status[e]]

PauseBusiness(date) ==
    /\ kill = "ARMED" /\ pause = "ARMED"
    /\ pause' = "ENGAGED"
    /\ affected' = [entities |-> Active, owners |-> Busy]
    /\ business' = "PAUSED"
    /\ boundary' = IF boundary = "ACTIVE" THEN "SUSPENDED" ELSE boundary
    /\ entity' = Change(entity, Active, "ACTIVE", "PAUSED")
    /\ task' = Change(task, Busy, "ACTIVE", "BLOCKED")
    /\ ByControl("PAUSED", date)
    /\ UNCHANGED <<disable, kill, product, publication, capable, decided>>

\* Mutant: every paused entity of the business resumes.
ResumedAll == Change(entity, Staff, "PAUSED", "ACTIVE")
Resumed == Change(entity, affected.entities, "PAUSED", "ACTIVE")

\* Mutant: the resumed storefront ignores the other control.
AfterResumeAlone == base
AfterResume == IF disable = "ENGAGED" THEN "DISABLED" ELSE base

\* The trigger on tasks refuses work whose owner's chain is not active, and
\* with it the whole transaction.
ResumeBusiness(date) ==
    /\ kill = "ARMED" /\ pause = "ENGAGED"
    /\ \A e \in affected.owners : \A a \in Above[e] \cup {e} : Resumed[a] = "ACTIVE"
    /\ pause' = "ARMED"
    /\ affected' = [entities |-> {}, owners |-> {}]
    /\ boundary' = IF boundary = "SUSPENDED" THEN "ACTIVE" ELSE boundary
    /\ business' = IF business = "PAUSED" THEN "OPERATING" ELSE business
    /\ entity' = Resumed
    /\ task' = Change(task, affected.owners, "BLOCKED", "ACTIVE")
    /\ ByControl(AfterResume, date)
    /\ UNCHANGED <<disable, kill, product, publication, capable, decided>>

DisablePublication(date) ==
    /\ kill = "ARMED" /\ disable = "ARMED"
    /\ disable' = "ENGAGED"
    /\ ByControl("DISABLED", date)
    /\ UNCHANGED <<pause, kill, affected, canonical, product, publication, capable, decided>>

EnablePublication(date) ==
    /\ kill = "ARMED" /\ disable = "ENGAGED"
    /\ disable' = "ARMED"
    /\ ByControl(IF pause = "ENGAGED" THEN "PAUSED" ELSE base, date)
    /\ UNCHANGED <<pause, kill, affected, canonical, product, publication, capable, decided>>

KilledStatus(e) == IF e \in Staff THEN "RETIRED" ELSE entity[e]

KillBusiness(date) ==
    /\ kill = "ARMED"
    /\ kill' = "ENGAGED" /\ pause' = "ENGAGED" /\ disable' = "ENGAGED"
    /\ affected' = [entities |-> {}, owners |-> {}]
    /\ boundary' = "CLOSED" /\ business' = "RETIRED"
    /\ entity' = [e \in Entities |-> KilledStatus(e)]
    /\ task' = [e \in Soldiers |-> "STOPPED"]
    /\ capable' = FALSE
    /\ ByControl("DISABLED", date)
    /\ UNCHANGED <<product, publication, decided>>

-----------------------------------------------------------------------------
(* The entity lifecycle pauses and resumes single entities, whatever the   *)
(* business's controls (module EntityLifecycle).                           *)

\* Of what is decided while the business is paused, the history only keeps
\* that there was something.
Decides(e, status) ==
    LET decision == IF pause = "ARMED" THEN status ELSE "MIXED" IN
    decided' = [d \in Staff |-> IF d = e THEN decision ELSE decided[d]]

PauseEntity(e) ==
    /\ entity[e] = "ACTIVE"
    /\ entity' = [entity EXCEPT ![e] = "PAUSED"]
    /\ Decides(e, "PAUSED")
    /\ UNCHANGED <<controls, business, boundary, task, storefront, product, publication, capable>>

ResumeEntity(e) ==
    /\ entity[e] = "PAUSED"
    /\ \A a \in Above[e] : entity[a] = "ACTIVE"
    /\ entity' = [entity EXCEPT ![e] = "ACTIVE"]
    /\ Decides(e, "ACTIVE")
    /\ UNCHANGED <<controls, business, boundary, task, storefront, product, publication, capable>>

Next ==
    \/ \E p \in Products : ChangeProduct(p)
    \/ \E p \in Products, s \in Ready \cup {"DRAFT"} : RecordListing(p, s)
    \/ \E s \in Halts \cup Observed, d \in Dates : RecordStorefrontState(s, d)
    \/ \E d \in {"newest", "past"} : ApprovePublication(d)
    \/ ChangeTerms \/ ChangeCapabilities
    \/ \E d \in Dates :
        \/ PauseBusiness(d) \/ ResumeBusiness(d)
        \/ DisablePublication(d) \/ EnablePublication(d)
        \/ KillBusiness(d)
    \/ \E e \in Entities : PauseEntity(e) \/ ResumeEntity(e)

Spec == Init /\ [][Next]_vars

-----------------------------------------------------------------------------
(* Properties *)

Versions == [Products -> 0..MaxVersions]
Approvals == [given : {TRUE}, version : Versions, terms : 0..MaxTerms]

\* Every variable keeps its type, for the tables and records of phase 204.
TypeOK ==
    /\ pause \in {"ARMED", "ENGAGED"} /\ disable \in {"ARMED", "ENGAGED"}
    /\ kill \in {"ARMED", "ENGAGED"}
    /\ affected \in [entities : SUBSET Staff, owners : SUBSET Soldiers]
    /\ business \in {"OPERATING", "PAUSED", "RETIRED"}
    /\ boundary \in {"ACTIVE", "SUSPENDED", "CLOSED"}
    /\ entity \in [Entities -> {"ACTIVE", "PAUSED", "RETIRED"}]
    /\ task \in [Soldiers -> {"ACTIVE", "BLOCKED", "STOPPED"}]
    /\ base \in Observed /\ shown \in Halts \cup Observed
    /\ version \in Versions /\ ready \in [Products -> BOOLEAN] /\ terms \in 0..MaxTerms
    /\ listing \in [Products -> [status : Ready \cup {"DRAFT"}, version : 0..MaxVersions]]
    /\ approval \in Approvals \cup {NoApproval} /\ approved \in SUBSET Approvals
    /\ capable \in BOOLEAN /\ settled \in BOOLEAN
    /\ decided \in [Staff -> {"ACTIVE", "PAUSED", "MIXED"}]

\* The control records, the business, its tenant boundary and its work agree:
\* each is changed by its own statement, and only under its own condition.
StoresAgree ==
    /\ kill = "ENGAGED" =>
        /\ pause = "ENGAGED" /\ disable = "ENGAGED"
        /\ business = "RETIRED" /\ boundary = "CLOSED"
        /\ \A e \in Staff : entity[e] = "RETIRED"
        /\ \A e \in Soldiers : task[e] = "STOPPED"
    /\ kill = "ARMED" /\ pause = "ENGAGED" =>
        /\ business = "PAUSED" /\ boundary = "SUSPENDED"
        /\ \A e \in Soldiers : task[e] = "BLOCKED"
    /\ kill = "ARMED" /\ pause = "ARMED" =>
        /\ business = "OPERATING" /\ boundary = "ACTIVE"
        /\ \A e \in Soldiers : task[e] = "ACTIVE"

\* A pause of the business and its end leave every entity as Humans decided: who
\* was paused before stays paused, who was active is active again.  (What they
\* decide of an entity during the pause may be overruled by its end.)
DecisionsOutlastPauses ==
    \A e \in Staff : decided[e] # "MIXED" /\ kill = "ARMED" =>
        entity[e] = IF pause = "ENGAGED" THEN "PAUSED" ELSE decided[e]

\* Unless an observation or an older date intervened, the storefront shows the
\* halt that is in force, also where pauses and disablings overlap, and shows
\* what was observed before them once both are over.
ShownIsInForce ==
    settled =>
        /\ (shown \in Halts) <=> (pause = "ENGAGED" \/ disable = "ENGAGED")
        /\ shown = "PAUSED" => pause = "ENGAGED"
        /\ shown = "DISABLED" => disable = "ENGAGED"
        /\ shown \notin Halts => shown = base

\* What is listed as published is a version of the product that the owner
\* approved, and no storefront was published without an approval.
PublishedWasApproved ==
    /\ \A p \in Products : listing[p].status = "PUBLISHED" =>
        \E a \in approved : a.version[p] = listing[p].version
    /\ base = "PUBLISHED" => approved # {}

\* A step that leaves a control engaged publishes nothing: no listing and no
\* storefront state, recorded or restored.
HaltedPublishesNothing ==
    [][pause' = "ENGAGED" \/ disable' = "ENGAGED" =>
        /\ shown' = "PUBLISHED" => shown = "PUBLISHED"
        /\ \A p \in Products : listing'[p].status = "PUBLISHED" => listing[p].status = "PUBLISHED"]_vars

\* Nothing brings a killed business, its entities or its work back.
KillIsFinal ==
    [][kill = "ENGAGED" =>
        /\ UNCHANGED <<pause, disable, kill, business, boundary, task>>
        /\ \A e \in Staff : entity'[e] = entity[e]]_vars
=============================================================================
