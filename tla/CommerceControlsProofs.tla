------------------------ MODULE CommerceControlsProofs ------------------------
(***************************************************************************)
(* Proofs about CommerceControls, for any command chain, business staff,   *)
(* products and bounds.                                                    *)
(***************************************************************************)
EXTENDS CommerceControls, TLAPS

\* Entities retire only with the business.
NobodyRetired == kill = "ARMED" => \A e \in Staff : entity[e] # "RETIRED"

\* The engaged pause has recorded what it halted: the work, and the entities
\* that Humans wanted active.
PauseRecorded ==
    kill = "ARMED" /\ pause = "ENGAGED" =>
        /\ affected.owners = Soldiers
        /\ \A e \in Staff : decided[e] # "MIXED" =>
               (e \in affected.entities <=> decided[e] = "ACTIVE")

\* The approval that counts is one of those given.
ApprovalGiven == approval # NoApproval => approval \in approved

ObservedIsShown == shown \notin Halts => shown = base

Inv == /\ StoresAgree /\ DecisionsOutlastPauses /\ ShownIsInForce
       /\ PublishedWasApproved
       /\ NobodyRetired /\ PauseRecorded /\ ApprovalGiven /\ ObservedIsShown

-----------------------------------------------------------------------------
\* The initial state satisfies both invariants.
LEMMA Initially == Init => TypeOK /\ Inv
<1> SUFFICES ASSUME Init
             PROVE  TypeOK /\ Inv
  OBVIOUS
<1>1. TypeOK
  <2>1. version \in Versions /\ ready \in [Products -> BOOLEAN] /\ terms \in 0..MaxTerms
    BY BoundAssumption DEF Init, Versions
  <2>2. listing \in [Products -> [status : Ready \cup {"DRAFT"}, version : 0..MaxVersions]]
    BY BoundAssumption DEF Init, Listing
  <2>3. entity \in [Entities -> {"ACTIVE", "PAUSED", "RETIRED"}]
        /\ task \in [Soldiers -> {"ACTIVE", "BLOCKED", "STOPPED"}]
        /\ decided \in [Staff -> {"ACTIVE", "PAUSED", "MIXED"}]
    BY DEF Init
  <2>4. affected \in [entities : SUBSET Staff, owners : SUBSET Soldiers]
    BY DEF Init
  <2>5. base \in Observed /\ shown \in Halts \cup Observed
    BY DEF Init, Observed
  <2> QED
    BY <2>1, <2>2, <2>3, <2>4, <2>5 DEF Init, TypeOK
<1>2. Inv
  BY StaffAssumption, <1>1
  DEF Init, Inv, StoresAgree, DecisionsOutlastPauses, ShownIsInForce, PublishedWasApproved,
      NobodyRetired, PauseRecorded, ApprovalGiven, ObservedIsShown, Listing, Halts
<1> QED
  BY <1>1, <1>2

\* The dated states of the storefront keep their types, and an observation that
\* is the newest state is the newest observation.
LEMMA DatedType ==
    ASSUME TypeOK, ObservedIsShown, NEW s \in Halts \cup Observed, NEW d \in Dates, Dated(s, d)
    PROVE  base' \in Observed /\ shown' \in Halts \cup Observed /\ ObservedIsShown'
BY DEF TypeOK, Dated, Dates, Halts, Observed, ObservedIsShown

-----------------------------------------------------------------------------
(* Types *)

LEMMA ChangeType ==
    ASSUME NEW D, NEW C, NEW status \in [D -> C], NEW S, NEW from, NEW to \in C
    PROVE  Change(status, S, from, to) \in [D -> C]
BY DEF Change

LEMMA ApprovalType ==
    ASSUME TypeOK
    PROVE  Approval \in Approvals
BY DEF TypeOK, Approval, Approvals

\* Every step keeps the types.
LEMMA TypeStep ==
    ASSUME TypeOK, ObservedIsShown, [Next]_vars
    PROVE  TypeOK'
<1> USE StaffAssumption, BoundAssumption
    DEF controls, canonical, storefront, product, publication
<1>1. ASSUME NEW p \in Products, ChangeProduct(p)
      PROVE  TypeOK'
  <2>1. version' \in Versions /\ ready' \in [Products -> BOOLEAN]
    BY <1>1 DEF ChangeProduct, TypeOK, Versions
  <2> QED
    BY <1>1, <2>1 DEF ChangeProduct, TypeOK
<1>2. ASSUME NEW p \in Products, NEW s \in Ready \cup {"DRAFT"}, RecordListing(p, s)
      PROVE  TypeOK'
  <2>1. listing' \in [Products -> [status : Ready \cup {"DRAFT"}, version : 0..MaxVersions]]
    BY <1>2 DEF RecordListing, TypeOK, Listing, Versions
  <2> QED
    BY <1>2, <2>1 DEF RecordListing, TypeOK
<1>3. ASSUME NEW s \in Halts \cup Observed, NEW d \in Dates, RecordStorefrontState(s, d)
      PROVE  TypeOK'
  <2>1. base' \in Observed /\ shown' \in Halts \cup Observed
    BY <1>3, DatedType DEF RecordStorefrontState
  <2> QED
    BY <1>3, <2>1 DEF RecordStorefrontState, TypeOK
<1>4. ASSUME NEW d \in {"newest", "past"}, ApprovePublication(d)
      PROVE  TypeOK'
  BY <1>4, ApprovalType DEF ApprovePublication, TypeOK
<1>5. CASE ChangeTerms
  BY <1>5 DEF ChangeTerms, TypeOK
<1>6. CASE ChangeCapabilities
  BY <1>6 DEF ChangeCapabilities, TypeOK
<1>7. ASSUME NEW d \in Dates, PauseBusiness(d)
      PROVE  TypeOK'
  <2>1. entity' \in [Entities -> {"ACTIVE", "PAUSED", "RETIRED"}]
    BY <1>7, ChangeType DEF PauseBusiness, TypeOK
  <2>2. task' \in [Soldiers -> {"ACTIVE", "BLOCKED", "STOPPED"}]
    BY <1>7, ChangeType DEF PauseBusiness, TypeOK
  <2>3. base' \in Observed /\ shown' \in Halts \cup Observed /\ settled' \in BOOLEAN
    BY <1>7, DatedType DEF PauseBusiness, ByControl, Halts
  <2>4. affected' \in [entities : SUBSET Staff, owners : SUBSET Soldiers]
    BY <1>7 DEF PauseBusiness, Active, Busy
  <2> QED
    BY <1>7, <2>1, <2>2, <2>3, <2>4 DEF PauseBusiness, TypeOK
<1>8. ASSUME NEW d \in Dates, ResumeBusiness(d)
      PROVE  TypeOK'
  <2>1. entity' \in [Entities -> {"ACTIVE", "PAUSED", "RETIRED"}]
    BY <1>8, ChangeType DEF ResumeBusiness, Resumed, TypeOK
  <2>2. task' \in [Soldiers -> {"ACTIVE", "BLOCKED", "STOPPED"}]
    BY <1>8, ChangeType DEF ResumeBusiness, TypeOK
  <2>3. base' \in Observed /\ shown' \in Halts \cup Observed /\ settled' \in BOOLEAN
    <3>1. AfterResume \in Halts \cup Observed
      BY DEF AfterResume, TypeOK, Halts
    <3> QED
      BY <1>8, <3>1, DatedType DEF ResumeBusiness, ByControl
  <2>4. affected' \in [entities : SUBSET Staff, owners : SUBSET Soldiers]
    BY <1>8 DEF ResumeBusiness
  <2> QED
    BY <1>8, <2>1, <2>2, <2>3, <2>4 DEF ResumeBusiness, TypeOK
<1>9. ASSUME NEW d \in Dates, DisablePublication(d)
      PROVE  TypeOK'
  <2>1. base' \in Observed /\ shown' \in Halts \cup Observed /\ settled' \in BOOLEAN
    BY <1>9, DatedType DEF DisablePublication, ByControl, Halts
  <2> QED
    BY <1>9, <2>1 DEF DisablePublication, TypeOK
<1>10. ASSUME NEW d \in Dates, EnablePublication(d)
       PROVE  TypeOK'
  <2>1. (IF pause = "ENGAGED" THEN "PAUSED" ELSE base) \in Halts \cup Observed
    BY DEF TypeOK, Halts
  <2>2. base' \in Observed /\ shown' \in Halts \cup Observed /\ settled' \in BOOLEAN
    BY <1>10, <2>1, DatedType DEF EnablePublication, ByControl
  <2> QED
    BY <1>10, <2>2 DEF EnablePublication, TypeOK
<1>11. ASSUME NEW d \in Dates, KillBusiness(d)
       PROVE  TypeOK'
  <2>1. entity' \in [Entities -> {"ACTIVE", "PAUSED", "RETIRED"}]
    BY <1>11 DEF KillBusiness, KilledStatus, TypeOK
  <2>2. base' \in Observed /\ shown' \in Halts \cup Observed /\ settled' \in BOOLEAN
    BY <1>11, DatedType DEF KillBusiness, ByControl, Halts
  <2> QED
    BY <1>11, <2>1, <2>2 DEF KillBusiness, TypeOK
<1>12. ASSUME NEW e \in Entities, PauseEntity(e)
       PROVE  TypeOK'
  <2>1. decided' \in [Staff -> {"ACTIVE", "PAUSED", "MIXED"}]
    BY <1>12 DEF PauseEntity, Decides, TypeOK
  <2> QED
    BY <1>12, <2>1 DEF PauseEntity, TypeOK
<1>13. ASSUME NEW e \in Entities, ResumeEntity(e)
       PROVE  TypeOK'
  <2>1. decided' \in [Staff -> {"ACTIVE", "PAUSED", "MIXED"}]
    BY <1>13 DEF ResumeEntity, Decides, TypeOK
  <2> QED
    BY <1>13, <2>1 DEF ResumeEntity, TypeOK
<1>14. CASE UNCHANGED vars
  BY <1>14 DEF vars, TypeOK
<1> QED
  BY <1>1, <1>2, <1>3, <1>4, <1>5, <1>6, <1>7, <1>8, <1>9, <1>10, <1>11, <1>12, <1>13, <1>14
  DEF Next

-----------------------------------------------------------------------------
(* Invariants *)

\* A control's state, dated as the client says, shows what is in force if it
\* was to show it.
LEMMA ShownStep ==
    ASSUME TypeOK, ObservedIsShown, NEW s \in Halts \cup Observed, NEW d \in Dates, ByControl(s, d),
           (s \in Halts) <=> (pause' = "ENGAGED" \/ disable' = "ENGAGED"),
           s = "PAUSED" => pause' = "ENGAGED",
           s = "DISABLED" => disable' = "ENGAGED"
    PROVE  ShownIsInForce' /\ ObservedIsShown' /\ (base' = "PUBLISHED" => s = "PUBLISHED" \/ base = "PUBLISHED")
BY DEF ByControl, Dated, Dates, ShownIsInForce, ObservedIsShown, Halts, Observed, TypeOK

LEMMA PublicationStays ==
    ASSUME PublishedWasApproved, ApprovalGiven, UNCHANGED publication,
           base' = "PUBLISHED" => base = "PUBLISHED"
    PROVE  PublishedWasApproved' /\ ApprovalGiven'
BY DEF PublishedWasApproved, ApprovalGiven, publication

LEMMA EntitiesStay ==
    ASSUME StoresAgree, DecisionsOutlastPauses, NobodyRetired, PauseRecorded,
           UNCHANGED <<pause, kill, affected, canonical, decided>>,
           disable' = disable \/ kill = "ARMED"
    PROVE  StoresAgree' /\ DecisionsOutlastPauses' /\ NobodyRetired' /\ PauseRecorded'
BY DEF StoresAgree, DecisionsOutlastPauses, NobodyRetired, PauseRecorded, canonical

LEMMA StorefrontStays ==
    ASSUME ShownIsInForce, ObservedIsShown, UNCHANGED <<pause, disable, storefront>>
    PROVE  ShownIsInForce' /\ ObservedIsShown' /\ base' = base
BY DEF ShownIsInForce, ObservedIsShown, storefront

\* What the storefront may publish, the owner has approved.
LEMMA AllowedApproved ==
    ASSUME Allowed, ApprovalGiven
    PROVE  /\ approved # {}
           /\ \A p \in Products : \E a \in approved : a.version[p] = version[p]
<1>1. Approval # NoApproval /\ Approval.version = version
  BY DEF Approval, NoApproval
<1>2. Approval \in approved
  BY <1>1 DEF Allowed, ApprovalGiven
<1> QED
  BY <1>1, <1>2

\* Every step keeps the invariant.
LEMMA InvStep ==
    ASSUME TypeOK, Inv, [Next]_vars
    PROVE  Inv'
<1> USE DEF Inv
<1>1. ASSUME NEW p \in Products, ChangeProduct(p)
      PROVE  Inv'
  BY <1>1, PublicationStays, EntitiesStay, StorefrontStays DEF ChangeProduct, controls
<1>2. ASSUME NEW p \in Products, NEW s \in Ready \cup {"DRAFT"}, RecordListing(p, s)
      PROVE  Inv'
  <2>1. PublishedWasApproved' /\ ApprovalGiven'
    <3> SUFFICES ASSUME NEW q \in Products, listing'[q].status = "PUBLISHED"
                 PROVE  \E a \in approved : a.version[q] = listing'[q].version
      BY <1>2, StorefrontStays DEF RecordListing, PublishedWasApproved, ApprovalGiven, controls
    <3>1. CASE q = p
      <4>1. listing'[q] = Listing(s, version[p])
        BY <1>2, <3>1 DEF RecordListing, TypeOK
      <4>2. s = "PUBLISHED" /\ listing'[q].version = version[q]
        BY <3>1, <4>1 DEF Listing
      <4> QED
        BY <1>2, <4>2, AllowedApproved DEF RecordListing
    <3>2. CASE q # p
      <4>1. listing'[q] = listing[q]
        BY <1>2, <3>2 DEF RecordListing, TypeOK
      <4> QED
        BY <4>1 DEF PublishedWasApproved
    <3> QED
      BY <3>1, <3>2
  <2> QED
    BY <1>2, <2>1, EntitiesStay, StorefrontStays DEF RecordListing, controls
<1>3. ASSUME NEW s \in Halts \cup Observed, NEW d \in Dates, RecordStorefrontState(s, d)
      PROVE  Inv'
  <2>1. ObservedIsShown'
    BY <1>3, DatedType DEF RecordStorefrontState
  <2>2. ShownIsInForce'
    BY <1>3 DEF RecordStorefrontState, ShownIsInForce, ObservedIsShown, Dated, Halts, Observed, controls, TypeOK
  <2>3. base' = "PUBLISHED" => base = "PUBLISHED" \/ Allowed
    BY <1>3 DEF RecordStorefrontState, Dated
  <2>4. PublishedWasApproved' /\ ApprovalGiven'
    BY <1>3, <2>3, AllowedApproved
    DEF RecordStorefrontState, PublishedWasApproved, ApprovalGiven, publication
  <2> QED
    BY <1>3, <2>1, <2>2, <2>4, EntitiesStay DEF RecordStorefrontState, controls
<1>4. ASSUME NEW d \in {"newest", "past"}, ApprovePublication(d)
      PROVE  Inv'
  <2>1. StoresAgree' /\ DecisionsOutlastPauses' /\ NobodyRetired' /\ PauseRecorded'
    BY <1>4, EntitiesStay DEF ApprovePublication
  <2>2. ShownIsInForce' /\ ObservedIsShown'
    BY <1>4 DEF ApprovePublication, ShownIsInForce, ObservedIsShown, storefront, Halts
  <2>3. PublishedWasApproved' /\ ApprovalGiven'
    BY <1>4 DEF ApprovePublication, PublishedWasApproved, ApprovalGiven, storefront
  <2> QED
    BY <2>1, <2>2, <2>3
<1>5. CASE ChangeTerms
  BY <1>5, PublicationStays, EntitiesStay, StorefrontStays DEF ChangeTerms, controls
<1>6. CASE ChangeCapabilities
  BY <1>6, PublicationStays, EntitiesStay, StorefrontStays DEF ChangeCapabilities, controls
<1>7. ASSUME NEW d \in Dates, PauseBusiness(d)
      PROVE  Inv'
  <2> USE <1>7 DEF PauseBusiness
  <2>1. ShownIsInForce' /\ ObservedIsShown' /\ (base' = "PUBLISHED" => base = "PUBLISHED")
    BY ShownStep DEF Halts
  <2>2. \A e \in Staff : entity'[e] = "PAUSED"
    BY StaffAssumption DEF Change, Active, NobodyRetired, TypeOK
  <2>3. \A e \in Soldiers : task'[e] = "BLOCKED"
    BY DEF Change, Busy, StoresAgree, TypeOK
  <2>4. StoresAgree'
    BY <2>3 DEF StoresAgree
  <2>5. DecisionsOutlastPauses' /\ NobodyRetired'
    BY <2>2 DEF DecisionsOutlastPauses, NobodyRetired
  <2>6. PauseRecorded'
    BY DEF PauseRecorded, Active, Busy, StoresAgree, DecisionsOutlastPauses
  <2> QED
    BY <2>1, <2>4, <2>5, <2>6, PublicationStays
<1>8. ASSUME NEW d \in Dates, ResumeBusiness(d)
      PROVE  Inv'
  <2> USE <1>8 DEF ResumeBusiness
  <2>1. ShownIsInForce' /\ ObservedIsShown' /\ (base' = "PUBLISHED" => base = "PUBLISHED")
    <3>1. PICK s \in Halts \cup Observed : s = AfterResume
      BY DEF AfterResume, TypeOK, Halts
    <3>2. /\ s \in Halts <=> disable = "ENGAGED"
          /\ s # "PAUSED"
          /\ s \in {"DISABLED", base}
      BY <3>1 DEF AfterResume, TypeOK, Halts, Observed
    <3>3. ByControl(s, d)
      BY <3>1
    <3>4. /\ (s \in Halts) <=> (pause' = "ENGAGED" \/ disable' = "ENGAGED")
          /\ s = "PAUSED" => pause' = "ENGAGED"
          /\ s = "DISABLED" => disable' = "ENGAGED"
      BY <3>2, <3>3 DEF Halts
    <3>5. ShownIsInForce' /\ ObservedIsShown' /\ (base' = "PUBLISHED" => s = "PUBLISHED" \/ base = "PUBLISHED")
      BY <3>3, <3>4, ShownStep
    <3> QED
      BY <3>2, <3>5
  <2>2. \A e \in Staff : entity'[e] =
            IF e \in affected.entities /\ entity[e] = "PAUSED" THEN "ACTIVE" ELSE entity[e]
    BY StaffAssumption DEF Resumed, Change, TypeOK
  <2>3. \A e \in Soldiers : task'[e] = "ACTIVE"
    BY DEF Change, StoresAgree, PauseRecorded, TypeOK
  <2>4. StoresAgree'
    BY <2>3 DEF StoresAgree
  <2>5. NobodyRetired'
    BY <2>2 DEF NobodyRetired
  <2>6. DecisionsOutlastPauses'
    BY <2>2 DEF DecisionsOutlastPauses, PauseRecorded, TypeOK
  <2>7. PauseRecorded'
    BY DEF PauseRecorded
  <2> QED
    BY <2>1, <2>4, <2>5, <2>6, <2>7, PublicationStays
<1>9. ASSUME NEW d \in Dates, DisablePublication(d)
      PROVE  Inv'
  <2>1. ShownIsInForce' /\ ObservedIsShown' /\ (base' = "PUBLISHED" => base = "PUBLISHED")
    BY <1>9, ShownStep DEF DisablePublication, Halts
  <2> QED
    BY <1>9, <2>1, EntitiesStay, PublicationStays DEF DisablePublication
<1>10. ASSUME NEW d \in Dates, EnablePublication(d)
       PROVE  Inv'
  <2>1. ShownIsInForce' /\ ObservedIsShown' /\ (base' = "PUBLISHED" => base = "PUBLISHED")
    <3>1. PICK s \in Halts \cup Observed : s = IF pause = "ENGAGED" THEN "PAUSED" ELSE base
      BY DEF TypeOK, Halts
    <3>2. /\ s \in Halts <=> pause = "ENGAGED"
          /\ s # "DISABLED"
          /\ s \in {"PAUSED", base}
      BY <3>1 DEF TypeOK, Halts, Observed
    <3>3. ByControl(s, d) /\ pause' = pause /\ disable' = "ARMED"
      BY <1>10, <3>1 DEF EnablePublication
    <3>4. /\ (s \in Halts) <=> (pause' = "ENGAGED" \/ disable' = "ENGAGED")
          /\ s = "PAUSED" => pause' = "ENGAGED"
          /\ s = "DISABLED" => disable' = "ENGAGED"
      BY <3>2, <3>3 DEF Halts
    <3>5. ShownIsInForce' /\ ObservedIsShown' /\ (base' = "PUBLISHED" => s = "PUBLISHED" \/ base = "PUBLISHED")
      BY <3>3, <3>4, ShownStep
    <3> QED
      BY <3>2, <3>5
  <2> QED
    BY <1>10, <2>1, EntitiesStay, PublicationStays DEF EnablePublication
<1>11. ASSUME NEW d \in Dates, KillBusiness(d)
       PROVE  Inv'
  <2> USE <1>11 DEF KillBusiness
  <2>1. ShownIsInForce' /\ ObservedIsShown' /\ (base' = "PUBLISHED" => base = "PUBLISHED")
    BY ShownStep DEF Halts
  <2>2. StoresAgree'
    BY StaffAssumption DEF StoresAgree, KilledStatus
  <2>3. DecisionsOutlastPauses' /\ NobodyRetired' /\ PauseRecorded'
    BY DEF DecisionsOutlastPauses, NobodyRetired, PauseRecorded
  <2> QED
    BY <2>1, <2>2, <2>3, PublicationStays
<1>12. ASSUME NEW e \in Entities, PauseEntity(e)
       PROVE  Inv'
  <2>1. StoresAgree' /\ NobodyRetired'
    BY <1>12 DEF PauseEntity, StoresAgree, NobodyRetired, controls, TypeOK
  <2>2. DecisionsOutlastPauses' /\ PauseRecorded'
    BY <1>12 DEF PauseEntity, Decides, DecisionsOutlastPauses, PauseRecorded, controls, TypeOK
  <2> QED
    BY <1>12, <2>1, <2>2, StorefrontStays, PublicationStays DEF PauseEntity, controls
<1>13. ASSUME NEW e \in Entities, ResumeEntity(e)
       PROVE  Inv'
  <2>1. StoresAgree' /\ NobodyRetired'
    BY <1>13 DEF ResumeEntity, StoresAgree, NobodyRetired, controls, TypeOK
  <2>2. DecisionsOutlastPauses' /\ PauseRecorded'
    BY <1>13 DEF ResumeEntity, Decides, DecisionsOutlastPauses, PauseRecorded, controls, TypeOK
  <2> QED
    BY <1>13, <2>1, <2>2, StorefrontStays, PublicationStays DEF ResumeEntity, controls
<1>14. CASE UNCHANGED vars
  BY <1>14, EntitiesStay, StorefrontStays, PublicationStays DEF vars, controls, storefront
<1> QED
  BY <1>1, <1>2, <1>3, <1>4, <1>5, <1>6, <1>7, <1>8, <1>9, <1>10, <1>11, <1>12, <1>13, <1>14
  DEF Next
-----------------------------------------------------------------------------
(* Theorems *)

\* A step that leaves a control engaged publishes nothing: no listing and no
\* storefront state, recorded or restored.
LEMMA HaltStep ==
    ASSUME TypeOK, Inv, [Next]_vars, pause' = "ENGAGED" \/ disable' = "ENGAGED"
    PROVE  /\ shown' = "PUBLISHED" => shown = "PUBLISHED"
           /\ \A p \in Products : listing'[p].status = "PUBLISHED" => listing[p].status = "PUBLISHED"
<1> USE DEF controls, publication, storefront
<1>1. ASSUME NEW p \in Products, ChangeProduct(p)
      PROVE  UNCHANGED <<shown, listing>>
  BY <1>1 DEF ChangeProduct
<1>2. ASSUME NEW p \in Products, NEW s \in Ready \cup {"DRAFT"}, RecordListing(p, s)
      PROVE  /\ shown' = shown
             /\ \A q \in Products : listing'[q].status = "PUBLISHED" => listing[q].status = "PUBLISHED"
  BY <1>2 DEF RecordListing, Allowed, Listing, TypeOK
<1>3. ASSUME NEW s \in Halts \cup Observed, NEW d \in Dates, RecordStorefrontState(s, d)
      PROVE  listing' = listing /\ (shown' = "PUBLISHED" => shown = "PUBLISHED")
  BY <1>3 DEF RecordStorefrontState, Allowed, Dated
<1>4. ASSUME NEW d \in {"newest", "past"}, ApprovePublication(d)
      PROVE  UNCHANGED <<shown, listing>>
  BY <1>4 DEF ApprovePublication
<1>5. CASE ChangeTerms \/ ChangeCapabilities
  BY <1>5 DEF ChangeTerms, ChangeCapabilities
<1>6. ASSUME NEW d \in Dates, PauseBusiness(d) \/ DisablePublication(d) \/ KillBusiness(d)
      PROVE  listing' = listing /\ (shown' = "PUBLISHED" => shown = "PUBLISHED")
  BY <1>6 DEF PauseBusiness, DisablePublication, KillBusiness, ByControl, Dated
<1>7. ASSUME NEW d \in Dates, ResumeBusiness(d)
      PROVE  listing' = listing /\ (shown' = "PUBLISHED" => shown = "PUBLISHED")
  BY <1>7 DEF ResumeBusiness, ByControl, Dated, AfterResume
<1>8. ASSUME NEW d \in Dates, EnablePublication(d)
      PROVE  listing' = listing /\ (shown' = "PUBLISHED" => shown = "PUBLISHED")
  BY <1>8 DEF EnablePublication, ByControl, Dated
<1>9. ASSUME NEW e \in Entities, PauseEntity(e) \/ ResumeEntity(e)
      PROVE  UNCHANGED <<shown, listing>>
  BY <1>9 DEF PauseEntity, ResumeEntity
<1>10. CASE UNCHANGED vars
  BY <1>10 DEF vars
<1> QED
  BY <1>1, <1>2, <1>3, <1>4, <1>5, <1>6, <1>7, <1>8, <1>9, <1>10 DEF Next

\* Nothing brings a killed business, its entities or its work back.
LEMMA KillStep ==
    ASSUME TypeOK, Inv, [Next]_vars, kill = "ENGAGED"
    PROVE  /\ UNCHANGED <<pause, disable, kill, business, boundary, task>>
           /\ \A e \in Staff : entity'[e] = entity[e]
<1> USE StaffAssumption DEF controls, canonical, Inv, StoresAgree
<1>1. ASSUME NEW p \in Products, ChangeProduct(p)
      PROVE  UNCHANGED <<pause, disable, kill, canonical>>
  BY <1>1 DEF ChangeProduct
<1>2. ASSUME NEW p \in Products, NEW s \in Ready \cup {"DRAFT"}, RecordListing(p, s)
      PROVE  UNCHANGED <<pause, disable, kill, canonical>>
  BY <1>2 DEF RecordListing
<1>3. ASSUME NEW s \in Halts \cup Observed, NEW d \in Dates, RecordStorefrontState(s, d)
      PROVE  UNCHANGED <<pause, disable, kill, canonical>>
  BY <1>3 DEF RecordStorefrontState
<1>4. ASSUME NEW d \in {"newest", "past"}
      PROVE  ~ApprovePublication(d)
  BY DEF ApprovePublication
<1>5. CASE ChangeTerms \/ ChangeCapabilities
  BY <1>5 DEF ChangeTerms, ChangeCapabilities
<1>6. ASSUME NEW d \in Dates
      PROVE  ~(\/ PauseBusiness(d) \/ ResumeBusiness(d) \/ DisablePublication(d)
               \/ EnablePublication(d) \/ KillBusiness(d))
  BY DEF PauseBusiness, ResumeBusiness, DisablePublication, EnablePublication, KillBusiness
<1>7. ASSUME NEW e \in Entities, PauseEntity(e) \/ ResumeEntity(e)
      PROVE  /\ UNCHANGED <<pause, disable, kill, business, boundary, task>>
             /\ \A d \in Staff : entity'[d] = entity[d]
  BY <1>7 DEF PauseEntity, ResumeEntity, TypeOK
<1>8. CASE UNCHANGED vars
  BY <1>8 DEF vars
<1> QED
  BY <1>1, <1>2, <1>3, <1>4, <1>5, <1>6, <1>7, <1>8 DEF Next

\* The types and the invariant, together.
THEOREM Invariance == Spec => [](TypeOK /\ Inv)
<1>1. Init => TypeOK /\ Inv
  BY Initially
<1>2. TypeOK /\ Inv /\ [Next]_vars => (TypeOK /\ Inv)'
  BY TypeStep, InvStep DEF Inv
<1> QED
  BY <1>1, <1>2, PTL DEF Spec

\* Every variable keeps its type, for the tables and records of phase 204.
THEOREM TypesAreKept == Spec => []TypeOK
BY Invariance, PTL

\* The control records, the business, its tenant boundary and its work agree
\* after any sequence of operations.
THEOREM Agreement == Spec => []StoresAgree
<1>1. TypeOK /\ Inv => StoresAgree
  BY DEF Inv
<1> QED
  BY <1>1, Invariance, PTL

\* A pause of the business and its end leave every entity as Humans decided
\* outside of it.
THEOREM DecisionsKept == Spec => []DecisionsOutlastPauses
<1>1. TypeOK /\ Inv => DecisionsOutlastPauses
  BY DEF Inv
<1> QED
  BY <1>1, Invariance, PTL

\* The storefront shows the halt in force, and what was observed before it.
THEOREM HaltIsShown == Spec => []ShownIsInForce
<1>1. TypeOK /\ Inv => ShownIsInForce
  BY DEF Inv
<1> QED
  BY <1>1, Invariance, PTL

\* Published listings bind versions that the owner approved.
THEOREM ApprovedFirst == Spec => []PublishedWasApproved
<1>1. TypeOK /\ Inv => PublishedWasApproved
  BY DEF Inv
<1> QED
  BY <1>1, Invariance, PTL

\* While a control is engaged nothing is published.
THEOREM HaltHolds == Spec => HaltedPublishesNothing
<1>1. TypeOK /\ Inv /\ [Next]_vars =>
        [pause' = "ENGAGED" \/ disable' = "ENGAGED" =>
            /\ shown' = "PUBLISHED" => shown = "PUBLISHED"
            /\ \A p \in Products : listing'[p].status = "PUBLISHED" => listing[p].status = "PUBLISHED"]_vars
  BY HaltStep
<1> QED
  BY <1>1, Invariance, PTL DEF Spec, HaltedPublishesNothing

\* A kill is final.
THEOREM KillStands == Spec => KillIsFinal
<1>1. TypeOK /\ Inv /\ [Next]_vars =>
        [kill = "ENGAGED" =>
            /\ UNCHANGED <<pause, disable, kill, business, boundary, task>>
            /\ \A e \in Staff : entity'[e] = entity[e]]_vars
  BY KillStep
<1> QED
  BY <1>1, Invariance, PTL DEF Spec, KillIsFinal
=============================================================================
