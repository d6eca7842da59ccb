-------------------------- MODULE RouteSyncProofs --------------------------
(***************************************************************************)
(* A gateway only serves what was published.  RoutesWereReleased speaks of *)
(* the loads under way as well as of the routes, and is inductive with     *)
(* CatalogInv, which says the same of every revision in the catalog.       *)
(***************************************************************************)
EXTENDS RouteSync, CatalogProofs

IInv == TypeOK /\ CatalogInv /\ RoutesWereReleased

(* What was released once stays so.                                        *)
LEMMA ReleasedGrows ==
    ASSUME NEW a \in APIs, CatalogTypeOK, StoreStep(a), NEW b \in APIs
    PROVE  released[b] \subseteq released'[b]
<1> USE DEF CatalogTypeOK
<1>1. CASE CreateAPI(a) \/ UpdateAPI(a) \/ DeleteAPI(a) \/ SetApproved(a)
  BY <1>1 DEF CreateAPI, UpdateAPI, DeleteAPI, SetApproved
<1>2. ASSUME NEW s \in Snapshots, s.row \in Versions, AddRevision(a, s)
      PROVE  released[b] \subseteq released'[b]
  BY <1>2 DEF AddRevision
<1> QED BY <1>1, <1>2 DEF StoreStep

(* Init has no routes and loads nothing.                                   *)
LEMMA RouteSyncInit == Init => IInv
<1> SUFFICES ASSUME Init PROVE IInv
  OBVIOUS
<1> USE RouteSyncAssumption
<1>1. CatalogInv BY CatalogInitInv DEF Init
<1>2. EmptySnapshot \in Snapshots /\ EmptySnapshot.row = NoVersion
  BY DEF EmptySnapshot, Snapshots
<1>3. NoRoutes \in [APIs -> Snapshots] /\ \A a \in APIs : NoRoutes[a].row = NoVersion
  BY <1>2 DEF NoRoutes
<1>4. TypeOK BY <1>1, <1>3 DEF Init, TypeOK, CatalogInv, Steps
<1>5. RoutesWereReleased BY <1>3 DEF Init, RoutesWereReleased
<1> QED BY <1>1, <1>4, <1>5 DEF IInv

(* The catalog or the policies change while loads are under way.           *)
LEMMA ChangesKeep ==
    ASSUME IInv, CatalogChanges \/ PolicyChanges
    PROVE  IInv'
<1> USE RouteSyncAssumption
<1>0. TypeOK /\ CatalogInv /\ RoutesWereReleased /\ CatalogTypeOK BY DEF IInv, TypeOK
<1>1. CASE CatalogChanges
  <2>1. PICK a \in APIs :
           \/ CreateAPI(a) \/ UpdateAPI(a) \/ DeleteAPI(a) \/ Approve(a)
           \/ \E s \in Snapshots : Publish(a, s)
    BY <1>1 DEF CatalogChanges
  <2>2. CatalogNext BY <2>1 DEF CatalogNext
  <2>3. PICK b \in APIs : StoreStep(b) BY <1>0, <2>2, CatalogNextIsStoreStep
  <2>4. CatalogInv' BY <1>0, <2>3, StoreStepInv
  <2>5. pending' \in 0 .. MaxPending
    BY <1>0, <1>1 DEF CatalogChanges, Announce, TypeOK
  <2>6. TypeOK' BY <1>0, <1>1, <2>4, <2>5 DEF CatalogChanges, TypeOK, CatalogInv, loading, serving
  <2>7. routes' = routes /\ loaded' = loaded BY <1>1 DEF CatalogChanges, loading, serving
  <2>8. \A c \in APIs : released[c] \subseteq released'[c] BY <1>0, <2>3, ReleasedGrows
  <2>9. RoutesWereReleased' BY <1>0, <2>7, <2>8 DEF RoutesWereReleased
  <2> QED BY <2>4, <2>6, <2>9 DEF IInv
<1>2. CASE PolicyChanges
  <2>1. CatalogInv'
    BY <1>0, <1>2 DEF PolicyChanges, CatalogInv, CatalogTypeOK, History, PublishedOnApproval, ApprovedLeavesReview, catalogVars
  <2>2. pending' \in 0 .. MaxPending /\ policy' \in 0 .. MaxPolicy
    BY <1>0, <1>2 DEF PolicyChanges, Announce, TypeOK
  <2>3. TypeOK' BY <1>0, <1>2, <2>1, <2>2 DEF PolicyChanges, TypeOK, CatalogInv, loading, serving
  <2>4. RoutesWereReleased'
    BY <1>0, <1>2 DEF PolicyChanges, RoutesWereReleased, catalogVars, loading, serving
  <2> QED BY <2>1, <2>3, <2>4 DEF IInv
<1> QED BY <1>1, <1>2

(* Reading: a last snapshot is one of the revisions, and a published row   *)
(* is what was released.                                                   *)
LEMMA ReadsKeep ==
    ASSUME IInv, NEW l \in Loops, ReadSnapshots(l) \/ ReadRows(l) \/ ReadParameters(l)
    PROVE  IInv'
<1>0. TypeOK /\ CatalogInv /\ RoutesWereReleased /\ CatalogTypeOK BY DEF IInv, TypeOK
<1>1. /\ UNCHANGED <<catalogVars, policy, pending, got, serving>>
      /\ CatalogInv'
  BY <1>0 DEF ReadSnapshots, ReadRows, ReadParameters, CatalogInv, CatalogTypeOK, History,
              PublishedOnApproval, ApprovedLeavesReview, catalogVars
<1>2. ASSUME NEW new \in [APIs -> Snapshots], loaded' = [loaded EXCEPT ![l] = new],
             \A a \in APIs : new[a].row # NoVersion => new[a].row \in released[a]
      PROVE  RoutesWereReleased' /\ loaded' \in [Loops -> [APIs -> Snapshots]]
  BY <1>0, <1>1, <1>2 DEF RoutesWereReleased, TypeOK, catalogVars, serving
<1>3. step' \in [Loops -> Steps]
  BY <1>0 DEF ReadSnapshots, ReadRows, ReadParameters, GoTo, TypeOK, Steps
<1>4. ASSUME unread' \in [Loops -> SUBSET APIs], loaded' \in [Loops -> [APIs -> Snapshots]],
             RoutesWereReleased'
      PROVE  IInv'
  BY <1>0, <1>1, <1>3, <1>4 DEF IInv, TypeOK, CatalogInv, serving
<1>5. CASE ReadSnapshots(l)
  <2> DEFINE new == [a \in APIs |-> IF Live(a) THEN LastSnapshot(a) ELSE EmptySnapshot]
  <2>1. ASSUME NEW a \in APIs
        PROVE  new[a] \in Snapshots /\ (new[a].row # NoVersion => new[a].row \in released[a])
    <3>1. CASE Live(a)
      <4>1. revisions[a] \in Seq(Snapshots) /\ revisions[a] # <<>> BY <1>0, <3>1 DEF Live, CatalogTypeOK
      <4>2. Len(revisions[a]) \in 1 .. Len(revisions[a]) BY <4>1, EmptySeq, LenProperties
      <4>3. LastSnapshot(a) \in Snapshots BY <4>1, <4>2, ElementOfSeq DEF LastSnapshot
      <4>4. LastSnapshot(a).row \in released[a]
        BY <1>0, <4>2 DEF LastSnapshot, CatalogInv, History
      <4> QED BY <3>1, <4>3, <4>4
    <3>2. CASE ~Live(a) BY <3>2 DEF EmptySnapshot, Snapshots
    <3> QED BY <3>1, <3>2
  <2>2. new \in [APIs -> Snapshots] BY <2>1
  <2>3. loaded' = [loaded EXCEPT ![l] = new] /\ unread' = unread BY <1>5 DEF ReadSnapshots
  <2> HIDE DEF new
  <2>4. RoutesWereReleased' /\ loaded' \in [Loops -> [APIs -> Snapshots]]
    BY <1>2, <2>1, <2>2, <2>3
  <2> QED BY <1>0, <1>4, <2>3, <2>4 DEF TypeOK
<1>6. CASE ReadRows(l)
  <2> DEFINE published == {a \in APIs : status[a] = "PUBLISHED"}
             new == [a \in APIs |-> [row |-> IF a \in published THEN definition[a] ELSE NoVersion,
                                     params |-> NoVersion]]
  <2>1. ASSUME NEW a \in APIs
        PROVE  new[a] \in Snapshots /\ (new[a].row # NoVersion => new[a].row \in released[a])
    <3>1. definition[a] \in Versions BY <1>0 DEF CatalogTypeOK
    <3>2. status[a] = "PUBLISHED" => definition[a] \in released[a] BY <1>0 DEF CatalogInv, History
    <3> QED BY <3>1, <3>2 DEF Snapshots
  <2>2. new \in [APIs -> Snapshots] BY <2>1
  <2>3. loaded' = [loaded EXCEPT ![l] = new] /\ unread' = [unread EXCEPT ![l] = published]
    BY <1>6 DEF ReadRows
  <2> HIDE DEF new
  <2>4. RoutesWereReleased' /\ loaded' \in [Loops -> [APIs -> Snapshots]]
    BY <1>2, <2>1, <2>2, <2>3
  <2>5. unread' \in [Loops -> SUBSET APIs] BY <1>0, <2>3 DEF TypeOK
  <2> QED BY <1>4, <2>4, <2>5
<1>7. CASE ReadParameters(l)
  <2>1. PICK a \in unread[l] :
           /\ loaded' = [loaded EXCEPT ![l][a].params = IF Exists(a) THEN definition[a] ELSE NoVersion]
           /\ unread' = [unread EXCEPT ![l] = @ \ {a}]
    BY <1>7 DEF ReadParameters
  <2>2. a \in APIs BY <1>0 DEF TypeOK
  <2> DEFINE p == IF Exists(a) THEN definition[a] ELSE NoVersion
             new == [loaded[l] EXCEPT ![a] = [loaded[l][a] EXCEPT !.params = p]]
  <2>3. p \in Versions \cup {NoVersion} BY <1>0, <2>2 DEF CatalogTypeOK
  <2>4. loaded[l] \in [APIs -> Snapshots] BY <1>0 DEF TypeOK
  <2> HIDE DEF p
  <2>5. ASSUME NEW b \in APIs
        PROVE  new[b] \in Snapshots /\ new[b].row = loaded[l][b].row
    BY <2>2, <2>3, <2>4 DEF Snapshots
  <2>6. new \in [APIs -> Snapshots] BY <2>4, <2>5
  <2>7. loaded' = [loaded EXCEPT ![l] = new] BY <2>1 DEF p
  <2>8. \A b \in APIs : new[b].row # NoVersion => new[b].row \in released[b]
    BY <1>0, <2>5 DEF RoutesWereReleased
  <2> HIDE DEF new
  <2>9. RoutesWereReleased' /\ loaded' \in [Loops -> [APIs -> Snapshots]]
    BY <1>2, <2>6, <2>7, <2>8
  <2>10. unread' \in [Loops -> SUBSET APIs] BY <1>0, <2>1 DEF TypeOK
  <2> QED BY <1>4, <2>9, <2>10
<1> QED BY <1>5, <1>6, <1>7

(* The other steps of a load: what is served is what was loaded.           *)
LEMMA ServesKeep ==
    ASSUME IInv, NEW l \in Loops,
           StartLoad(l) \/ ReadPolicies(l) \/ LoadFails(l) \/ BuildRouter(l) \/ SetMetadata(l)
    PROVE  IInv'
<1> USE RouteSyncAssumption
<1>0. TypeOK /\ CatalogInv /\ RoutesWereReleased /\ CatalogTypeOK BY DEF IInv, TypeOK
<1>1. UNCHANGED catalogVars /\ UNCHANGED policy
  BY DEF StartLoad, ReadPolicies, LoadFails, BuildRouter, SetMetadata
<1>2. CatalogInv'
  BY <1>0, <1>1 DEF CatalogInv, CatalogTypeOK, History, PublishedOnApproval, ApprovedLeavesReview, catalogVars
<1>3. NoRoutes \in [APIs -> Snapshots] /\ \A a \in APIs : NoRoutes[a].row = NoVersion
  BY DEF NoRoutes, EmptySnapshot, Snapshots
<1>4. step' \in [Loops -> Steps]
  BY <1>0 DEF StartLoad, ReadPolicies, LoadFails, BuildRouter, SetMetadata, GoTo, TypeOK, Steps
<1>5. CASE StartLoad(l)
  <2>1. pending' \in 0 .. MaxPending BY <1>0, <1>5 DEF StartLoad, TypeOK
  <2>2. TypeOK' BY <1>0, <1>1, <1>2, <1>4, <1>5, <2>1 DEF StartLoad, TypeOK, CatalogInv, serving
  <2>3. RoutesWereReleased' BY <1>0, <1>1, <1>5 DEF StartLoad, RoutesWereReleased, catalogVars, serving
  <2> QED BY <1>2, <2>2, <2>3 DEF IInv
<1>6. CASE ReadPolicies(l)
  <2>1. TypeOK' BY <1>0, <1>1, <1>2, <1>4, <1>6 DEF ReadPolicies, TypeOK, CatalogInv, serving
  <2>2. RoutesWereReleased' BY <1>0, <1>1, <1>6 DEF ReadPolicies, RoutesWereReleased, catalogVars, serving
  <2> QED BY <1>2, <2>1, <2>2 DEF IInv
<1>7. CASE LoadFails(l)
  <2>1. TypeOK' BY <1>0, <1>1, <1>2, <1>3, <1>4, <1>7 DEF LoadFails, TypeOK, CatalogInv, serving
  <2>2. RoutesWereReleased'
    BY <1>0, <1>1, <1>3, <1>7 DEF LoadFails, RoutesWereReleased, TypeOK, catalogVars, serving
  <2> QED BY <1>2, <2>1, <2>2 DEF IInv
<1>8. CASE BuildRouter(l)
  <2>1. TypeOK' BY <1>0, <1>1, <1>2, <1>3, <1>4, <1>8 DEF BuildRouter, TypeOK, CatalogInv
  <2>2. RoutesWereReleased'
    BY <1>0, <1>1, <1>3, <1>8 DEF BuildRouter, RoutesWereReleased, TypeOK, catalogVars
  <2> QED BY <1>2, <2>1, <2>2 DEF IInv
<1>9. CASE SetMetadata(l)
  <2>1. TypeOK' BY <1>0, <1>1, <1>2, <1>4, <1>9 DEF SetMetadata, TypeOK, CatalogInv
  <2>2. RoutesWereReleased' BY <1>0, <1>1, <1>9 DEF SetMetadata, RoutesWereReleased, catalogVars
  <2> QED BY <1>2, <2>1, <2>2 DEF IInv
<1> QED BY <1>5, <1>6, <1>7, <1>8, <1>9

(* The inductive invariant holds of every behaviour.                       *)
THEOREM RouteSyncInductive == Spec => []IInv
<1>1. IInv /\ [Next]_vars => IInv'
  <2> SUFFICES ASSUME IInv, [Next]_vars PROVE IInv'
    OBVIOUS
  <2>1. CASE Next
    BY <2>1, ChangesKeep, ReadsKeep, ServesKeep DEF Next, Load
  <2>2. CASE UNCHANGED vars
    BY <2>2 DEF IInv, TypeOK, CatalogInv, CatalogTypeOK, History, PublishedOnApproval, ApprovedLeavesReview,
                RoutesWereReleased, vars, catalogVars, loading, serving
  <2> QED BY <2>1, <2>2
<1> QED BY <1>1, RouteSyncInit, PTL DEF Spec

(* Catalog, loads and what is served are well-typed.                       *)
THEOREM RouteSyncTypeOK == Spec => []TypeOK
<1>1. IInv => TypeOK BY DEF IInv
<1> QED BY <1>1, RouteSyncInductive, PTL

(* No interleaving of edits, publications and loads makes a gateway serve  *)
(* a row that was never published.                                         *)
THEOREM RouteSyncRoutesWereReleased == Spec => []RoutesWereReleased
<1>1. IInv => RoutesWereReleased BY DEF IInv
<1> QED BY <1>1, RouteSyncInductive, PTL
=============================================================================
