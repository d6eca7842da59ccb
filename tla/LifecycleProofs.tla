-------------------------- MODULE LifecycleProofs --------------------------
(***************************************************************************)
(* The lifecycle handlers keep the order of the statuses, as far as they   *)
(* do, and implement module Catalog.  A handler acts on what it read some  *)
(* steps ago; what makes that sound is that a definition only grows, that  *)
(* review ends in an approval and that a deleted API does not come back,   *)
(* which HandlerInv says of every handler under way.                       *)
(***************************************************************************)
EXTENDS Lifecycle, CatalogProofs

(* What a call that read REVIEW may count on when it writes.               *)
Reviewable(a) ==
    /\ a \in reviewed
    /\ status[a] \in {"REVIEW", "DELETED"} \/ approvals[a] > 0

HandlerInv ==
    \A h \in AdminCalls : doing[h] # "idle" =>
        /\ job[h].api \in APIs
        /\ status[job[h].api] # "ABSENT"
        /\ seen[h].def.row \in 1 .. definition[job[h].api]
        /\ seen[h].status = "REVIEW" => Reviewable(job[h].api)
        /\ doing[h] = "write" =>
              \/ status[job[h].api] = "DELETED"
              \/ seen[h].def.params \in seen[h].def.row .. definition[job[h].api]

IInv == LifecycleTypeOK /\ CatalogInv /\ HandlerInv

(* A definition only grows, a deleted API stays deleted, one that was      *)
(* there does not become absent, and review ends in an approval.           *)
LEMMA StoreStepGrows ==
    ASSUME NEW a \in APIs, CatalogTypeOK, StoreStep(a), NEW b \in APIs
    PROVE  /\ definition[b] \in Nat /\ definition'[b] \in Nat
           /\ definition[b] <= definition'[b]
           /\ status[b] # "ABSENT" => status'[b] # "ABSENT"
           /\ status[b] = "DELETED" => status'[b] = "DELETED"
           /\ Reviewable(b) => Reviewable(b)'
<1> USE CatalogAssumption DEF CatalogTypeOK, Versions, Reviewable
<1>1. CASE CreateAPI(a) BY <1>1 DEF CreateAPI
<1>2. CASE UpdateAPI(a) BY <1>2 DEF UpdateAPI, StatusAfterEdit, Exists
<1>3. CASE DeleteAPI(a) BY <1>3 DEF DeleteAPI
<1>4. CASE SetApproved(a) BY <1>4 DEF SetApproved, Exists
<1>5. ASSUME NEW s \in Snapshots, s.row \in Versions, AddRevision(a, s)
      PROVE  /\ definition' = definition
             /\ status[b] # "ABSENT" => status'[b] # "ABSENT"
             /\ status[b] = "DELETED" => status'[b] = "DELETED"
             /\ Reviewable(b) => Reviewable(b)'
  BY <1>5 DEF AddRevision, Publishable
<1> QED BY <1>1, <1>2, <1>3, <1>4, <1>5 DEF StoreStep

(* Steps on the catalog do not disturb what is under way.                  *)
LEMMA HandlersKept ==
    ASSUME LifecycleTypeOK, HandlerInv, NEW a \in APIs, StoreStep(a), NEW h \in AdminCalls,
           doing'[h] # "idle", doing'[h] = doing[h], job'[h] = job[h], seen'[h] = seen[h]
    PROVE  /\ job'[h].api \in APIs
           /\ status'[job'[h].api] # "ABSENT"
           /\ seen'[h].def.row \in 1 .. definition'[job'[h].api]
           /\ seen'[h].status = "REVIEW" => Reviewable(job[h].api)'
           /\ doing'[h] = "write" =>
                 \/ status'[job'[h].api] = "DELETED"
                 \/ seen'[h].def.params \in seen'[h].def.row .. definition'[job'[h].api]
<1> DEFINE b == job[h].api
<1>1. b \in APIs BY DEF HandlerInv
<1>2. /\ definition[b] \in Nat /\ definition'[b] \in Nat
      /\ definition[b] <= definition'[b]
      /\ status[b] # "ABSENT" => status'[b] # "ABSENT"
      /\ status[b] = "DELETED" => status'[b] = "DELETED"
      /\ Reviewable(b) => Reviewable(b)'
  BY <1>1, StoreStepGrows DEF LifecycleTypeOK
<1> QED BY <1>1, <1>2 DEF HandlerInv

(* When a handler publishes, what it has read is a snapshot of the past;   *)
(* when it approves, what it approves has been in review.                  *)
LEMMA HandlerImplements ==
    ASSUME IInv, NEW h \in AdminCalls
    PROVE  /\ ApproveAPI(h) => job[h].api \in APIs /\ Approve(job[h].api)
           /\ PublishAPI(h) => /\ job[h].api \in APIs
                               /\ seen[h].def \in Snapshots /\ seen[h].def.row \in Versions
                               /\ Publish(job[h].api, seen[h].def)
<1>1. ASSUME ApproveAPI(h) PROVE job[h].api \in APIs /\ Approve(job[h].api)
  <2>1. seen[h].status = "REVIEW" BY <1>1 DEF ApproveAPI, Checked, CanTransition
  <2>2. job[h].api \in APIs /\ Reviewable(job[h].api)
    BY <1>1, <2>1 DEF ApproveAPI, Checked, IInv, HandlerInv
  <2> QED BY <1>1, <2>2 DEF ApproveAPI, SetApproved, Exists, Approve, Reviewable
<1>2. ASSUME PublishAPI(h)
      PROVE  /\ job[h].api \in APIs
             /\ seen[h].def \in Snapshots /\ seen[h].def.row \in Versions
             /\ Publish(job[h].api, seen[h].def)
  <2>1. status[job[h].api] = "APPROVED" BY <1>2 DEF PublishAPI, AddRevision, Publishable
  <2>2. /\ job[h].api \in APIs
        /\ seen[h].def.row \in 1 .. definition[job[h].api]
        /\ seen[h].def.params \in seen[h].def.row .. definition[job[h].api]
    BY <1>2, <2>1 DEF PublishAPI, Checked, IInv, HandlerInv
  <2>3. seen[h].def \in Snapshots BY DEF IInv, LifecycleTypeOK
  <2>4. definition[job[h].api] \in 1 .. MaxVersion
    BY <2>2 DEF IInv, CatalogInv, CatalogTypeOK, Versions
  <2>5. seen[h].def.row \in Versions BY <2>2, <2>4, CatalogAssumption DEF Versions
  <2> QED BY <1>2, <2>2, <2>3, <2>5 DEF PublishAPI, Publish, PastSnapshot
<1> QED BY <1>1, <1>2

(* Every step of the specification is one of the store, with a handler     *)
(* that returns or none, or leaves the catalog alone.                      *)
LEMMA NextCases ==
    ASSUME IInv, LifecycleNext
    PROVE  \/ \E a \in APIs : (CreateAPI(a) \/ UpdateAPI(a) \/ DeleteAPI(a)) /\ StoreStep(a) /\ UNCHANGED handling
           \/ \E h \in AdminCalls, a \in APIs : Approve(a) /\ StoreStep(a) /\ Return(h)
           \/ \E h \in AdminCalls, a \in APIs : (\E s \in Snapshots : Publish(a, s)) /\ StoreStep(a) /\ Return(h)
           \/ \E h \in AdminCalls : Return(h) /\ UNCHANGED catalogVars
           \/ \E h \in AdminCalls, a \in APIs, to \in Targets : GetRow(h, a, to)
           \/ \E h \in AdminCalls : GetParameters(h)
<1>1. CASE \E a \in APIs : (CreateAPI(a) \/ UpdateAPI(a) \/ DeleteAPI(a)) /\ UNCHANGED handling
  BY <1>1 DEF StoreStep
<1>2. ASSUME NEW h \in AdminCalls, ApproveAPI(h)
      PROVE  \E a \in APIs : Approve(a) /\ StoreStep(a) /\ Return(h)
  BY <1>2, HandlerImplements DEF StoreStep, ApproveAPI, Approve
<1>3. ASSUME NEW h \in AdminCalls, PublishAPI(h)
      PROVE  \E a \in APIs : (\E s \in Snapshots : Publish(a, s)) /\ StoreStep(a) /\ Return(h)
  BY <1>3, HandlerImplements DEF StoreStep, PublishAPI, Publish
<1>4. ASSUME NEW h \in AdminCalls, Refuse(h) \/ SetAPIStatus(h)
      PROVE  Return(h) /\ UNCHANGED catalogVars
  BY <1>4 DEF Refuse, SetAPIStatus
<1> QED BY <1>1, <1>2, <1>3, <1>4 DEF LifecycleNext

(* The inductive step.                                                     *)
LEMMA LifecycleStep == IInv /\ [LifecycleNext]_lifecycleVars => IInv'
<1> SUFFICES ASSUME IInv, [LifecycleNext]_lifecycleVars PROVE IInv'
  OBVIOUS
<1>0. LifecycleTypeOK /\ CatalogInv /\ HandlerInv /\ CatalogTypeOK BY DEF IInv, LifecycleTypeOK
<1>1. ASSUME NEW a \in APIs, StoreStep(a), UNCHANGED handling PROVE IInv'
  <2>1. CatalogInv' BY <1>0, <1>1, StoreStepInv
  <2>2. LifecycleTypeOK' BY <1>0, <1>1, <2>1 DEF LifecycleTypeOK, handling, CatalogInv
  <2>3. HandlerInv'
    <3> SUFFICES ASSUME NEW h \in AdminCalls, doing'[h] # "idle"
                 PROVE  /\ job'[h].api \in APIs
                        /\ status'[job'[h].api] # "ABSENT"
                        /\ seen'[h].def.row \in 1 .. definition'[job'[h].api]
                        /\ seen'[h].status = "REVIEW" => Reviewable(job[h].api)'
                        /\ doing'[h] = "write" =>
                              \/ status'[job'[h].api] = "DELETED"
                              \/ seen'[h].def.params \in seen'[h].def.row .. definition'[job'[h].api]
      BY DEF HandlerInv
    <3>1. doing'[h] = doing[h] /\ job'[h] = job[h] /\ seen'[h] = seen[h] BY <1>1 DEF handling
    <3> QED BY <1>0, <1>1, <3>1, HandlersKept
  <2> QED BY <2>1, <2>2, <2>3 DEF IInv
<1>2. ASSUME NEW k \in AdminCalls, NEW a \in APIs, StoreStep(a), Return(k) PROVE IInv'
  <2>1. CatalogInv' BY <1>0, <1>2, StoreStepInv
  <2>2. LifecycleTypeOK'
    <3>1. NothingSeen \in [def : Snapshots, status : Statuses]
      BY DEF NothingSeen, EmptySnapshot, Snapshots, Statuses, NoVersion
    <3> QED BY <1>0, <1>2, <2>1, <3>1 DEF LifecycleTypeOK, Return, CatalogInv
  <2>3. HandlerInv'
    <3> SUFFICES ASSUME NEW h \in AdminCalls, doing'[h] # "idle"
                 PROVE  /\ job'[h].api \in APIs
                        /\ status'[job'[h].api] # "ABSENT"
                        /\ seen'[h].def.row \in 1 .. definition'[job'[h].api]
                        /\ seen'[h].status = "REVIEW" => Reviewable(job[h].api)'
                        /\ doing'[h] = "write" =>
                              \/ status'[job'[h].api] = "DELETED"
                              \/ seen'[h].def.params \in seen'[h].def.row .. definition'[job'[h].api]
      BY DEF HandlerInv
    <3>1. h # k BY <1>0, <1>2 DEF Return, LifecycleTypeOK
    <3>2. doing'[h] = doing[h] /\ job'[h] = job[h] /\ seen'[h] = seen[h]
      BY <1>0, <1>2, <3>1 DEF Return, LifecycleTypeOK
    <3> QED BY <1>0, <1>2, <3>2, HandlersKept
  <2> QED BY <2>1, <2>2, <2>3 DEF IInv
<1>3. ASSUME UNCHANGED catalogVars PROVE CatalogInv'
  BY <1>0, <1>3 DEF CatalogInv, CatalogTypeOK, History, PublishedOnApproval, ApprovedLeavesReview,
                   catalogVars
<1>4. ASSUME NEW k \in AdminCalls, Return(k), UNCHANGED catalogVars PROVE IInv'
  <2>1. LifecycleTypeOK'
    <3>1. NothingSeen \in [def : Snapshots, status : Statuses]
      BY DEF NothingSeen, EmptySnapshot, Snapshots, Statuses, NoVersion
    <3> QED BY <1>0, <1>3, <1>4, <3>1 DEF LifecycleTypeOK, Return, CatalogInv
  <2>2. HandlerInv' BY <1>0, <1>4 DEF HandlerInv, LifecycleTypeOK, Return, catalogVars, Reviewable
  <2> QED BY <1>3, <1>4, <2>1, <2>2 DEF IInv
<1>5. ASSUME NEW k \in AdminCalls, NEW a \in APIs, NEW to \in Targets, GetRow(k, a, to)
      PROVE  IInv'
  <2>0. UNCHANGED catalogVars BY <1>5 DEF GetRow
  <2>1. definition[a] \in Versions /\ status[a] \in Statuses /\ definition[a] \in Nat /\ definition[a] >= 1
    BY <1>0, CatalogAssumption DEF CatalogTypeOK, Versions
  <2>2. LifecycleTypeOK'
    <3>1. [def |-> [row |-> definition[a], params |-> NoVersion], status |-> status[a]]
             \in [def : Snapshots, status : Statuses]
      BY <2>1 DEF Snapshots
    <3>2. [api |-> a, to |-> to] \in [api : APIs, to : Targets] OBVIOUS
    <3> QED BY <1>0, <1>3, <1>5, <2>0, <3>1, <3>2 DEF LifecycleTypeOK, GetRow, CatalogInv
  <2>3. HandlerInv'
    <3> SUFFICES ASSUME NEW h \in AdminCalls, doing'[h] # "idle"
                 PROVE  /\ job'[h].api \in APIs
                        /\ status[job'[h].api] # "ABSENT"
                        /\ seen'[h].def.row \in 1 .. definition[job'[h].api]
                        /\ seen'[h].status = "REVIEW" => Reviewable(job'[h].api)
                        /\ doing'[h] = "write" =>
                              \/ status[job'[h].api] = "DELETED"
                              \/ seen'[h].def.params \in seen'[h].def.row .. definition[job'[h].api]
      BY <2>0 DEF HandlerInv, catalogVars, Reviewable
    <3>1. CASE h = k
      <4>1. /\ doing'[k] = "params" /\ job'[k].api = a /\ Exists(a)
            /\ seen'[k].def.row = definition[a] /\ seen'[k].status = status[a]
        BY <1>0, <1>5 DEF GetRow, LifecycleTypeOK
      <4> QED BY <1>0, <2>1, <3>1, <4>1 DEF Exists, CatalogInv, History, Reviewable
    <3>2. CASE h # k
      <4>1. doing'[h] = doing[h] /\ job'[h] = job[h] /\ seen'[h] = seen[h]
        BY <1>0, <1>5, <3>2 DEF GetRow, LifecycleTypeOK
      <4> QED BY <1>0, <4>1 DEF HandlerInv
    <3> QED BY <3>1, <3>2
  <2> QED BY <1>3, <2>0, <2>2, <2>3 DEF IInv
<1>6. ASSUME NEW k \in AdminCalls, GetParameters(k) PROVE IInv'
  <2> DEFINE a == job[k].api
  <2>0. UNCHANGED catalogVars /\ UNCHANGED job /\ doing[k] = "params"
    BY <1>6 DEF GetParameters
  <2>1. a \in APIs /\ seen[k].def.row \in 1 .. definition[a] /\ status[a] # "ABSENT"
    BY <1>0, <2>0 DEF HandlerInv
  <2>2. definition[a] \in Versions /\ definition[a] \in Nat
    BY <1>0, <2>1, CatalogAssumption DEF CatalogTypeOK, Versions
  <2> DEFINE p == IF Exists(a) THEN definition[a] ELSE NoVersion
  <2>3. seen[k] \in [def : Snapshots, status : Statuses] BY <1>0 DEF LifecycleTypeOK
  <2>4. [def |-> [row |-> seen[k].def.row, params |-> p], status |-> seen[k].status]
           \in [def : Snapshots, status : Statuses]
    BY <2>2, <2>3 DEF Snapshots
  <2>5. /\ doing' = [doing EXCEPT ![k] = "write"]
        /\ seen' = [seen EXCEPT ![k] = [def |-> [row |-> seen[k].def.row, params |-> p],
                                        status |-> seen[k].status]]
    BY <1>6 DEF GetParameters
  <2>6. LifecycleTypeOK'
    BY <1>0, <1>3, <2>0, <2>4, <2>5 DEF LifecycleTypeOK, CatalogInv
  <2>7. HandlerInv'
    <3> SUFFICES ASSUME NEW h \in AdminCalls, doing'[h] # "idle"
                 PROVE  /\ job[h].api \in APIs
                        /\ status[job[h].api] # "ABSENT"
                        /\ seen'[h].def.row \in 1 .. definition[job[h].api]
                        /\ seen'[h].status = "REVIEW" => Reviewable(job[h].api)
                        /\ doing'[h] = "write" =>
                              \/ status[job[h].api] = "DELETED"
                              \/ seen'[h].def.params \in seen'[h].def.row .. definition[job[h].api]
      BY <2>0 DEF HandlerInv, catalogVars, Reviewable
    <3>1. CASE h = k
      <4>1. seen'[k].def.row = seen[k].def.row /\ seen'[k].def.params = p /\ seen'[k].status = seen[k].status
        BY <1>0, <2>5 DEF LifecycleTypeOK
      <4>2. status[a] = "DELETED" \/ p \in seen[k].def.row .. definition[a]
        BY <2>1, <2>2 DEF Exists
      <4>3. seen[k].status = "REVIEW" => Reviewable(a) BY <1>0, <2>0 DEF HandlerInv
      <4> QED BY <2>1, <3>1, <4>1, <4>2, <4>3
    <3>2. CASE h # k
      <4>1. doing'[h] = doing[h] /\ seen'[h] = seen[h] BY <1>0, <2>5, <3>2 DEF LifecycleTypeOK
      <4> QED BY <1>0, <4>1 DEF HandlerInv
    <3> QED BY <3>1, <3>2
  <2> QED BY <1>3, <2>0, <2>6, <2>7 DEF IInv
<1>7. CASE UNCHANGED lifecycleVars
  BY <1>0, <1>7, <1>3 DEF IInv, LifecycleTypeOK, HandlerInv, CatalogTypeOK, Reviewable,
                          lifecycleVars, handling, catalogVars
<1>8. CASE LifecycleNext
  BY <1>8, <1>1, <1>2, <1>4, <1>5, <1>6, NextCases
<1> QED BY <1>7, <1>8

(* Nothing is under way in the beginning.                                  *)
LEMMA LifecycleStarts == LifecycleInit => IInv
<1> SUFFICES ASSUME LifecycleInit PROVE IInv
  OBVIOUS
<1>1. CatalogInv BY CatalogInitInv DEF LifecycleInit
<1>2. NothingSeen \in [def : Snapshots, status : Statuses]
  BY DEF NothingSeen, EmptySnapshot, Snapshots, Statuses, NoVersion
<1>3. LifecycleTypeOK BY <1>1, <1>2 DEF LifecycleInit, LifecycleTypeOK, CatalogInv
<1>4. HandlerInv BY DEF LifecycleInit, HandlerInv
<1> QED BY <1>1, <1>3, <1>4 DEF IInv

(* The inductive invariant holds of every behaviour.                       *)
THEOREM LifecycleInductive == LifecycleSpec => []IInv
BY LifecycleStarts, LifecycleStep, PTL DEF LifecycleSpec

(* Catalog and handlers are well-typed.                                    *)
THEOREM LifecycleTyped == LifecycleSpec => []LifecycleTypeOK
<1>1. IInv => LifecycleTypeOK BY DEF IInv
<1> QED BY <1>1, LifecycleInductive, PTL

(* However many administrators approve and publish at once, there are      *)
(* never more revisions than approvals.                                    *)
THEOREM LifecyclePublishedOnApproval == LifecycleSpec => []PublishedOnApproval
<1>1. IInv => PublishedOnApproval BY DEF IInv, CatalogInv
<1> QED BY <1>1, LifecycleInductive, PTL

(* A step of the catalog changes a status as StatusOneWay says.            *)
LEMMA StoreStepOneWay ==
    ASSUME IInv, NEW a \in APIs, NEW b \in APIs, status'[b] # status[b],
           \/ CreateAPI(a) \/ UpdateAPI(a) \/ DeleteAPI(a) \/ Approve(a)
           \/ \E s \in Snapshots : Publish(a, s)
    PROVE  MovesOn(b) \/ ApprovedAgain(b)
<1> USE DEF CatalogTypeOK, MovesOn, ApprovedAgain
<1>0. CatalogTypeOK /\ ApprovedLeavesReview BY DEF IInv, CatalogInv
<1>1. CASE CreateAPI(a) BY <1>0, <1>1 DEF CreateAPI
<1>2. CASE UpdateAPI(a)
  <2>1. definition[b] \in Nat BY <1>0, CatalogAssumption DEF Versions
  <2> QED BY <1>0, <1>2, <2>1 DEF UpdateAPI, StatusAfterEdit
<1>3. CASE DeleteAPI(a) BY <1>0, <1>3 DEF DeleteAPI
<1>4. CASE Approve(a)
  <2>1. b = a /\ status'[b] = "APPROVED" /\ status[b] # "DELETED"
    BY <1>0, <1>4 DEF Approve, SetApproved, Exists
  <2>2. CASE status[b] = "REVIEW" BY <2>1, <2>2 DEF Onward
  <2>3. CASE approvals[b] > 0 BY <1>0, <2>1, <2>3 DEF ApprovedLeavesReview
  <2> QED BY <1>4, <2>1, <2>2, <2>3 DEF Approve
<1>5. ASSUME NEW s \in Snapshots, Publish(a, s) PROVE <<status[b], status'[b]>> \in Onward
  <2>1. status[b] = "APPROVED" /\ status'[b] = "PUBLISHED"
    BY <1>0, <1>5 DEF Publish, AddRevision, Publishable
  <2> QED BY <2>1 DEF Onward
<1> QED BY <1>1, <1>2, <1>3, <1>4, <1>5

(* However stale what the handlers have read, a status goes against the    *)
(* one-way lifecycle of canTransitionAPIStatus only by an approval that    *)
(* comes after another one, and what is withdrawn is never revived.        *)
THEOREM LifecycleOneWay == LifecycleSpec => StatusOneWay
<1>1. IInv /\ [LifecycleNext]_lifecycleVars =>
          [\A a \in APIs : status'[a] # status[a] => MovesOn(a) \/ ApprovedAgain(a)]_lifecycleVars
  <2> SUFFICES ASSUME IInv, LifecycleNext, NEW b \in APIs, status'[b] # status[b]
               PROVE  MovesOn(b) \/ ApprovedAgain(b)
    OBVIOUS
  <2>1. ~UNCHANGED catalogVars BY DEF catalogVars
  <2>2. \/ \E a \in APIs : CreateAPI(a) \/ UpdateAPI(a) \/ DeleteAPI(a) \/ Approve(a)
        \/ \E a \in APIs : \E s \in Snapshots : Publish(a, s)
    BY <2>1, NextCases DEF GetRow, GetParameters
  <2>3. PICK a \in APIs : \/ CreateAPI(a) \/ UpdateAPI(a) \/ DeleteAPI(a) \/ Approve(a)
                          \/ \E s \in Snapshots : Publish(a, s)
    BY <2>2
  <2> QED BY <2>3, StoreStepOneWay
<1> QED BY <1>1, LifecycleInductive, PTL DEF LifecycleSpec, StatusOneWay

(* The handlers do to the catalog what module RouteSync takes for granted: *)
(* although they check one status and write over another, only what has    *)
(* been in review is approved, the first time in review, and only what a   *)
(* definition has said becomes a revision.                                 *)
THEOREM LifecycleImplementsCatalog == LifecycleSpec => CatalogSpec
<1>1. LifecycleInit => CatalogInit BY DEF LifecycleInit
<1>2. IInv /\ [LifecycleNext]_lifecycleVars => [CatalogNext]_catalogVars
  <2> SUFFICES ASSUME IInv, [LifecycleNext]_lifecycleVars PROVE [CatalogNext]_catalogVars
    OBVIOUS
  <2>1. CASE UNCHANGED lifecycleVars BY <2>1 DEF lifecycleVars
  <2>2. CASE LifecycleNext
    <3>1. \/ \E a \in APIs : CreateAPI(a) \/ UpdateAPI(a) \/ DeleteAPI(a) \/ Approve(a)
          \/ \E a \in APIs : \E s \in Snapshots : Publish(a, s)
          \/ UNCHANGED catalogVars
      BY <2>2, NextCases DEF GetRow, GetParameters
    <3> QED BY <3>1 DEF CatalogNext
  <2> QED BY <2>1, <2>2
<1> QED BY <1>1, <1>2, LifecycleInductive, PTL DEF LifecycleSpec, CatalogSpec
=============================================================================
