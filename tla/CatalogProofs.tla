--------------------------- MODULE CatalogProofs ---------------------------
(***************************************************************************)
(* What every step on the catalog preserves, for module Lifecycle, whose   *)
(* handlers take these steps, and module RouteSync, which reads what they  *)
(* leave behind.                                                           *)
(***************************************************************************)
EXTENDS Catalog, SequenceTheorems, TLAPS

(* The statements of the store on one API, without the conditions that     *)
(* their callers add.                                                      *)
StoreStep(a) ==
    \/ CreateAPI(a) \/ UpdateAPI(a) \/ DeleteAPI(a) \/ SetApproved(a)
    \/ \E s \in Snapshots : s.row \in Versions /\ AddRevision(a, s)

(* What is in review counts as reviewed, what is published as released, in *)
(* the definition and in the revisions.                                    *)
History ==
    \A a \in APIs :
        /\ status[a] = "REVIEW" => a \in reviewed
        /\ status[a] = "PUBLISHED" => definition[a] \in released[a]
        /\ \A i \in 1 .. Len(revisions[a]) : revisions[a][i].row \in released[a]

(* What was approved once is not in review any more, nor withdrawn.        *)
ApprovedLeavesReview ==
    \A a \in APIs : approvals[a] > 0 =>
        status[a] \in {"DRAFT", "APPROVED", "PUBLISHED", "DELETED"}

CatalogInv == CatalogTypeOK /\ History /\ PublishedOnApproval /\ ApprovedLeavesReview

(* Any database the service may start with satisfies the invariant.        *)
LEMMA CatalogInitInv == ASSUME CatalogInit PROVE CatalogInv
<1> USE CatalogAssumption
<1>1. /\ status \in [APIs -> Statuses]
      /\ definition = [a \in APIs |-> 1] /\ 1 \in Versions
      /\ revisions = [a \in APIs |-> <<>>]
      /\ reviewed = {a \in APIs : status[a] = "REVIEW"}
      /\ approvals = [a \in APIs |-> 0]
      /\ released = [a \in APIs |-> IF status[a] = "PUBLISHED" THEN {1} ELSE {}]
  <2>1. InitialStatuses \subseteq Statuses BY DEF Statuses
  <2>2. status \in [APIs -> Statuses] BY <2>1 DEF CatalogInit
  <2>3. 1 \in Versions BY DEF Versions
  <2> QED BY <2>2, <2>3 DEF CatalogInit
<1>2. <<>> \in Seq(Snapshots) /\ Len(<<>>) = 0 /\ 1 .. 0 = {}
  OBVIOUS
<1>3. CatalogTypeOK BY <1>1, <1>2 DEF CatalogTypeOK
<1>4. History
  <2> SUFFICES ASSUME NEW a \in APIs
               PROVE  /\ status[a] = "REVIEW" => a \in reviewed
                      /\ status[a] = "PUBLISHED" => definition[a] \in released[a]
                      /\ \A i \in 1 .. Len(revisions[a]) : revisions[a][i].row \in released[a]
    BY DEF History
  <2>1. Len(revisions[a]) = 0 BY <1>1, <1>2
  <2>2. \A i \in 1 .. Len(revisions[a]) : revisions[a][i].row \in released[a]
    BY <1>2, <2>1
  <2> QED BY <1>1, <2>2
<1>5. PublishedOnApproval
  <2> SUFFICES ASSUME NEW a \in APIs
               PROVE  Len(revisions[a]) + (IF status[a] = "APPROVED" THEN 1 ELSE 0)
                         <= approvals[a]
    BY DEF PublishedOnApproval
  <2>1. status[a] # "APPROVED" BY DEF CatalogInit
  <2> QED BY <1>1, <1>2, <2>1
<1>6. ApprovedLeavesReview BY <1>1 DEF ApprovedLeavesReview
<1> QED BY <1>3, <1>4, <1>5, <1>6 DEF CatalogInv

(* Each statement keeps the types: a version never passes its bound and a  *)
(* status is one the table knows.                                          *)
LEMMA StoreStepType ==
    ASSUME NEW a \in APIs, CatalogTypeOK, StoreStep(a)
    PROVE  CatalogTypeOK'
<1> USE CatalogAssumption DEF CatalogTypeOK, Statuses, Versions
<1>1. CASE CreateAPI(a) BY <1>1 DEF CreateAPI
<1>2. CASE UpdateAPI(a)
  <2>1. definition[a] + 1 \in 1 .. MaxVersion BY <1>2 DEF UpdateAPI
  <2> QED BY <1>2, <2>1 DEF UpdateAPI, StatusAfterEdit
<1>3. CASE DeleteAPI(a) BY <1>3 DEF DeleteAPI
<1>4. CASE SetApproved(a) BY <1>4 DEF SetApproved
<1>5. ASSUME NEW s \in Snapshots, s.row \in Versions, AddRevision(a, s)
      PROVE  CatalogTypeOK'
  <2>1. Append(revisions[a], s) \in Seq(Snapshots) BY AppendProperties
  <2> QED BY <1>5, <2>1 DEF AddRevision
<1> QED BY <1>1, <1>2, <1>3, <1>4, <1>5 DEF StoreStep

(* No statement brings a definition back into review, publishes one        *)
(* without recording it, or rewrites a revision.                           *)
LEMMA StoreStepHistory ==
    ASSUME NEW a \in APIs, CatalogTypeOK, History, StoreStep(a)
    PROVE  History'
<1> USE CatalogAssumption DEF CatalogTypeOK, History
<1>1. CASE CreateAPI(a) BY <1>1 DEF CreateAPI
<1>2. CASE UpdateAPI(a) BY <1>2 DEF UpdateAPI, StatusAfterEdit
<1>3. CASE DeleteAPI(a) BY <1>3 DEF DeleteAPI
<1>4. CASE SetApproved(a) BY <1>4 DEF SetApproved
<1>5. ASSUME NEW s \in Snapshots, s.row \in Versions, AddRevision(a, s)
      PROVE  History'
  <2> SUFFICES ASSUME NEW b \in APIs
               PROVE  /\ status'[b] = "REVIEW" => b \in reviewed'
                      /\ status'[b] = "PUBLISHED" => definition'[b] \in released'[b]
                      /\ \A i \in 1 .. Len(revisions'[b]) :
                            revisions'[b][i].row \in released'[b]
    OBVIOUS
  <2>1. CASE b = a
    <3>1. revisions'[a] = Append(revisions[a], s) /\ released'[a] = released[a] \cup {definition[a], s.row}
      BY <1>5 DEF AddRevision
    <3>2. /\ Len(Append(revisions[a], s)) = Len(revisions[a]) + 1
          /\ \A i \in 1 .. Len(revisions[a]) : Append(revisions[a], s)[i] = revisions[a][i]
          /\ Append(revisions[a], s)[Len(revisions[a]) + 1] = s
      BY AppendProperties
    <3>3. \A i \in 1 .. Len(revisions'[a]) : revisions'[a][i].row \in released'[a]
      BY <3>1, <3>2, LenProperties
    <3> QED BY <1>5, <2>1, <3>1, <3>3 DEF AddRevision
  <2>2. CASE b # a BY <1>5, <2>2 DEF AddRevision
  <2> QED BY <2>1, <2>2
<1> QED BY <1>1, <1>2, <1>3, <1>4, <1>5 DEF StoreStep

(* An approval is spent by the publication it allows.                      *)
LEMMA StoreStepApproval ==
    ASSUME NEW a \in APIs, CatalogTypeOK, PublishedOnApproval, StoreStep(a)
    PROVE  PublishedOnApproval'
<1> USE DEF CatalogTypeOK, PublishedOnApproval
<1>0. \A b \in APIs : Len(revisions[b]) \in Nat /\ approvals[b] \in Nat BY LenProperties
<1>1. CASE CreateAPI(a) BY <1>0, <1>1 DEF CreateAPI
<1>2. CASE UpdateAPI(a) BY <1>0, <1>2 DEF UpdateAPI, StatusAfterEdit
<1>3. CASE DeleteAPI(a)
  <2>1. Len(<<>>) = 0 OBVIOUS
  <2>2. /\ \A b \in APIs \ {a} : revisions'[b] = revisions[b] /\ status'[b] = status[b]
        /\ revisions'[a] = <<>> /\ status'[a] = "DELETED" /\ approvals' = approvals
    BY <1>3 DEF DeleteAPI
  <2>3. ASSUME NEW b \in APIs
        PROVE  Len(revisions'[b]) + (IF status'[b] = "APPROVED" THEN 1 ELSE 0)
                  <= approvals'[b]
    <3>1. CASE b = a
      <4>1. Len(revisions'[b]) = 0 /\ status'[b] # "APPROVED" /\ approvals'[b] \in Nat
        BY <1>0, <2>1, <2>2, <3>1
      <4> QED BY <4>1
    <3>2. CASE b # a
      <4>1. revisions'[b] = revisions[b] /\ status'[b] = status[b] /\ approvals'[b] = approvals[b]
        BY <2>2, <3>2
      <4>2. Len(revisions[b]) + (IF status[b] = "APPROVED" THEN 1 ELSE 0) <= approvals[b]
        OBVIOUS
      <4> QED BY <4>1, <4>2
    <3> QED BY <3>1, <3>2
  <2> QED BY <2>3
<1>4. CASE SetApproved(a) BY <1>0, <1>4 DEF SetApproved, Exists
<1>5. ASSUME NEW s \in Snapshots, s.row \in Versions, AddRevision(a, s)
      PROVE  PublishedOnApproval'
  <2>1. Len(Append(revisions[a], s)) = Len(revisions[a]) + 1 BY AppendProperties
  <2>2. /\ \A b \in APIs \ {a} : revisions'[b] = revisions[b] /\ status'[b] = status[b]
        /\ revisions'[a] = Append(revisions[a], s) /\ status'[a] = "PUBLISHED"
        /\ approvals' = approvals /\ status[a] = "APPROVED"
    BY <1>5 DEF AddRevision, Publishable
  <2>3. ASSUME NEW b \in APIs
        PROVE  Len(revisions'[b]) + (IF status'[b] = "APPROVED" THEN 1 ELSE 0)
                  <= approvals'[b]
    <3>1. CASE b = a
      <4>1. /\ Len(revisions'[b]) = Len(revisions[b]) + 1
            /\ status'[b] # "APPROVED" /\ approvals'[b] = approvals[b]
        BY <2>1, <2>2, <3>1
      <4>2. Len(revisions[b]) + 1 <= approvals[b] BY <2>2, <3>1
      <4> QED BY <1>0, <4>1, <4>2
    <3>2. CASE b # a
      <4>1. revisions'[b] = revisions[b] /\ status'[b] = status[b] /\ approvals'[b] = approvals[b]
        BY <2>2, <3>2
      <4>2. Len(revisions[b]) + (IF status[b] = "APPROVED" THEN 1 ELSE 0) <= approvals[b]
        OBVIOUS
      <4> QED BY <4>1, <4>2
    <3> QED BY <3>1, <3>2
  <2> QED BY <2>3
<1> QED BY <1>1, <1>2, <1>3, <1>4, <1>5 DEF StoreStep

(* An approved definition is approved, published, edited and deleted, and  *)
(* nothing else becomes of it.                                             *)
LEMMA StoreStepLeaves ==
    ASSUME NEW a \in APIs, CatalogTypeOK, ApprovedLeavesReview, StoreStep(a)
    PROVE  ApprovedLeavesReview'
<1> USE DEF CatalogTypeOK, ApprovedLeavesReview
<1>1. CASE CreateAPI(a) BY <1>1 DEF CreateAPI
<1>2. CASE UpdateAPI(a) BY <1>2 DEF UpdateAPI, StatusAfterEdit
<1>3. CASE DeleteAPI(a) BY <1>3 DEF DeleteAPI
<1>4. CASE SetApproved(a) BY <1>4 DEF SetApproved
<1>5. ASSUME NEW s \in Snapshots, AddRevision(a, s) PROVE ApprovedLeavesReview'
  BY <1>5 DEF AddRevision
<1> QED BY <1>1, <1>2, <1>3, <1>4, <1>5 DEF StoreStep

(* The four together.                                                      *)
LEMMA StoreStepInv ==
    ASSUME NEW a \in APIs, CatalogInv, StoreStep(a)
    PROVE  CatalogInv'
BY StoreStepType, StoreStepHistory, StoreStepApproval, StoreStepLeaves DEF CatalogInv

(* What the service promises about the catalog implies that the steps are  *)
(* those of the store.                                                     *)
LEMMA CatalogNextIsStoreStep ==
    ASSUME CatalogTypeOK, CatalogNext
    PROVE  \E a \in APIs : StoreStep(a)
<1> USE DEF CatalogTypeOK, Versions
<1>1. PICK a \in APIs : \/ CreateAPI(a) \/ UpdateAPI(a) \/ DeleteAPI(a) \/ Approve(a)
                        \/ \E s \in Snapshots : Publish(a, s)
  BY DEF CatalogNext
<1>2. CASE CreateAPI(a) \/ UpdateAPI(a) \/ DeleteAPI(a) \/ Approve(a)
  BY <1>2 DEF Approve, StoreStep
<1>3. ASSUME NEW s \in Snapshots, Publish(a, s) PROVE StoreStep(a)
  <2>1. s.row \in 1 .. MaxVersion BY <1>3, CatalogAssumption DEF Publish, PastSnapshot
  <2> QED BY <1>3, <2>1 DEF Publish, StoreStep
<1> QED BY <1>1, <1>2, <1>3

(* The promise about the catalog is enough for one revision per approval.  *)
THEOREM CatalogPublishedOnApproval == CatalogSpec => []PublishedOnApproval
<1>1. CatalogInit => CatalogInv BY CatalogInitInv
<1>2. CatalogInv /\ [CatalogNext]_catalogVars => CatalogInv'
  <2>1. CASE CatalogInv /\ CatalogNext
    BY <2>1, CatalogNextIsStoreStep, StoreStepInv DEF CatalogInv
  <2>2. CASE CatalogInv /\ UNCHANGED catalogVars
    BY <2>2 DEF CatalogInv, CatalogTypeOK, History, PublishedOnApproval, ApprovedLeavesReview,
                catalogVars
  <2> QED BY <2>1, <2>2
<1>3. CatalogInv => PublishedOnApproval BY DEF CatalogInv
<1> QED BY <1>1, <1>2, <1>3, PTL DEF CatalogSpec
=============================================================================
