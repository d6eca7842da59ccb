------------------------------ MODULE Catalog ------------------------------
(***************************************************************************)
(* API definitions and their revisions as the metadata database holds them *)
(* (internal/store/catalog.go), one step per committed statement or        *)
(* transaction.  This is what the administration (module Lifecycle) does   *)
(* to the catalog and what a gateway (module RouteSync) reads from it.     *)
(*                                                                         *)
(* What a definition says is a number, raised by every edit.  Its row and  *)
(* its parameters are written together, in one transaction, and read one   *)
(* after the other, so that a reader may combine two of them.              *)
(***************************************************************************)
EXTENDS Naturals, Sequences

CONSTANTS
    APIs,
    InitialStatuses,  \* statuses in the database the service starts with
    MaxVersion          \* bound: what a definition may say

(* Revisions, and the status APPROVED, came with a later migration than    *)
(* the other statuses (migrations/0003 and 0007).                          *)
ASSUME CatalogAssumption ==
    /\ InitialStatuses \subseteq
          {"ABSENT", "DRAFT", "REVIEW", "PUBLISHED", "DISABLED", "ARCHIVED"}
    /\ MaxVersion \in Nat \ {0}

VARIABLES
    status,      \* api_definitions.status; "ABSENT" and "DELETED": no row
    definition,  \* what the row and its parameters say
    revisions,   \* the snapshots in api_revisions, oldest first
    \* History:
    reviewed,    \* APIs that have been in REVIEW
    approvals,   \* how often each API was approved
    released     \* what each definition said when it was PUBLISHED

catalogVars == <<status, definition, revisions, reviewed, approvals, released>>

Statuses == {"ABSENT", "DRAFT", "REVIEW", "APPROVED", "PUBLISHED",
             "DISABLED", "ARCHIVED", "DELETED"}
Versions == 1 .. MaxVersion
NoVersion == 0
Snapshots == [row : Versions \cup {NoVersion}, params : Versions \cup {NoVersion}]
EmptySnapshot == [row |-> NoVersion, params |-> NoVersion]

CatalogTypeOK ==
    /\ status \in [APIs -> Statuses]
    /\ definition \in [APIs -> Versions]
    /\ revisions \in [APIs -> Seq(Snapshots)]
    /\ reviewed \subseteq APIs
    /\ approvals \in [APIs -> Nat]
    /\ released \in [APIs -> SUBSET Versions]

CatalogInit ==
    /\ status \in [APIs -> InitialStatuses]
    /\ definition = [a \in APIs |-> 1]
    /\ revisions = [a \in APIs |-> <<>>]
    /\ reviewed = {a \in APIs : status[a] = "REVIEW"}
    /\ approvals = [a \in APIs |-> 0]
    /\ released = [a \in APIs |-> IF status[a] = "PUBLISHED" THEN {1} ELSE {}]

Exists(a) == status[a] \notin {"ABSENT", "DELETED"}

(* CreateAPIWithParameters.  An id is not used again after a deletion.     *)
CreateAPI(a) ==
    /\ status[a] = "ABSENT"
    /\ status' = [status EXCEPT ![a] = "DRAFT"]
    /\ UNCHANGED <<definition, revisions, reviewed, approvals, released>>

(* Fault: a published definition stays published.                          *)
StatusKept(s) == s

StatusAfterEdit(s) == IF s = "PUBLISHED" THEN "DRAFT" ELSE s

(* UpdateAPIWithParameters, whatever the status.                           *)
UpdateAPI(a) ==
    /\ Exists(a) /\ definition[a] < MaxVersion
    /\ definition' = [definition EXCEPT ![a] = @ + 1]
    /\ status' = [status EXCEPT ![a] = StatusAfterEdit(@)]
    /\ UNCHANGED <<revisions, reviewed, approvals, released>>

(* DeleteAPI: the revisions go with the row.                               *)
DeleteAPI(a) ==
    /\ Exists(a)
    /\ status' = [status EXCEPT ![a] = "DELETED"]
    /\ revisions' = [revisions EXCEPT ![a] = <<>>]
    /\ UNCHANGED <<definition, reviewed, approvals, released>>

(* ApproveAPI's UPDATE, whatever the status the row has by then.           *)
SetApproved(a) ==
    /\ Exists(a)
    /\ status' = [status EXCEPT ![a] = "APPROVED"]
    /\ approvals' = [approvals EXCEPT ![a] = @ + 1]
    /\ UNCHANGED <<definition, revisions, reviewed, released>>

(* Fault: the UPDATE is not conditional on the status.                     *)
PublishableIfPresent(a) == Exists(a)

(* ... AND status='APPROVED'                                               *)
Publishable(a) == status[a] = "APPROVED"

(* PublishAPI's transaction with snapshot s.                               *)
AddRevision(a, s) ==
    /\ Publishable(a)
    /\ revisions' = [revisions EXCEPT ![a] = Append(@, s)]
    /\ status' = [status EXCEPT ![a] = "PUBLISHED"]
    /\ released' = [released EXCEPT ![a] = @ \cup {definition[a], s.row}]
    /\ UNCHANGED <<definition, reviewed, approvals>>

(* A row of the past with parameters at least as recent.                   *)
PastSnapshot(a, s) ==
    /\ s.row \in 1 .. definition[a]
    /\ s.params \in s.row .. definition[a]

(* What callers of the store add.  The first approval is of a definition   *)
(* in review; a later one may be by a call that read REVIEW before another *)
(* approved, and overwrites whatever has become of the definition since.   *)
(* A revision is made of what the definition has said, its row and its     *)
(* parameters not necessarily at the same time.                            *)
Approve(a) ==
    /\ a \in reviewed
    /\ status[a] = "REVIEW" \/ approvals[a] > 0
    /\ SetApproved(a)
Publish(a, s) == PastSnapshot(a, s) /\ AddRevision(a, s)

CatalogNext ==
    \E a \in APIs :
        \/ CreateAPI(a) \/ UpdateAPI(a) \/ DeleteAPI(a) \/ Approve(a)
        \/ \E s \in Snapshots : Publish(a, s)

CatalogSpec == CatalogInit /\ [][CatalogNext]_catalogVars

-----------------------------------------------------------------------------
(* One approval pays for one publication, however many administrators      *)
(* press approve and publish at the same time: there are never more        *)
(* revisions than approvals, and an approved definition has one to spare.  *)
PublishedOnApproval ==
    \A a \in APIs :
        Len(revisions[a]) + (IF status[a] = "APPROVED" THEN 1 ELSE 0) <= approvals[a]
=============================================================================
