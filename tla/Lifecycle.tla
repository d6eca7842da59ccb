----------------------------- MODULE Lifecycle -----------------------------
(***************************************************************************)
(* The lifecycle handlers of the admin backend: publishAPI, approveAPI and *)
(* setAPIStatusHandler (internal/adminsvc/handlers_apis.go) each read the  *)
(* definition, check the transition against the status they read, and      *)
(* write, in separate statements, while others create, edit and delete.    *)
(***************************************************************************)
EXTENDS Catalog

CONSTANTS
    AdminCalls,  \* such requests in flight at once
    NoAPI

ASSUME LifecycleAssumption == NoAPI \notin APIs

VARIABLES
    doing,  \* where each handler is
    job,    \* the API it was called for, and the status that is to have
    seen    \* what its GetAPI has read

handling == <<doing, job, seen>>
lifecycleVars == <<catalogVars, handling>>

Targets == {"REVIEW", "APPROVED", "PUBLISHED", "DEPRECATED", "DISABLED", "ARCHIVED"}
NoJob == [api |-> NoAPI, to |-> "none"]
NothingSeen == [def |-> EmptySnapshot, status |-> "ABSENT"]

LifecycleTypeOK ==
    /\ CatalogTypeOK
    /\ doing \in [AdminCalls -> {"idle", "params", "write"}]
    /\ job \in [AdminCalls -> [api : APIs, to : Targets] \cup {NoJob}]
    /\ seen \in [AdminCalls -> [def : Snapshots, status : Statuses]]

LifecycleInit ==
    /\ CatalogInit
    /\ doing = [h \in AdminCalls |-> "idle"]
    /\ job = [h \in AdminCalls |-> NoJob]
    /\ seen = [h \in AdminCalls |-> NothingSeen]

(* Fault: a draft may be approved without review.                          *)
CanSkipReview(from, to) ==
    <<from, to>> \in
       {<<"DRAFT", "REVIEW">>, <<"DRAFT", "APPROVED">>, <<"REVIEW", "APPROVED">>,
        <<"APPROVED", "PUBLISHED">>}
       \cup {"PUBLISHED"} \X {"DEPRECATED", "ARCHIVED", "DISABLED"}

(* canTransitionAPIStatus.                                                 *)
CanTransition(from, to) ==
    <<from, to>> \in
       {<<"DRAFT", "REVIEW">>, <<"REVIEW", "APPROVED">>, <<"APPROVED", "PUBLISHED">>}
       \cup {"PUBLISHED"} \X {"DEPRECATED", "ARCHIVED", "DISABLED"}

(* GetAPI: the row, then its parameters.                                   *)
GetRow(h, a, to) ==
    /\ doing[h] = "idle" /\ Exists(a)
    /\ job' = [job EXCEPT ![h] = [api |-> a, to |-> to]]
    /\ seen' = [seen EXCEPT ![h] =
                  [def |-> [row |-> definition[a], params |-> NoVersion], status |-> status[a]]]
    /\ doing' = [doing EXCEPT ![h] = "params"]
    /\ UNCHANGED catalogVars

GetParameters(h) ==
    LET a == job[h].api IN
    /\ doing[h] = "params"
    /\ seen' = [seen EXCEPT ![h] =
                  [def |-> [row |-> @.def.row,
                            params |-> IF Exists(a) THEN definition[a] ELSE NoVersion],
                   status |-> @.status]]
    /\ doing' = [doing EXCEPT ![h] = "write"]
    /\ UNCHANGED <<catalogVars, job>>

Return(h) ==
    /\ doing' = [doing EXCEPT ![h] = "idle"]
    /\ job' = [job EXCEPT ![h] = NoJob]
    /\ seen' = [seen EXCEPT ![h] = NothingSeen]

Checked(h, to) ==
    doing[h] = "write" /\ job[h].to = to /\ CanTransition(seen[h].status, to)

(* The transition is not allowed, ValidateForPublish objects, or a         *)
(* statement fails.                                                        *)
Refuse(h) ==
    /\ doing[h] # "idle"
    /\ Return(h)
    /\ UNCHANGED catalogVars

ApproveAPI(h) ==
    /\ Checked(h, "APPROVED")
    /\ SetApproved(job[h].api)
    /\ Return(h)

PublishAPI(h) ==
    /\ Checked(h, "PUBLISHED")
    /\ AddRevision(job[h].api, seen[h].def)
    /\ Return(h)

(* The statement has two placeholders and gets three arguments, which the  *)
(* driver refuses: no status is ever set this way.                         *)
SetAPIStatus(h) ==
    /\ \E to \in Targets \ {"APPROVED", "PUBLISHED"} : Checked(h, to)
    /\ Return(h)
    /\ UNCHANGED catalogVars

LifecycleNext ==
    \/ \E a \in APIs : (CreateAPI(a) \/ UpdateAPI(a) \/ DeleteAPI(a)) /\ UNCHANGED handling
    \/ \E h \in AdminCalls :
          \/ \E a \in APIs, to \in Targets : GetRow(h, a, to)
          \/ GetParameters(h) \/ Refuse(h)
          \/ ApproveAPI(h) \/ PublishAPI(h) \/ SetAPIStatus(h)

LifecycleSpec == LifecycleInit /\ [][LifecycleNext]_lifecycleVars

-----------------------------------------------------------------------------
(* The one way: towards publication and out of it, not back.               *)
Onward ==
    {<<"DRAFT", "REVIEW">>, <<"REVIEW", "APPROVED">>, <<"APPROVED", "PUBLISHED">>,
     <<"PUBLISHED", "DEPRECATED">>, <<"PUBLISHED", "ARCHIVED">>, <<"PUBLISHED", "DISABLED">>}
MovesOn(a) ==
    \/ <<status[a], status'[a]>> \in Onward
    \/ status'[a] = "DELETED"
    \/ /\ status'[a] = "DRAFT"
       /\ status[a] = "ABSENT" \/ (status[a] = "PUBLISHED" /\ definition'[a] # definition[a])
ApprovedAgain(a) ==
    /\ status'[a] = "APPROVED" /\ approvals[a] > 0
    /\ status[a] \in {"DRAFT", "PUBLISHED"}

(* "canTransitionAPIStatus enforces DDAG's one-way API lifecycle.          *)
(* Terminal statuses intentionally cannot be revived" (api_lifecycle.go):  *)
(* the handlers check the status they have read and write over the one     *)
(* there is.  What is left of the promise: apart from creation, deletion   *)
(* and the edit that withdraws a published definition, a status only       *)
(* moves onward, step by step, except that an approval may come again,     *)
(* over DRAFT or PUBLISHED, once the definition was approved.              *)
(* Nothing that is DISABLED or ARCHIVED is revived.                        *)
StatusOneWay ==
    [][\A a \in APIs : status'[a] # status[a] => MovesOn(a) \/ ApprovedAgain(a)]_lifecycleVars
=============================================================================
