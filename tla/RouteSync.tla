----------------------------- MODULE RouteSync -----------------------------
(***************************************************************************)
(* How a gateway follows the catalog: loadRoutes, routeRefreshLoop and     *)
(* metadataSyncLoop (internal/gatewaysvc/service.go).  Two goroutines, one *)
(* driven by a ticker and one by sync messages from the admin backend,     *)
(* read the published APIs and the policies in several statements and      *)
(* overwrite what the gateway serves with, routes first.                   *)
(*                                                                         *)
(* The catalog changes as module Catalog allows, which module Lifecycle is *)
(* shown to implement.  Cache rules, clients, rate limits and allow lists  *)
(* are one number, raised by every change (up to 200 of each are loaded;   *)
(* here all are).  The load at the start, before the loops run, is the     *)
(* ticker's first.                                                         *)
(***************************************************************************)
EXTENDS Catalog

CONSTANTS
    MaxApprovals,   \* bound: approvals of one API
    MaxPolicy,      \* bound: changes of the policies
    MaxPending      \* capacity of the subscription's channel

ASSUME RouteSyncAssumption ==
    /\ MaxApprovals \in Nat /\ MaxPolicy \in Nat /\ MaxPending \in Nat \ {0}

VARIABLES
    policy,     \* the policy tables
    pending,    \* sync messages in the subscription's channel
    step,       \* where each loading goroutine is
    loaded,     \* the routes it has read
    unread,     \* APIs whose parameters it has yet to read
    got,        \* the policies it has read
    routes,     \* Router.routes
    policies    \* service.metadata

loading == <<step, loaded, unread, got>>
serving == <<routes, policies>>
vars == <<catalogVars, policy, pending, loading, serving>>

Loops == {"ticker", "sync"}
Steps == {"idle", "snapshots", "rows", "params", "policies", "build", "publish"}
NoRoutes == [a \in APIs |-> EmptySnapshot]

TypeOK ==
    /\ CatalogTypeOK
    /\ policy \in 0 .. MaxPolicy
    /\ pending \in 0 .. MaxPending
    /\ step \in [Loops -> Steps]
    /\ loaded \in [Loops -> [APIs -> Snapshots]]
    /\ unread \in [Loops -> SUBSET APIs]
    /\ got \in [Loops -> 0 .. MaxPolicy]
    /\ routes \in [APIs -> Snapshots]
    /\ policies \in 0 .. MaxPolicy

Init ==
    /\ CatalogInit
    /\ policy = 0
    /\ pending = 0
    /\ step = [l \in Loops |-> "idle"]
    /\ loaded = [l \in Loops |-> NoRoutes]
    /\ unread = [l \in Loops |-> {}]
    /\ got = [l \in Loops |-> 0]
    /\ routes = NoRoutes /\ policies = 0

-----------------------------------------------------------------------------
(* publishMetadataSync: nobody may be listening, and a full channel drops. *)
Announce ==
    \/ UNCHANGED pending
    \/ pending < MaxPending /\ pending' = pending + 1

(* Approving sends no message.                                             *)
CatalogChanges ==
    /\ \E a \in APIs :
          \/ (CreateAPI(a) \/ UpdateAPI(a) \/ DeleteAPI(a)) /\ Announce
          \/ (\E s \in Snapshots : Publish(a, s)) /\ Announce
          \/ approvals[a] < MaxApprovals /\ Approve(a) /\ UNCHANGED pending
    /\ UNCHANGED <<policy, loading, serving>>

(* A cache rule, client, rate limit or allow list is changed.              *)
PolicyChanges ==
    /\ policy < MaxPolicy
    /\ policy' = policy + 1
    /\ Announce
    /\ UNCHANGED <<catalogVars, loading, serving>>

-----------------------------------------------------------------------------
(* loadRoutes.                                                             *)

GoTo(l, place) == step' = [step EXCEPT ![l] = place]

StartLoad(l) ==
    /\ step[l] = "idle"
    /\ IF l = "sync" THEN pending > 0 /\ pending' = pending - 1 ELSE UNCHANGED pending
    /\ GoTo(l, "snapshots")
    /\ UNCHANGED <<catalogVars, policy, loaded, unread, got, serving>>

(* Fault: revisions of withdrawn definitions count too.                    *)
HasRevision(a) == revisions[a] # <<>>

(* listPublishedRevisionSnapshotsSQL: the last snapshot of each API that   *)
(* is published and has one.                                               *)
Live(a) == status[a] = "PUBLISHED" /\ revisions[a] # <<>>
LastSnapshot(a) == revisions[a][Len(revisions[a])]

ReadSnapshots(l) ==
    /\ step[l] = "snapshots"
    /\ loaded' = [loaded EXCEPT ![l] =
                    [a \in APIs |-> IF Live(a) THEN LastSnapshot(a) ELSE EmptySnapshot]]
    /\ GoTo(l, IF \E a \in APIs : Live(a) THEN "policies" ELSE "rows")
    /\ UNCHANGED <<catalogVars, policy, pending, unread, got, serving>>

(* There was no snapshot at all: the published definitions themselves,     *)
(* then the parameters of each.                                            *)
ReadRows(l) ==
    LET published == {a \in APIs : status[a] = "PUBLISHED"} IN
    /\ step[l] = "rows"
    /\ loaded' = [loaded EXCEPT ![l] =
                    [a \in APIs |-> [row |-> IF a \in published THEN definition[a] ELSE NoVersion,
                                     params |-> NoVersion]]]
    /\ unread' = [unread EXCEPT ![l] = published]
    /\ GoTo(l, IF published = {} THEN "policies" ELSE "params")
    /\ UNCHANGED <<catalogVars, policy, pending, got, serving>>

ReadParameters(l) ==
    /\ step[l] = "params"
    /\ \E a \in unread[l] :
          /\ loaded' = [loaded EXCEPT ![l][a].params =
                          IF Exists(a) THEN definition[a] ELSE NoVersion]
          /\ unread' = [unread EXCEPT ![l] = @ \ {a}]
          /\ GoTo(l, IF unread[l] = {a} THEN "policies" ELSE "params")
    /\ UNCHANGED <<catalogVars, policy, pending, got, serving>>

ReadPolicies(l) ==
    /\ step[l] = "policies"
    /\ got' = [got EXCEPT ![l] = policy]
    /\ GoTo(l, "build")
    /\ UNCHANGED <<catalogVars, policy, pending, loaded, unread, serving>>

(* One of the statements fails: what is served stays as it is.             *)
LoadFails(l) ==
    /\ step[l] \in {"snapshots", "rows", "params", "policies"}
    /\ loaded' = [loaded EXCEPT ![l] = NoRoutes]
    /\ unread' = [unread EXCEPT ![l] = {}]
    /\ GoTo(l, "idle")
    /\ UNCHANGED <<catalogVars, policy, pending, got, serving>>

(* router.Build, and then the policies under a lock of their own.          *)
BuildRouter(l) ==
    /\ step[l] = "build"
    /\ routes' = loaded[l]
    /\ loaded' = [loaded EXCEPT ![l] = NoRoutes]
    /\ GoTo(l, "publish")
    /\ UNCHANGED <<catalogVars, policy, pending, unread, got, policies>>

SetMetadata(l) ==
    /\ step[l] = "publish"
    /\ policies' = got[l]
    /\ got' = [got EXCEPT ![l] = 0]
    /\ GoTo(l, "idle")
    /\ UNCHANGED <<catalogVars, policy, pending, loaded, unread, routes>>

Load(l) ==
    \/ StartLoad(l) \/ ReadSnapshots(l) \/ ReadRows(l) \/ ReadParameters(l)
    \/ ReadPolicies(l) \/ BuildRouter(l) \/ SetMetadata(l)

Next ==
    \/ CatalogChanges \/ PolicyChanges
    \/ \E l \in Loops : Load(l) \/ LoadFails(l)

Spec == Init /\ [][Next]_vars

(* Both goroutines run on and the ticker ticks.  Nobody has to change      *)
(* anything, and no message has to arrive.                                 *)
Fairness == \A l \in Loops : WF_vars(Load(l))

FairSpec == Spec /\ Fairness

-----------------------------------------------------------------------------
(* An edit does not go live by itself: the row of every route a gateway    *)
(* serves, from a snapshot or from the definition itself, is one that was  *)
(* published at some time, and so is what its loads are about to serve.    *)
RoutesWereReleased ==
    \A a \in APIs :
        /\ routes[a].row # NoVersion => routes[a].row \in released[a]
        /\ \A l \in Loops : loaded[l][a].row # NoVersion => loaded[l][a].row \in released[a]

(* Whatever sync messages are lost and however the two loads overtake each *)
(* other, a gateway whose loads do not fail for ever ends up with the      *)
(* current policies, with the last snapshot of every published API that    *)
(* has one, and with no route to anything that is not published.           *)
GatewayConverges ==
    <>[][\A l \in Loops : ~LoadFails(l)]_vars =>
        <>[](/\ policies = policy
             /\ \A a \in APIs :
                   /\ routes[a].row # NoVersion => status[a] = "PUBLISHED"
                   /\ status[a] = "PUBLISHED" /\ revisions[a] # <<>> =>
                         routes[a] = LastSnapshot(a))

(* "This lets operators edit a new draft without changing the live gateway  *)
(* catalog until publish creates the next revision" (ListPublishedAPIs):   *)
(* an API that is only published and edited from some time on is served    *)
(* from its last revision in the end.                                      *)
DraftKeepsRevisionLive ==
    <>[][\A l \in Loops : ~LoadFails(l)]_vars =>
        \A a \in APIs :
            <>[](status[a] \in {"DRAFT", "PUBLISHED"} /\ revisions[a] # <<>>) =>
                <>[](revisions[a] # <<>> /\ routes[a] = LastSnapshot(a))
=============================================================================
