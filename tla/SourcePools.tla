---------------------------- MODULE SourcePools ----------------------------
(***************************************************************************)
(* How a change of a source connection reaches the live pools.  An admin   *)
(* edits the connection (internal/adminsvc/handlers_connections.go and     *)
(* internal/store/catalog.go): the password is re-sealed in the secret     *)
(* store and then the row's config_version goes up.  Every connector       *)
(* request resolves the connection through a cache with a time to live and *)
(* a single flight (internal/connector/conncache.go) and takes its pool    *)
(* from the registry (internal/connectorpool/registry.go), which rebuilds  *)
(* the pool when the version it holds is not the one asked for.            *)
(*                                                                         *)
(* One connection id: all three keep their state per id.  Passwords are    *)
(* numbered in the order they are written; the rest of the configuration   *)
(* is what its version says it is.                                         *)
(***************************************************************************)
EXTENDS Naturals, FiniteSets

CONSTANTS
    Requests,     \* connector requests in flight at once
    Admins,       \* updateConnection calls in flight at once
    MaxVersion,   \* bound: config_version
    MaxSecret,    \* bound: passwords written
    MaxPools,     \* bound: pools that exist at once
    TTL           \* ConnCacheTTL in clock ticks

ASSUME PoolsAssumption ==
    /\ MaxVersion \in Nat \ {0} /\ MaxSecret \in Nat
    /\ MaxPools \in Nat \ {0} /\ TTL \in Nat \ {0}

VARIABLES
    version,   \* database_connections.config_version
    secret,    \* the password the secret store holds
    editing,   \* by admin: the password written by an update not yet saved
    cache,     \* connCache.m: the resolution and how long it is still valid
    at,        \* where each request is
    rc,        \* the resolution each request works with
    stale,     \* registry.Acquire: the entry captured for closing
    pool,      \* the pool each request built or was given
    entry,     \* registry.entries: the registered pool, if any
    pools,     \* every pool
    phase,     \* the connector serves, is shutting down, or stopped accepting
    intended   \* history: the password each version was saved with

adminVars == <<version, secret, editing, intended>>
poolVars == <<stale, pool, entry, pools>>
vars == <<adminVars, cache, at, rc, poolVars, phase>>

NoPool == 0
NotRotated == 0   \* also the number of the password the row was created with
PoolIds == 1 .. MaxPools
Versions == 1 .. MaxVersion
Secrets == 0 .. MaxSecret
Resolutions == [version : 0 .. MaxVersion, secret : Secrets]
CacheEntries == [conf : Resolutions, left : 0 .. TTL]
Pools == [open : BOOLEAN, conf : Resolutions]
Unresolved == [version |-> 0, secret |-> NotRotated]
Expired == [conf |-> Unresolved, left |-> 0]
NeverBuilt == [open |-> FALSE, conf |-> Unresolved]
Stages == {"idle", "miss", "row", "secret", "store", "deliver", "follow",
           "acquire", "build", "publish", "close_stale", "query"}

TypeOK ==
    /\ version \in Versions /\ secret \in Secrets
    /\ editing \in [Admins -> Secrets]
    /\ intended \in [Versions -> Secrets]
    /\ cache \in CacheEntries
    /\ at \in [Requests -> Stages]
    /\ rc \in [Requests -> Resolutions]
    /\ stale \in [Requests -> PoolIds \cup {NoPool}]
    /\ pool \in [Requests -> PoolIds \cup {NoPool}]
    /\ entry \in PoolIds \cup {NoPool}
    /\ pools \in [PoolIds -> Pools]
    /\ phase \in {"serving", "closing", "stopped"}

Init ==
    /\ version = 1 /\ secret = NotRotated
    /\ editing = [a \in Admins |-> NotRotated]
    /\ intended = [v \in Versions |-> NotRotated]
    /\ cache = Expired
    /\ at = [r \in Requests |-> "idle"]
    /\ rc = [r \in Requests |-> Unresolved]
    /\ stale = [r \in Requests |-> NoPool]
    /\ pool = [r \in Requests |-> NoPool]
    /\ entry = NoPool
    /\ pools = [p \in PoolIds |-> NeverBuilt]
    /\ phase = "serving"

-----------------------------------------------------------------------------
(* updateConnection, in the order it runs.                                 *)

(* secrets.Update re-seals the existing secret.                            *)
RotateSecret(a) ==
    /\ editing[a] = NotRotated
    /\ secret < MaxSecret
    /\ secret' = secret + 1
    /\ editing' = [editing EXCEPT ![a] = secret + 1]
    /\ UNCHANGED <<version, intended, cache, at, rc, poolVars, phase>>

(* store.UpdateConnection, after RotateSecret when the update carries a    *)
(* password and alone otherwise.                                           *)
SaveConnection(a) ==
    /\ version < MaxVersion
    /\ version' = version + 1
    /\ editing' = [editing EXCEPT ![a] = NotRotated]
    /\ intended' = [intended EXCEPT ![version + 1] =
                       IF editing[a] = NotRotated THEN intended[version] ELSE editing[a]]
    /\ UNCHANGED <<secret, cache, at, rc, poolVars, phase>>

(* UpdateConnection fails: the new password stays, the version does too.   *)
SaveFails(a) ==
    /\ editing[a] # NotRotated
    /\ editing' = [editing EXCEPT ![a] = NotRotated]
    /\ UNCHANGED <<version, secret, intended, cache, at, rc, poolVars, phase>>

-----------------------------------------------------------------------------
(* connCache.Resolve.                                                      *)

GoTo(r, stage) == at' = [at EXCEPT ![r] = stage]

Fresh == cache.left > 0

Hit(r) ==
    /\ phase # "stopped"
    /\ at[r] = "idle" /\ Fresh
    /\ rc' = [rc EXCEPT ![r] = cache.conf]
    /\ GoTo(r, "acquire")
    /\ UNCHANGED <<adminVars, cache, poolVars, phase>>

Miss(r) ==
    /\ phase # "stopped"
    /\ at[r] = "idle" /\ ~Fresh
    /\ GoTo(r, "miss")
    /\ UNCHANGED <<adminVars, cache, rc, poolVars, phase>>

(* sf.Do: lead a flight of one's own or wait for the one under way.  The   *)
(* flight is the load its leader is running.                               *)
FlightUnderWay == \E q \in Requests : at[q] \in {"row", "secret", "store", "deliver"}

Lead(r) ==
    /\ at[r] = "miss" /\ ~FlightUnderWay
    /\ GoTo(r, "row")
    /\ UNCHANGED <<adminVars, cache, rc, poolVars, phase>>

Follow(r) ==
    /\ at[r] = "miss" /\ FlightUnderWay
    /\ GoTo(r, "follow")
    /\ UNCHANGED <<adminVars, cache, rc, poolVars, phase>>

(* Fault: the secret is read before the row.                               *)
ReadStaleSecret(r) ==
    /\ at[r] = "row"
    /\ \E s \in Secrets :
          /\ s <= secret
          /\ rc' = [rc EXCEPT ![r] = [version |-> version, secret |-> s]]
    /\ GoTo(r, "store")
    /\ UNCHANGED <<adminVars, cache, poolVars, phase>>

(* load: store.GetConnection and then secrets.Get.                         *)
ReadRow(r) ==
    /\ at[r] = "row"
    /\ rc' = [rc EXCEPT ![r] = [version |-> version, secret |-> NotRotated]]
    /\ GoTo(r, "secret")
    /\ UNCHANGED <<adminVars, cache, poolVars, phase>>

ReadSecret(r) ==
    /\ at[r] = "secret"
    /\ rc' = [rc EXCEPT ![r] = [version |-> @.version, secret |-> secret]]
    /\ GoTo(r, "store")
    /\ UNCHANGED <<adminVars, cache, poolVars, phase>>

Flight(r) == {r} \cup {q \in Requests : at[q] = "follow"}

(* Either read fails, or the leader's context ends: everybody in the       *)
(* flight gets the error and nothing is cached.                            *)
LoadFails(r) ==
    /\ at[r] \in {"row", "secret"}
    /\ at' = [q \in Requests |-> IF q \in Flight(r) THEN "idle" ELSE at[q]]
    /\ rc' = [rc EXCEPT ![r] = Unresolved]
    /\ UNCHANGED <<adminVars, cache, poolVars, phase>>

StoreResolved(r) ==
    /\ at[r] = "store"
    /\ cache' = [conf |-> rc[r], left |-> TTL]
    /\ GoTo(r, "deliver")
    /\ UNCHANGED <<adminVars, rc, poolVars, phase>>

(* The flight ends and hands its result to everybody waiting for it.       *)
Deliver(r) ==
    /\ at[r] = "deliver"
    /\ rc' = [q \in Requests |-> IF q \in Flight(r) THEN rc[r] ELSE rc[q]]
    /\ at' = [q \in Requests |-> IF q \in Flight(r) THEN "acquire" ELSE at[q]]
    /\ UNCHANGED <<adminVars, cache, poolVars, phase>>

(* Fault.                                                                  *)
NeverExpires ==
    /\ cache.left > 0
    /\ UNCHANGED vars

(* The code keeps an expired entry but reads nothing of it any more.       *)
Tick ==
    /\ Fresh
    /\ cache' = IF cache.left = 1 THEN Expired ELSE [cache EXCEPT !.left = @ - 1]
    /\ UNCHANGED <<adminVars, at, rc, poolVars, phase>>

-----------------------------------------------------------------------------
(* Registry.Acquire.                                                       *)

(* Faults.                                                                 *)
AnyEntry(v) == entry # NoPool
NoRecheck(r) == FALSE

EntryServes(v) == entry # NoPool /\ pools[entry].conf.version = v

(* A closed pool dials no more: its password is forgotten.                 *)
Close(ps, p) ==
    [ps EXCEPT ![p] = [open |-> FALSE,
                       conf |-> [version |-> @.conf.version, secret |-> NotRotated]]]

CaptureAndClose(r) ==
    /\ at[r] = "acquire" /\ ~EntryServes(rc[r].version)
    /\ pools' = IF entry = NoPool THEN pools ELSE Close(pools, entry)
    /\ stale' = [stale EXCEPT ![r] = entry]
    /\ GoTo(r, "build")
    /\ UNCHANGED <<adminVars, cache, rc, pool, entry, phase>>

Find(r) ==
    /\ at[r] = "acquire" /\ EntryServes(rc[r].version)
    /\ pool' = [pool EXCEPT ![r] = entry]
    /\ GoTo(r, "query")
    /\ UNCHANGED <<adminVars, cache, rc, stale, entry, pools, phase>>

CaptureStale(r) ==
    /\ at[r] = "acquire" /\ ~EntryServes(rc[r].version)
    /\ stale' = [stale EXCEPT ![r] = entry]
    /\ GoTo(r, "build")
    /\ UNCHANGED <<adminVars, cache, rc, pool, entry, pools, phase>>

(* A pool object is one nobody refers to any more.                         *)
Unused(p) ==
    /\ ~pools[p].open /\ p # entry
    /\ \A r \in Requests : p # pool[r] /\ p # stale[r]

(* connectors.BuildFor opens and pings a pool nobody else sees.            *)
Build(r) ==
    /\ at[r] = "build"
    /\ \E p \in PoolIds :
          /\ Unused(p) /\ \A q \in 1 .. p - 1 : ~Unused(q)
          /\ pools' = [pools EXCEPT ![p] = [open |-> TRUE, conf |-> rc[r]]]
          /\ pool' = [pool EXCEPT ![r] = p]
    /\ GoTo(r, "publish")
    /\ UNCHANGED <<adminVars, cache, rc, stale, entry, phase>>

BuildFails(r) ==
    /\ at[r] = "build"
    /\ rc' = [rc EXCEPT ![r] = Unresolved]
    /\ stale' = [stale EXCEPT ![r] = NoPool]
    /\ GoTo(r, "idle")
    /\ UNCHANGED <<adminVars, cache, pool, entry, pools, phase>>

(* Somebody registered this version meanwhile: drop one's own pool.        *)
Yields(r) == EntryServes(rc[r].version)

YieldToEntry(r) ==
    /\ at[r] = "publish" /\ Yields(r)
    /\ pools' = Close(pools, pool[r])
    /\ pool' = [pool EXCEPT ![r] = entry]
    /\ stale' = [stale EXCEPT ![r] = NoPool]
    /\ GoTo(r, "query")
    /\ UNCHANGED <<adminVars, cache, rc, entry, phase>>

(* Register the pool; whatever entry it replaces is simply overwritten.    *)
Publish(r) ==
    /\ at[r] = "publish" /\ ~Yields(r)
    /\ entry' = pool[r]
    /\ GoTo(r, IF stale[r] = NoPool THEN "query" ELSE "close_stale")
    /\ UNCHANGED <<adminVars, cache, rc, stale, pool, pools, phase>>

CloseStale(r) ==
    /\ at[r] = "close_stale"
    /\ pools' = Close(pools, stale[r])
    /\ stale' = [stale EXCEPT ![r] = NoPool]
    /\ GoTo(r, "query")
    /\ UNCHANGED <<adminVars, cache, rc, pool, entry, phase>>

(* The query ends, one way or the other, and the handler returns.          *)
Done(r) ==
    /\ at[r] = "query"
    /\ rc' = [rc EXCEPT ![r] = Unresolved]
    /\ pool' = [pool EXCEPT ![r] = NoPool]
    /\ GoTo(r, "idle")
    /\ UNCHANGED <<adminVars, cache, stale, entry, pools, phase>>

(* Registry.CloseAll, run by OnShutdown before srv.Shutdown: the listener  *)
(* is still accepting when the pools go.                                   *)
CloseAll ==
    /\ phase = "serving"
    /\ phase' = "closing"
    /\ pools' = IF entry = NoPool THEN pools ELSE Close(pools, entry)
    /\ entry' = NoPool
    /\ UNCHANGED <<adminVars, cache, at, rc, stale, pool>>

StopListening ==
    /\ phase = "closing"
    /\ phase' = "stopped"
    /\ UNCHANGED <<adminVars, cache, at, rc, poolVars>>

-----------------------------------------------------------------------------
Resolve(r) ==
    \/ Hit(r) \/ Miss(r) \/ Lead(r) \/ Follow(r)
    \/ ReadRow(r) \/ ReadSecret(r) \/ StoreResolved(r) \/ Deliver(r)

Acquire(r) ==
    \/ Find(r) \/ CaptureStale(r) \/ Build(r)
    \/ YieldToEntry(r) \/ Publish(r) \/ CloseStale(r)

Next ==
    \/ \E a \in Admins : RotateSecret(a) \/ SaveConnection(a) \/ SaveFails(a)
    \/ \E r \in Requests :
          \/ Resolve(r) \/ LoadFails(r)
          \/ Acquire(r) \/ BuildFails(r) \/ Done(r)
    \/ Tick
    \/ CloseAll \/ StopListening

Spec == Init /\ [][Next]_vars

(* Handlers run on, time passes, and requests keep coming while the        *)
(* listener is open.  The metadata store and the source fail now and then  *)
(* but not for ever, so a step that could have failed is taken again.      *)
Fairness ==
    /\ WF_vars(Tick)
    /\ \A r \in Requests :
          /\ WF_vars(Resolve(r)) /\ WF_vars(Done(r))
          /\ WF_vars(Find(r) \/ CaptureStale(r))
          /\ WF_vars(YieldToEntry(r) \/ Publish(r)) /\ WF_vars(CloseStale(r))
          /\ SF_vars(ReadRow(r)) /\ SF_vars(ReadSecret(r)) /\ SF_vars(Build(r))

FairSpec == Spec /\ Fairness

-----------------------------------------------------------------------------
(* The pool a registry lookup would hand out is open: whichever order      *)
(* replacements, late closers and shutdown come in, a pool is closed only  *)
(* once it is no longer, and never again, registered.                      *)
RegisteredIsOpen == entry # NoPool => pools[entry].open

(* A query runs on a pool built for the version its request resolved.      *)
ServesResolvedVersion ==
    \A r \in Requests :
        at[r] = "query" => pools[pool[r]].conf.version = rc[r].version

(* No pool is opened with a password older than the one its version was    *)
(* saved with, although the row and the secret are written and read in     *)
(* separate steps: updateConnection writes the secret first, load reads it *)
(* last.                                                                   *)
PasswordFitsVersion ==
    \A p \in PoolIds : pools[p].open =>
        pools[p].conf.secret >= intended[pools[p].conf.version]

(* A pool that only the request building it knows of.                      *)
Private(p) == \E r \in Requests : at[r] = "publish" /\ pool[r] = p

(* Until the connection is first edited or the connector stops, there is   *)
(* one shared pool however many requests race to build it, and nobody is   *)
(* left holding a closed one.                                              *)
OnePoolUntilEdited ==
    version = 1 /\ phase = "serving" =>
        /\ \A p \in PoolIds : pools[p].open => p = entry \/ Private(p)
        /\ \A r \in Requests : pool[r] # NoPool => pools[pool[r]].open

(* An edit takes effect without a restart: while the connector serves, the *)
(* registered pool ends up being, and stays, the one of the last version.  *)
EditTakesEffect ==
    [](phase = "serving") =>
        <>[](entry # NoPool /\ pools[entry].conf.version = version)

(* "Package connectorpool maintains exactly one live connection pool per   *)
(* source database": when no request is under way, no pool other than the  *)
(* registered one is open.                                                 *)
OneLivePool ==
    (\A r \in Requests : at[r] = "idle") =>
        \A p \in PoolIds : pools[p].open => p = entry
=============================================================================
