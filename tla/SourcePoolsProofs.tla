------------------------- MODULE SourcePoolsProofs -------------------------
(***************************************************************************)
(* Proofs about SourcePools for any number of requests, administrators,    *)
(* versions, passwords and pools.                                          *)
(*                                                                         *)
(* Two inductive invariants, each on top of the type invariant.  ConfInv   *)
(* follows one resolution from the row and the secret through the cache    *)
(* and the single flight into a pool.  PoolInv says who may know of which  *)
(* pool: a pool between Build and Publish is known to its builder alone,   *)
(* and a pool about to be closed as stale is no longer registered.         *)
(***************************************************************************)
EXTENDS SourcePools, TLAPS

(* A resolution of an existing version whose password is recent enough.    *)
Good(c) == c.version \in 1 .. version /\ intended[c.version] <= c.secret

ConfInv ==
    /\ \A v \in Versions : intended[v] <= secret
    /\ \A a \in Admins : editing[a] <= secret
    /\ \A r \in Requests : at[r] = "secret" => rc[r].version \in 1 .. version
    /\ \A r \in Requests :
          at[r] \in {"store", "deliver", "acquire", "build"} => Good(rc[r])
    /\ Fresh => Good(cache.conf)
    /\ \A p \in PoolIds : pools[p].open => Good(pools[p].conf)

PoolInv ==
    /\ RegisteredIsOpen
    /\ \A r \in Requests : at[r] = "publish" =>
          /\ pool[r] # NoPool /\ pools[pool[r]].open
          /\ pools[pool[r]].conf = rc[r]
          /\ pool[r] # entry
          /\ \A q \in Requests : /\ stale[q] # pool[r]
                                 /\ q # r => pool[q] # pool[r]
    /\ \A r \in Requests : at[r] = "close_stale" => stale[r] # NoPool /\ stale[r] # entry
    /\ \A r \in Requests : at[r] \in {"close_stale", "query"} =>
          /\ pool[r] # NoPool
          /\ pools[pool[r]].conf.version = rc[r].version

-----------------------------------------------------------------------------
(* What the records are built from.                                        *)
LEMMA Records ==
    /\ Unresolved \in Resolutions
    /\ Expired \in CacheEntries
    /\ NeverBuilt \in Pools
    /\ \A v \in 0 .. MaxVersion, s \in Secrets :
          [version |-> v, secret |-> s] \in Resolutions
    /\ \A c \in Resolutions :
          /\ c.version \in 0 .. MaxVersion /\ c.secret \in Secrets
          /\ [conf |-> c, left |-> TTL] \in CacheEntries
          /\ [open |-> TRUE, conf |-> c] \in Pools
    /\ \A e \in CacheEntries : e.left > 1 => [e EXCEPT !.left = @ - 1] \in CacheEntries
    /\ \A e \in CacheEntries : e.conf \in Resolutions
    /\ \A x \in Pools : x.conf \in Resolutions
    /\ \A c \in Resolutions : [open |-> FALSE, conf |-> c] \in Pools
    /\ NotRotated \in Secrets
BY PoolsAssumption DEF Unresolved, Resolutions, Expired, CacheEntries, NeverBuilt,
   Pools, Secrets, NotRotated

(* Closing a pool leaves the others alone and keeps its version.           *)
LEMMA Closing ==
    ASSUME NEW ps \in [PoolIds -> Pools], NEW p \in PoolIds
    PROVE  /\ Close(ps, p) \in [PoolIds -> Pools]
           /\ ~Close(ps, p)[p].open
           /\ Close(ps, p)[p].conf.version = ps[p].conf.version
           /\ \A q \in PoolIds \ {p} : Close(ps, p)[q] = ps[q]
<1> DEFINE c == [version |-> ps[p].conf.version, secret |-> NotRotated]
           x == [open |-> FALSE, conf |-> c]
<1>1. Close(ps, p) = [ps EXCEPT ![p] = x]
  BY DEF Close
<1>2. x \in Pools
  <2>1. ps[p].conf \in Resolutions
    BY Records
  <2>2. c \in Resolutions
    BY <2>1, Records
  <2> QED BY <2>2, Records
<1>3. ~x.open /\ x.conf.version = ps[p].conf.version
  OBVIOUS
<1> HIDE DEF x
<1> QED BY <1>1, <1>2, <1>3

(* Closing nothing changes nothing.                                        *)
LEMMA ClosingTyped ==
    ASSUME NEW ps \in [PoolIds -> Pools], NEW p
    PROVE  Close(ps, p) \in [PoolIds -> Pools]
<1>1. CASE p \in PoolIds
  BY <1>1, Closing
<1>2. CASE p \notin PoolIds
  <2>1. Close(ps, p) = ps
    BY <1>2 DEF Close
  <2> QED BY <2>1
<1> QED BY <1>1, <1>2

(* The variables keep their types.                                         *)
LEMMA TypeStep == TypeOK /\ [Next]_vars => TypeOK'
<1> SUFFICES ASSUME TypeOK, [Next]_vars PROVE TypeOK'
  OBVIOUS
<1> USE Records, PoolsAssumption DEF TypeOK, Stages, GoTo, poolVars, adminVars
<1>1. ASSUME NEW a \in Admins, RotateSecret(a) \/ SaveConnection(a) \/ SaveFails(a)
      PROVE  TypeOK'
  <2>1. CASE RotateSecret(a)
    BY <2>1 DEF RotateSecret, Secrets
  <2>2. CASE SaveConnection(a)
    <3>1. version \in Versions /\ version + 1 \in Versions
      BY <2>2 DEF SaveConnection, Versions
    <3> QED BY <2>2, <3>1 DEF SaveConnection
  <2>3. CASE SaveFails(a)
    BY <2>3 DEF SaveFails
  <2> QED BY <1>1, <2>1, <2>2, <2>3
<1>2. ASSUME NEW r \in Requests, Resolve(r) PROVE TypeOK'
  <2>1. CASE Hit(r) \/ Miss(r) \/ Lead(r) \/ Follow(r)
    BY <2>1 DEF Hit, Miss, Lead, Follow
  <2>2. CASE ReadRow(r)
    <3>1. [version |-> version, secret |-> NotRotated] \in Resolutions
      BY DEF Versions
    <3> QED BY <2>2, <3>1 DEF ReadRow
  <2>4. CASE ReadSecret(r)
    <3>1. [version |-> rc[r].version, secret |-> secret] \in Resolutions
      OBVIOUS
    <3> QED BY <2>4, <3>1 DEF ReadSecret
  <2>5. CASE StoreResolved(r)
    BY <2>5 DEF StoreResolved
  <2>3. CASE Deliver(r)
    BY <2>3 DEF Deliver
  <2> QED BY <1>2, <2>1, <2>2, <2>3, <2>4, <2>5 DEF Resolve
<1>3. ASSUME NEW r \in Requests, LoadFails(r) \/ BuildFails(r) \/ Done(r)
      PROVE  TypeOK'
  BY <1>3 DEF LoadFails, BuildFails, Done
<1>4. ASSUME NEW r \in Requests, Acquire(r) PROVE TypeOK'
  <2>1. CASE Find(r) \/ CaptureStale(r)
    BY <2>1 DEF Find, CaptureStale
  <2>2. CASE Build(r)
    <3>1. [open |-> TRUE, conf |-> rc[r]] \in Pools
      OBVIOUS
    <3> QED BY <2>2, <3>1 DEF Build
  <2>3. CASE YieldToEntry(r)
    BY <2>3, ClosingTyped DEF YieldToEntry
  <2>5. CASE CloseStale(r)
    BY <2>5, ClosingTyped DEF CloseStale
  <2>4. CASE Publish(r)
    BY <2>4 DEF Publish
  <2> QED BY <1>4, <2>1, <2>2, <2>3, <2>4, <2>5 DEF Acquire
<1>5. CASE Tick
  BY <1>5 DEF Tick, Fresh, CacheEntries
<1>6. CASE CloseAll \/ StopListening
  BY <1>6, ClosingTyped DEF CloseAll, StopListening
<1>7. CASE UNCHANGED vars
  BY <1>7 DEF vars
<1> QED BY <1>1, <1>2, <1>3, <1>4, <1>5, <1>6, <1>7 DEF Next

LEMMA TypeInit == Init => TypeOK
BY Records, PoolsAssumption DEF Init, TypeOK, Versions, Secrets, NotRotated, Stages

(* The type invariant of the configuration, cache and registry state.      *)
THEOREM PoolsTypeOK == Spec => []TypeOK
BY TypeInit, TypeStep, PTL DEF Spec

-----------------------------------------------------------------------------
(* A step that changes neither the versions saved so far nor what they     *)
(* were saved with keeps every good resolution good.                       *)
LEMMA GoodStays ==
    ASSUME TypeOK, NEW c, Good(c),
           \/ version' = version /\ intended' = intended
           \/ \E a \in Admins : SaveConnection(a)
    PROVE  Good(c)'
BY PoolsAssumption DEF Good, TypeOK, SaveConnection, Versions

LEMMA ConfStep == TypeOK /\ ConfInv /\ [Next]_vars => ConfInv'
<1> SUFFICES ASSUME TypeOK, ConfInv, [Next]_vars PROVE ConfInv'
  OBVIOUS
<1> USE PoolsAssumption DEF ConfInv, GoTo, poolVars, adminVars, Fresh
<1>0. /\ version \in Nat /\ secret \in Nat
      /\ \A r \in Requests : rc[r].version \in Nat /\ rc[r].secret \in Nat
  BY DEF TypeOK, Versions, Secrets, Resolutions
<1>1. ASSUME NEW a \in Admins, RotateSecret(a) PROVE ConfInv'
  BY <1>1, <1>0, GoodStays DEF RotateSecret, TypeOK, Secrets
<1>2. ASSUME NEW a \in Admins, SaveConnection(a) PROVE ConfInv'
  <2>1. /\ intended' \in [Versions -> Secrets]
        /\ \A v \in Versions : intended'[v] <= secret
    BY <1>2, <1>0 DEF SaveConnection, TypeOK, Versions
  <2>2. \A b \in Admins : editing'[b] <= secret
    BY <1>2, <1>0 DEF SaveConnection, TypeOK, NotRotated
  <2>3. \A n \in 1 .. version : n \in 1 .. version'
    BY <1>2, <1>0 DEF SaveConnection
  <2>4. \A c : Good(c) => Good(c)'
    BY <1>2, GoodStays
  <2>5. UNCHANGED <<secret, cache, at, rc, pools>>
    BY <1>2 DEF SaveConnection
  <2> QED BY <2>1, <2>2, <2>3, <2>4, <2>5
<1>3. ASSUME NEW a \in Admins, SaveFails(a) PROVE ConfInv'
  BY <1>3, <1>0, GoodStays DEF SaveFails, TypeOK, Secrets, NotRotated
<1>4. ASSUME NEW r \in Requests, Hit(r) \/ Miss(r) \/ Lead(r) \/ Follow(r)
      PROVE  ConfInv'
  BY <1>4, GoodStays DEF Hit, Miss, Lead, Follow, TypeOK
<1>5. ASSUME NEW r \in Requests, ReadRow(r) PROVE ConfInv'
  <2>1. version \in 1 .. version
    BY DEF TypeOK, Versions
  <2>2. /\ rc' = [rc EXCEPT ![r] = [version |-> version, secret |-> NotRotated]]
        /\ at' = [at EXCEPT ![r] = "secret"]
        /\ UNCHANGED <<version, secret, editing, intended, cache, pools>>
    BY <1>5 DEF ReadRow
  <2>3. \A c : Good(c) => Good(c)'
    BY <2>2, GoodStays
  <2> QED BY <2>1, <2>2, <2>3 DEF TypeOK
<1>6. ASSUME NEW r \in Requests, ReadSecret(r) PROVE ConfInv'
  <2>1. Good([version |-> rc[r].version, secret |-> secret])
    BY <1>6 DEF ReadSecret, Good, TypeOK, Versions
  <2> QED BY <1>6, <2>1, GoodStays DEF ReadSecret, TypeOK
<1>7. ASSUME NEW r \in Requests, StoreResolved(r) \/ Deliver(r) \/ LoadFails(r)
      PROVE  ConfInv'
  BY <1>7, GoodStays DEF StoreResolved, Deliver, LoadFails, TypeOK, Flight
<1>8. ASSUME NEW r \in Requests, Find(r) \/ CaptureStale(r) \/ Publish(r)
      PROVE  ConfInv'
  BY <1>8, GoodStays DEF Find, CaptureStale, Publish, TypeOK
<1>9. ASSUME NEW r \in Requests, Build(r) PROVE ConfInv'
  BY <1>9, GoodStays DEF Build, TypeOK
<1>10. ASSUME NEW r \in Requests, BuildFails(r) \/ Done(r) PROVE ConfInv'
  BY <1>10, GoodStays DEF BuildFails, Done, TypeOK
<1>11. ASSUME NEW r \in Requests, YieldToEntry(r) \/ CloseStale(r) PROVE ConfInv'
  <2>1. PICK p \in PoolIds \cup {NoPool} : pools' = Close(pools, p)
    BY <1>11 DEF YieldToEntry, CloseStale, TypeOK
  <2>2. /\ UNCHANGED <<version, secret, editing, intended, cache, rc>>
        /\ at' = [at EXCEPT ![r] = "query"]
    BY <1>11 DEF YieldToEntry, CloseStale
  <2>3. \A c : Good(c) => Good(c)'
    BY <2>2, GoodStays
  <2>4. \A q \in PoolIds : pools'[q].open => pools[q].open /\ pools'[q] = pools[q]
    BY <2>1, Closing DEF TypeOK, Close
  <2> QED BY <2>2, <2>3, <2>4 DEF TypeOK
<1>12. CASE Tick
  BY <1>12, GoodStays DEF Tick, Expired, TypeOK, CacheEntries
<1>13. CASE CloseAll \/ StopListening
  <2>1. UNCHANGED <<version, secret, editing, intended, cache, rc, at>>
    BY <1>13 DEF CloseAll, StopListening
  <2>2. \A c : Good(c) => Good(c)'
    BY <2>1, GoodStays
  <2>3. \A q \in PoolIds : pools'[q].open => pools[q].open /\ pools'[q] = pools[q]
    <3>1. CASE StopListening \/ entry = NoPool
      BY <1>13, <3>1 DEF CloseAll, StopListening
    <3>2. CASE CloseAll /\ entry # NoPool
      <4>1. entry \in PoolIds /\ pools' = Close(pools, entry)
        BY <3>2 DEF CloseAll, TypeOK
      <4>2. /\ ~pools'[entry].open
            /\ \A q \in PoolIds \ {entry} : pools'[q] = pools[q]
        BY <4>1, Closing DEF TypeOK
      <4> QED BY <4>2
    <3> QED BY <1>13, <3>1, <3>2
  <2> QED BY <2>1, <2>2, <2>3
<1>14. CASE UNCHANGED vars
  BY <1>14, GoodStays DEF vars
<1> QED
  BY <1>1, <1>2, <1>3, <1>4, <1>5, <1>6, <1>7, <1>8, <1>9, <1>10, <1>11, <1>12,
     <1>13, <1>14 DEF Next, Resolve, Acquire

-----------------------------------------------------------------------------
LEMMA PoolStep == TypeOK /\ PoolInv /\ [Next]_vars => PoolInv'
<1> SUFFICES ASSUME TypeOK, PoolInv, [Next]_vars PROVE PoolInv'
  OBVIOUS
<1> USE DEF PoolInv, RegisteredIsOpen, GoTo, poolVars, adminVars, NoPool
<1>0. 0 \notin PoolIds
  BY PoolsAssumption DEF PoolIds
<1>1. ASSUME NEW a \in Admins, RotateSecret(a) \/ SaveConnection(a) \/ SaveFails(a)
      PROVE  PoolInv'
  BY <1>1 DEF RotateSecret, SaveConnection, SaveFails
<1>2. ASSUME NEW r \in Requests, Resolve(r) \/ LoadFails(r) PROVE PoolInv'
  <2>1. CASE Hit(r) \/ Miss(r) \/ Lead(r) \/ Follow(r)
    BY <2>1 DEF Hit, Miss, Lead, Follow, TypeOK
  <2>2. CASE ReadRow(r) \/ ReadSecret(r) \/ StoreResolved(r)
    BY <2>2 DEF ReadRow, ReadSecret, StoreResolved, TypeOK
  <2>3. CASE Deliver(r) \/ LoadFails(r)
    BY <2>3 DEF Deliver, LoadFails, Flight, TypeOK
  <2> QED BY <1>2, <2>1, <2>2, <2>3 DEF Resolve
<1>3. ASSUME NEW r \in Requests, Find(r) PROVE PoolInv'
  BY <1>0, <1>3 DEF Find, EntryServes, TypeOK
<1>4. ASSUME NEW r \in Requests, CaptureStale(r) PROVE PoolInv'
  BY <1>0, <1>4 DEF CaptureStale, TypeOK
<1>5. ASSUME NEW r \in Requests, Build(r) PROVE PoolInv'
  <2>1. PICK p \in PoolIds :
           /\ Unused(p)
           /\ pools' = [pools EXCEPT ![p] = [open |-> TRUE, conf |-> rc[r]]]
           /\ pool' = [pool EXCEPT ![r] = p]
    BY <1>5 DEF Build
  <2>2. /\ at[r] = "build" /\ at' = [at EXCEPT ![r] = "publish"]
        /\ UNCHANGED <<rc, stale, entry>>
    BY <1>5 DEF Build
  <2>3. /\ pools'[p] = [open |-> TRUE, conf |-> rc[r]]
        /\ \A q \in PoolIds \ {p} : pools'[q] = pools[q]
    BY <2>1 DEF TypeOK
  <2>4. /\ entry # p
        /\ \A q \in Requests : pool[q] # p /\ stale[q] # p
    BY <2>1 DEF Unused
  <2>5. /\ pool'[r] = p /\ \A q \in Requests \ {r} : pool'[q] = pool[q]
        /\ at'[r] = "publish" /\ \A q \in Requests \ {r} : at'[q] = at[q]
    BY <2>1, <2>2 DEF TypeOK
  <2> QED BY <1>0, <2>2, <2>3, <2>4, <2>5 DEF TypeOK
<1>6. ASSUME NEW r \in Requests, BuildFails(r) \/ Done(r) PROVE PoolInv'
  BY <1>0, <1>6 DEF BuildFails, Done, TypeOK
<1>7. ASSUME NEW r \in Requests, YieldToEntry(r) PROVE PoolInv'
  <2>1. /\ at[r] = "publish" /\ entry # NoPool
        /\ pools[entry].conf.version = rc[r].version
        /\ at' = [at EXCEPT ![r] = "query"]
        /\ pool' = [pool EXCEPT ![r] = entry]
        /\ stale' = [stale EXCEPT ![r] = NoPool]
        /\ pools' = Close(pools, pool[r])
        /\ UNCHANGED <<rc, entry>>
    BY <1>7 DEF YieldToEntry, Yields, EntryServes
  <2>2. pool[r] \in PoolIds /\ entry \in PoolIds /\ entry # pool[r]
    BY <2>1 DEF TypeOK
  <2>3. /\ \A q \in PoolIds \ {pool[r]} : pools'[q] = pools[q]
        /\ pools'[pool[r]].conf.version = pools[pool[r]].conf.version
    BY <2>1, <2>2, Closing DEF TypeOK
  <2>4. \A q \in Requests : at[q] = "publish" /\ q # r => pool[q] # pool[r]
    BY <2>1
  <2> QED BY <1>0, <2>1, <2>2, <2>3, <2>4 DEF TypeOK
<1>8. ASSUME NEW r \in Requests, Publish(r) PROVE PoolInv'
  BY <1>0, <1>8 DEF Publish, TypeOK
<1>9. ASSUME NEW r \in Requests, CloseStale(r) PROVE PoolInv'
  <2>1. /\ at[r] = "close_stale"
        /\ at' = [at EXCEPT ![r] = "query"]
        /\ stale' = [stale EXCEPT ![r] = NoPool]
        /\ pools' = Close(pools, stale[r])
        /\ UNCHANGED <<rc, pool, entry>>
    BY <1>9 DEF CloseStale
  <2>2. stale[r] \in PoolIds /\ stale[r] # entry
    BY <2>1 DEF TypeOK
  <2>3. /\ \A q \in PoolIds \ {stale[r]} : pools'[q] = pools[q]
        /\ pools'[stale[r]].conf.version = pools[stale[r]].conf.version
    BY <2>1, <2>2, Closing DEF TypeOK
  <2> QED BY <1>0, <2>1, <2>2, <2>3 DEF TypeOK
<1>10. CASE Tick \/ StopListening
  BY <1>10 DEF Tick, StopListening
<1>11. CASE CloseAll
  <2>1. /\ entry' = NoPool
        /\ pools' = IF entry = NoPool THEN pools ELSE Close(pools, entry)
        /\ UNCHANGED <<at, rc, stale, pool>>
    BY <1>11 DEF CloseAll
  <2>2. \A q \in PoolIds : /\ q # entry => pools'[q] = pools[q]
                          /\ pools'[q].conf.version = pools[q].conf.version
    BY <2>1, Closing DEF TypeOK
  <2> QED BY <1>0, <2>1, <2>2 DEF TypeOK
<1>12. CASE UNCHANGED vars
  BY <1>12 DEF vars
<1> QED
  BY <1>1, <1>2, <1>3, <1>4, <1>5, <1>6, <1>7, <1>8, <1>9, <1>10, <1>11, <1>12
     DEF Next, Acquire

-----------------------------------------------------------------------------
(* The conjunction the results below follow from is inductive.             *)
THEOREM PoolsInductive == Spec => [](TypeOK /\ ConfInv /\ PoolInv)
<1>1. Init => TypeOK /\ ConfInv /\ PoolInv
  <2> SUFFICES ASSUME Init PROVE ConfInv /\ PoolInv
    BY TypeInit
  <2>1. ConfInv
    BY PoolsAssumption DEF Init, ConfInv, Fresh, Expired, NeverBuilt, NotRotated,
       Versions
  <2>2. PoolInv
    BY DEF Init, PoolInv, RegisteredIsOpen
  <2> QED BY <2>1, <2>2
<1> QED BY <1>1, TypeStep, ConfStep, PoolStep, PTL DEF Spec

(* The registered pool is always an open one: no order of replacements,    *)
(* late closers and shutdown leaves a closed pool in the registry.         *)
THEOREM PoolsRegisteredIsOpen == Spec => []RegisteredIsOpen
BY PoolsInductive, PTL DEF PoolInv

(* Registry.Acquire hands out a pool of exactly the version asked for, and *)
(* it stays one for as long as the query runs.                             *)
THEOREM PoolsServesResolvedVersion == Spec => []ServesResolvedVersion
<1>1. PoolInv => ServesResolvedVersion
  BY DEF PoolInv, ServesResolvedVersion
<1> QED BY <1>1, PoolsInductive, PTL

(* Writing the secret before the version and reading it after the version  *)
(* suffices: no pool dials with a password older than its version's.       *)
THEOREM PoolsPasswordFitsVersion == Spec => []PasswordFitsVersion
<1>1. TypeOK /\ ConfInv => PasswordFitsVersion
  BY DEF TypeOK, ConfInv, Good, PasswordFitsVersion, Versions, Secrets, Pools,
     Resolutions
<1> QED BY <1>1, PoolsInductive, PTL

-----------------------------------------------------------------------------
(* Before the first edit and while the connector serves: nothing is ever   *)
(* captured for closing, every pool a request holds is its own or the      *)
(* registered one, and so is every open pool.                              *)
Unedited == version = 1 /\ phase = "serving"
SoleInv ==
    Unedited =>
        /\ \A r \in Requests : stale[r] = NoPool
        /\ \A r \in Requests : pool[r] # NoPool => at[r] = "publish" \/ pool[r] = entry
        /\ \A p \in PoolIds : pools[p].open => p = entry \/ Private(p)

(* Until then every resolution has version 1, so that a registered pool    *)
(* serves every request.                                                   *)
LEMMA UneditedServes ==
    ASSUME TypeOK, ConfInv, PoolInv, Unedited, NEW r \in Requests,
           at[r] \in {"acquire", "publish"}
    PROVE  EntryServes(rc[r].version) <=> entry # NoPool
<1>1. \A p \in PoolIds : pools[p].open => pools[p].conf.version = 1
  BY DEF ConfInv, Good, Unedited
<1>2. rc[r].version = 1
  <2>1. CASE at[r] = "acquire"
    BY <2>1 DEF ConfInv, Good, Unedited
  <2>2. CASE at[r] = "publish"
    <3>1. pool[r] \in PoolIds /\ pools[pool[r]].open /\ pools[pool[r]].conf = rc[r]
      BY <2>2 DEF PoolInv, TypeOK
    <3> QED BY <1>1, <3>1
  <2> QED BY <2>1, <2>2
<1>3. entry # NoPool => pools[entry].conf.version = 1
  BY <1>1 DEF PoolInv, RegisteredIsOpen, TypeOK
<1> QED BY <1>2, <1>3 DEF EntryServes

LEMMA SoleStep == TypeOK /\ ConfInv /\ PoolInv /\ SoleInv /\ [Next]_vars => SoleInv'
<1> SUFFICES ASSUME TypeOK, ConfInv, PoolInv, SoleInv, [Next]_vars, Unedited'
             PROVE  /\ \A r \in Requests : stale'[r] = NoPool
                    /\ \A r \in Requests : pool'[r] # NoPool => at'[r] = "publish" \/ pool'[r] = entry'
                    /\ \A p \in PoolIds : pools'[p].open => p = entry' \/ Private(p)'
  BY DEF SoleInv
<1> DEFINE Goal == /\ \A r \in Requests : stale'[r] = NoPool
                   /\ \A r \in Requests : pool'[r] # NoPool => at'[r] = "publish" \/ pool'[r] = entry'
                   /\ \A p \in PoolIds : pools'[p].open => p = entry' \/ Private(p)'
<1> USE DEF GoTo, poolVars, adminVars
<1>0. /\ Unedited /\ ~CloseAll /\ ~StopListening /\ 0 \notin PoolIds
      /\ \A a \in Admins : ~SaveConnection(a)
  <2>1. version \in Nat \ {0}
    BY DEF TypeOK, Versions
  <2>2. \A a \in Admins : ~SaveConnection(a)
    BY <2>1 DEF SaveConnection, Unedited
  <2>3. ~CloseAll /\ ~StopListening
    BY DEF CloseAll, StopListening, Unedited
  <2>4. UNCHANGED <<version, phase>>
    BY <2>2, <2>3 DEF Next, vars, Resolve, Acquire, RotateSecret, SaveFails, Hit, Miss, Lead, Follow,
       ReadRow, ReadSecret, StoreResolved, Deliver, LoadFails, Find, CaptureStale, Build,
       YieldToEntry, Publish, CloseStale, BuildFails, Done, Tick
  <2> QED BY <2>2, <2>3, <2>4, PoolsAssumption DEF Unedited, PoolIds
<1>1. /\ \A r \in Requests : stale[r] = NoPool
      /\ \A r \in Requests : pool[r] # NoPool => at[r] = "publish" \/ pool[r] = entry
      /\ \A p \in PoolIds : pools[p].open => p = entry \/ Private(p)
  BY <1>0 DEF SoleInv
<1>2. ASSUME NEW r \in Requests,
             \/ Resolve(r) \/ LoadFails(r) \/ CaptureStale(r) \/ BuildFails(r)
      PROVE  Goal
  <2>1. /\ UNCHANGED <<pool, entry, pools>>
        /\ \A q \in Requests : at[q] = "publish" <=> at'[q] = "publish"
    <3>1. CASE Deliver(r) \/ LoadFails(r)
      BY <3>1 DEF Deliver, LoadFails, Flight, TypeOK
    <3>2. CASE \/ Hit(r) \/ Miss(r) \/ Lead(r) \/ Follow(r) \/ ReadRow(r) \/ ReadSecret(r)
               \/ StoreResolved(r) \/ CaptureStale(r) \/ BuildFails(r)
      BY <3>2 DEF Hit, Miss, Lead, Follow, ReadRow, ReadSecret, StoreResolved, CaptureStale,
         BuildFails, TypeOK
    <3> QED BY <1>2, <3>1, <3>2 DEF Resolve
  <2>2. \A q \in Requests : stale'[q] = NoPool
    <3>1. CASE CaptureStale(r)
      <4>1. entry = NoPool /\ stale' = [stale EXCEPT ![r] = entry]
        BY <1>0, <3>1, UneditedServes DEF CaptureStale
      <4> QED BY <1>1, <4>1 DEF TypeOK
    <3>2. CASE ~CaptureStale(r)
      BY <1>1, <1>2, <3>2 DEF Resolve, Hit, Miss, Lead, Follow, ReadRow, ReadSecret, StoreResolved,
         Deliver, LoadFails, BuildFails, TypeOK
    <3> QED BY <3>1, <3>2
  <2> QED BY <1>1, <2>1, <2>2 DEF Private
<1>3. ASSUME NEW r \in Requests, Find(r) \/ Done(r)
      PROVE  Goal
  <2>1. /\ UNCHANGED <<stale, entry, pools>> /\ at[r] # "publish" /\ at'[r] # "publish"
        /\ pool'[r] \in {entry, NoPool}
        /\ \A q \in Requests \ {r} : at'[q] = at[q] /\ pool'[q] = pool[q]
    BY <1>3 DEF Find, Done, TypeOK
  <2> QED BY <1>1, <2>1 DEF Private
<1>4. ASSUME NEW r \in Requests, Build(r)
      PROVE  Goal
  <2>1. PICK p \in PoolIds :
           /\ pools' = [pools EXCEPT ![p] = [open |-> TRUE, conf |-> rc[r]]]
           /\ pool' = [pool EXCEPT ![r] = p]
    BY <1>4 DEF Build
  <2>2. at[r] = "build" /\ at' = [at EXCEPT ![r] = "publish"] /\ UNCHANGED <<stale, entry>>
    BY <1>4 DEF Build
  <2>3. /\ \A q \in PoolIds \ {p} : pools'[q] = pools[q]
        /\ pool'[r] = p /\ \A q \in Requests \ {r} : pool'[q] = pool[q] /\ at'[q] = at[q]
        /\ at'[r] = "publish"
    BY <2>1, <2>2 DEF TypeOK
  <2> QED BY <1>1, <2>2, <2>3 DEF Private
<1>5. ASSUME NEW r \in Requests, YieldToEntry(r)
      PROVE  Goal
  <2>1. /\ at[r] = "publish" /\ at' = [at EXCEPT ![r] = "query"]
        /\ pool' = [pool EXCEPT ![r] = entry] /\ stale' = [stale EXCEPT ![r] = NoPool]
        /\ pools' = Close(pools, pool[r]) /\ UNCHANGED entry
    BY <1>5 DEF YieldToEntry
  <2>2. pool[r] \in PoolIds
    BY <2>1 DEF TypeOK, PoolInv
  <2>3. /\ \A q \in PoolIds \ {pool[r]} : pools'[q] = pools[q]
        /\ ~pools'[pool[r]].open
    BY <2>1, <2>2, Closing DEF TypeOK
  <2>4. /\ pool'[r] = entry /\ \A q \in Requests \ {r} : pool'[q] = pool[q] /\ at'[q] = at[q]
        /\ \A q \in Requests : stale'[q] = NoPool
    BY <1>1, <2>1 DEF TypeOK
  <2>5. ASSUME NEW p \in PoolIds, pools'[p].open
        PROVE  p = entry' \/ Private(p)'
    <3>1. p # pool[r] /\ pools[p].open
      BY <2>3, <2>5
    <3>2. CASE p = entry
      BY <2>1, <3>2
    <3>3. CASE Private(p)
      BY <2>4, <3>1, <3>3 DEF Private
    <3> QED BY <1>1, <3>1, <3>2, <3>3
  <2> QED BY <1>1, <2>1, <2>4, <2>5
<1>6. ASSUME NEW r \in Requests, Publish(r)
      PROVE  Goal
  <2>1. at[r] = "publish" /\ entry = NoPool
    BY <1>0, <1>6, UneditedServes DEF Publish, Yields
  <2>2. /\ entry' = pool[r] /\ at' = [at EXCEPT ![r] = "query"] /\ UNCHANGED <<stale, pool, pools>>
    BY <1>1, <1>6 DEF Publish
  <2>3. \A q \in Requests \ {r} : at'[q] = at[q]
    BY <2>2 DEF TypeOK
  <2> QED BY <1>0, <1>1, <2>1, <2>2, <2>3 DEF Private, NoPool
<1>7. ASSUME NEW r \in Requests, CloseStale(r)
      PROVE  Goal
  BY <1>1, <1>7 DEF CloseStale, PoolInv
<1>8. CASE Tick \/ UNCHANGED vars \/ \E a \in Admins : RotateSecret(a) \/ SaveFails(a)
  <2>1. UNCHANGED <<stale, pool, at, entry, pools>>
    BY <1>8 DEF Tick, vars, RotateSecret, SaveFails
  <2> QED BY <1>1, <2>1 DEF Private
<1> QED BY <1>0, <1>2, <1>3, <1>4, <1>5, <1>6, <1>7, <1>8 DEF Next, Acquire

(* However many requests race to build the pool, exactly the registered    *)
(* one stays open until the connection is edited, and nobody is left with  *)
(* a closed one.                                                           *)
THEOREM PoolsOneUntilEdited == Spec => []OnePoolUntilEdited
<1>1. Init => SoleInv
  BY DEF Init, SoleInv, NeverBuilt
<1>2. PoolInv /\ SoleInv /\ TypeOK => OnePoolUntilEdited
  BY DEF PoolInv, SoleInv, TypeOK, OnePoolUntilEdited, Unedited, RegisteredIsOpen
<1> QED BY <1>1, <1>2, PoolsInductive, SoleStep, PTL DEF Spec
=============================================================================
