----------------------------- MODULE Connector -----------------------------
(***************************************************************************)
(* A connector service's query handler for one source connection:          *)
(* handleQuery (internal/connector/service.go) and its gRPC twin Query     *)
(* (internal/connector/grpc.go) take every request through the connection  *)
(* cache, the circuit breaker, the admission controller, the pool and the  *)
(* query, and report the outcome to the breaker.  Breakers and admission   *)
(* states are kept per connection id, so one connection is the whole of    *)
(* what its requests share.                                                *)
(*                                                                         *)
(* Composes CircuitBreaker (the record b) and Admission (an instance       *)
(* sharing this module's variables).  The pool registry is abstracted to   *)
(* the outcome of Acquire; module SourcePools models it.  up says whether  *)
(* resolving the secret, opening the pool and querying succeed now.        *)
(***************************************************************************)
EXTENDS CircuitBreaker, FiniteSets

CONSTANTS
    Requests, Limits, QueueSize, HasTimeout,   \* as in Admission
    GrpcRequests,   \* the requests that arrive over gRPC
    Conn,           \* the connection id
    MaxCalls        \* bound: calls counted in one closed window

ASSUME ConnectorAssumption ==
    /\ IsFiniteSet(Requests)
    /\ Limits \subseteq Int /\ QueueSize \in Int /\ HasTimeout \in BOOLEAN
    /\ GrpcRequests \subseteq Requests
    /\ MaxCalls \in Nat

VARIABLES
    inflight, waiting, pc, key, limit, queued, woken, expired,  \* Admission
    b,         \* the connection's breaker
    at,        \* where each request is in its handler
    up,        \* the source and the secret store answer
    \* History, read by the properties only:
    probes,    \* requests holding a slot of the current half-open episode
    lost,      \* slots of that episode whose request left without a Report
    openFor,   \* seconds since the breaker really opened (at most OpenTime)
    recent     \* recent[a]: failures reported while closed, at most a seconds ago

admVars == <<inflight, waiting, pc, key, limit, queued, woken, expired>>
history == <<probes, lost, openFor, recent>>
vars == <<admVars, b, at, up, history>>

Adm == INSTANCE Admission WITH Keys <- {Conn}

Ages == 0 .. Window + Skew - 1
Stages == {"idle", "allow", "admitting", "work", "return"}

TypeOK ==
    /\ Adm!TypeOK
    /\ b \in Breakers
    /\ at \in [Requests -> Stages]
    /\ up \in BOOLEAN
    /\ probes \subseteq Requests
    /\ lost \in Nat
    /\ openFor \in 0 .. OpenTime
    /\ recent \in [Ages -> Nat]

NoFailures == [a \in Ages |-> 0]

Init ==
    /\ Adm!Init
    /\ b = NewBreaker
    /\ at = [r \in Requests |-> "idle"]
    /\ up = TRUE
    /\ probes = {} /\ lost = 0 /\ openFor = 0 /\ recent = NoFailures

(* The history a Report leaves: it ends a half-open episode, and a failure *)
(* reported while closed is remembered until the breaker closes again.     *)
Reports(success, now) ==
    /\ b' = Report(b, success, now)
    /\ probes' = {} /\ lost' = 0
    /\ openFor' = IF b'.state = "open" /\ b.state # "open" THEN 0 ELSE openFor
    /\ recent' = CASE b.state = "half_open" -> NoFailures
                   [] b.state = "closed" /\ ~success -> [a \in Ages |-> recent[a] + 1]
                   [] OTHER -> recent

(* A request that leaves without a Report keeps whatever slot it holds.    *)
LeavesUnreported(r) ==
    /\ UNCHANGED <<b, openFor, recent>>
    /\ probes' = probes \ {r}
    /\ lost' = IF r \in probes THEN lost + 1 ELSE lost

(* readAuthenticatedBody to the status check: the request is well formed   *)
(* and its connection resolves, has this type and is active.  The other    *)
(* early returns (bad signature or body, unknown, foreign or disabled      *)
(* connection) change nothing.                                             *)
Resolve(r) ==
    /\ at[r] = "idle"
    /\ at' = [at EXCEPT ![r] = "allow"]
    /\ UNCHANGED <<admVars, b, up, history>>

(* The secret cannot be resolved: charge the breaker, no Allow before it.  *)
ResolveFails(r) ==
    /\ at[r] = "idle"
    /\ ~up
    /\ \E now \in Nows : Reports(FALSE, now)
    /\ UNCHANGED <<admVars, at, up>>

(* breaker.Allow refuses: CIRCUIT_BREAKER_OPEN.                            *)
CircuitRefuses(r) ==
    /\ at[r] = "allow"
    /\ \E now \in Nows : ~Allows(b, now) /\ b' = Allow(b, now)
    /\ at' = [at EXCEPT ![r] = "idle"]
    /\ UNCHANGED <<admVars, up, history>>

(* breaker.Allow lets the request through and it calls admission.Acquire   *)
(* with the pool size of the connection it resolved.                       *)
CircuitAllows(r) ==
    /\ at[r] = "allow"
    /\ \E now \in Nows :
          /\ Allows(b, now)
          /\ RotateWindow(b, now).requests < MaxCalls
          /\ b' = Allow(b, now)
    /\ \E l \in Limits : Adm!Call(r, Conn, l)
    /\ at' = [at EXCEPT ![r] = "admitting"]
    /\ probes' = IF b'.state = "half_open" THEN probes \cup {r} ELSE probes
    /\ UNCHANGED <<up, lost, openFor, recent>>

(* Inside admission.Acquire.                                               *)
Waits(r) ==
    /\ at[r] = "admitting"
    /\ \/ Adm!Park(r) \/ Adm!Wake(r) \/ Adm!GiveUp(r)
       \/ Adm!TimerFires(r) \/ Adm!ContextDone(r)
    /\ UNCHANGED <<b, at, up, history>>

Admitted(r) ==
    /\ at[r] = "admitting"
    /\ Adm!Admit(r)
    /\ at' = [at EXCEPT ![r] = "work"]
    /\ UNCHANGED <<b, up, history>>

(* BACKPRESSURE_LIMIT: the queue is full, timed out or was abandoned.  The *)
(* handler returns without telling the breaker.                            *)
TurnedAway(r) ==
    /\ at[r] = "admitting"
    /\ Adm!Reject(r) \/ Adm!Dequeue(r)
    /\ at' = [at EXCEPT ![r] = "idle"]
    /\ LeavesUnreported(r)
    /\ UNCHANGED up

(* Pool and query succeed.                                                 *)
Succeeds(r) ==
    /\ at[r] = "work"
    /\ up
    /\ \E now \in Nows : Reports(TRUE, now)
    /\ at' = [at EXCEPT ![r] = "return"]
    /\ UNCHANGED <<admVars, up>>

(* Fault: an error path that forgets its Report.                           *)
FailsSilently(r) ==
    /\ at[r] = "work" /\ ~up
    /\ at' = [at EXCEPT ![r] = "return"]
    /\ UNCHANGED <<admVars, b, up, history>>

(* registry.Acquire or the query fails.                                    *)
Fails(r) ==
    /\ at[r] = "work"
    /\ ~up
    /\ \E now \in Nows : Reports(FALSE, now)
    /\ at' = [at EXCEPT ![r] = "return"]
    /\ UNCHANGED <<admVars, up>>

(* gRPC only: the parameters are not JSON, found after the pool is there.  *)
BadParameters(r) ==
    /\ at[r] = "work"
    /\ r \in GrpcRequests
    /\ at' = [at EXCEPT ![r] = "return"]
    /\ LeavesUnreported(r)
    /\ UNCHANGED <<admVars, up>>

(* The deferred release.                                                   *)
Return(r) ==
    /\ at[r] = "return"
    /\ Adm!Release(r)
    /\ at' = [at EXCEPT ![r] = "idle"]
    /\ UNCHANGED <<b, up, history>>

Tick ==
    /\ b' = Age(b)
    /\ openFor' = IF openFor < OpenTime THEN openFor + 1 ELSE openFor
    /\ recent' = [a \in Ages |-> IF a = 0 THEN 0 ELSE recent[a - 1]]
    /\ UNCHANGED <<admVars, at, up, probes, lost>>

SourceChanges == up' = ~up /\ UNCHANGED <<admVars, b, at, history>>

Next ==
    \/ \E r \in Requests :
          \/ Resolve(r) \/ ResolveFails(r)
          \/ CircuitRefuses(r) \/ CircuitAllows(r)
          \/ Waits(r) \/ Admitted(r) \/ TurnedAway(r)
          \/ Succeeds(r) \/ Fails(r) \/ BadParameters(r)
          \/ Return(r)
    \/ Tick
    \/ SourceChanges

(* Time passes, handlers run to their end, timers fire (Admission says why *)
(* a ready expiry is not passed over for ever) and valid requests keep     *)
(* coming.  Strong fairness of Succeeds: not every request that reaches a  *)
(* healthy pool is one with malformed parameters.                          *)
Fairness ==
    /\ WF_vars(Tick)
    /\ \A r \in Requests :
        /\ WF_vars(Resolve(r))
        /\ WF_vars(CircuitRefuses(r) \/ CircuitAllows(r))
        /\ WF_vars(Admitted(r) \/ TurnedAway(r))
        /\ WF_vars(at[r] = "admitting" /\ (Adm!Park(r) \/ Adm!Wake(r))
                   /\ UNCHANGED <<b, at, up, history>>)
        /\ WF_vars(at[r] = "admitting" /\ Adm!TimerFires(r)
                   /\ UNCHANGED <<b, at, up, history>>)
        /\ SF_vars(at[r] = "admitting" /\ Adm!GiveUp(r)
                   /\ UNCHANGED <<b, at, up, history>>)
        /\ WF_vars(Fails(r)) /\ SF_vars(Succeeds(r))
        /\ WF_vars(Return(r))

Spec == Init /\ [][Next]_vars
FairSpec == Spec /\ Fairness

-----------------------------------------------------------------------------
(* In the half-open state every slot in use belongs to a request that is   *)
(* still going to report, or to one that left without reporting, and there *)
(* are never more of them than MaxRequests: a recovering source sees at    *)
(* most MaxRequests probes.                                                *)
ProbeAccounting ==
    /\ b.state = "half_open" =>
          /\ b.halfOpenInUse = Cardinality(probes) + lost
          /\ b.halfOpenInUse \in 1 .. MaxProbes
    /\ \A r \in probes : b.state = "half_open" /\ at[r] \in {"admitting", "work"}

(* A breaker that stays closed has not seen its threshold of failures in   *)
(* the window it is counting.                                              *)
ClosedBelowThreshold == b.state = "closed" => b.failures < Threshold

(* Once the breaker has opened, it stays open and no request gets past it  *)
(* until it has been open for Timeout, less the delay between reading the  *)
(* clock and taking the lock, whatever requests admitted before report in  *)
(* the meantime.                                                           *)
OpenShieldsSource ==
    [][/\ b.state = "open"
       /\ \/ b'.state # "open"
          \/ \E r \in Requests : at[r] = "allow" /\ at'[r] = "admitting"
       => openFor >= OpenTime - Skew]_vars

(* With the ratio disabled, a closed breaker trips only if Threshold       *)
(* failures were reported within the last Interval (plus that delay):      *)
(* failures of an earlier window never count.                              *)
TripsOnRecentFailures ==
    [][RatioNum = 0 /\ b.state = "closed" /\ b'.state = "open"
          => recent'[Window + Skew - 1] >= Threshold]_vars

(* If the source stays healthy the breaker does not keep refusing: it is   *)
(* closed again and again.  This is what "temporarily unavailable" and     *)
(* "temporarily disabled" promise.                                         *)
Recovers == <>[]up => []<>(b.state = "closed")

(* The same, for behaviours in which no half-open slot is ever lost to a   *)
(* request that left without reporting.                                    *)
RecoversUnlessProbeLost ==
    (<>[]up /\ [](lost = 0)) => []<>(b.state = "closed")
=============================================================================
