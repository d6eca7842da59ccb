------------------------------ MODULE Gateway ------------------------------
(***************************************************************************)
(* The tail of the api-gateway's pipeline: service.serve from the cache    *)
(* lookup on and resolvePayload (internal/gatewaysvc/service.go), with its *)
(* single flight, its backpressure semaphore, and the connector dispatcher *)
(* that prefers gRPC and falls back to HTTP (internal/gateway).            *)
(*                                                                         *)
(* One published API and one cache key: keys, flights and queues of        *)
(* different APIs or parameters share nothing.  The checks before the      *)
(* cache lookup (token, scope, grant, address, rate, parameters) only      *)
(* refuse; a request here is one they let through.  The connector is seen  *)
(* through its answers; module Connector models it.                        *)
(***************************************************************************)
EXTENDS Naturals, FiniteSets

CONSTANTS
    Requests,
    Size,            \* DDAG_BACKPRESSURE_SIZE: places per API and connector
    GrpcConfigured   \* whether the connector has a gRPC address

ASSUME GatewayAssumption ==
    /\ IsFiniteSet(Requests) /\ Size \in Nat \ {0} /\ GrpcConfigured \in BOOLEAN

VARIABLES
    at,         \* where each request is
    opOf,       \* the operation of the route each request matched
    leads,      \* the request runs the flight of its cache key
    ok,         \* its load produced a payload
    cached,     \* the response cache: nothing, or what kind of operation wrote it
    used,       \* tokens in the backpressure channel
    circuit,    \* circuitStateCache of each transport's client: no entry, a
                \* current one that says open, or one that refuses nothing,
                \* being half_open or expired
    sent,       \* messages of a request the connector has yet to handle
    reply,      \* the connector's answer on its way back
    carried,    \* the circuit_state in that answer
    executed,   \* history: how often the source ran the request's statement
    lost,       \* history: requests whose gRPC answer never came
    breaker     \* the connector's breaker is closed, or open or half_open

pipeline == <<opOf, leads, ok, cached, used>>
transport == <<circuit, sent, reply, carried, executed, lost, breaker>>
vars == <<pipeline, at, transport>>

Operations == {"read", "write"}
Transports == {"grpc", "http"}
Nothing == "nothing"
Replies == {"result", "error", "unavailable"}
BreakerStates == {"closed", "open", "half_open"}
Breaker == {{"closed"}, {"open", "half_open"}}
Stages == {"idle", "lookup", "resolve", "follow", "queue", "grpc", "grpc_drop",
           "grpc_wait", "http", "http_drop", "http_wait", "release", "store", "deliver"}

TypeOK ==
    /\ at \in [Requests -> Stages] /\ opOf \in [Requests -> Operations]
    /\ leads \in [Requests -> BOOLEAN] /\ ok \in [Requests -> BOOLEAN]
    /\ cached \in Operations \cup {Nothing}
    /\ used \in 0 .. Size
    /\ circuit \in [Transports -> {Nothing, "open", "lapsed"}]
    /\ sent \in [Requests -> SUBSET Transports]
    /\ reply \in [Requests -> Replies \cup {Nothing}]
    /\ carried \in [Requests -> BreakerStates \cup {Nothing}]
    /\ executed \in [Requests -> Nat]
    /\ lost \subseteq Requests
    /\ breaker \in Breaker

Init ==
    /\ at = [r \in Requests |-> "idle"] /\ opOf = [r \in Requests |-> "read"]
    /\ leads = [r \in Requests |-> FALSE] /\ ok = [r \in Requests |-> FALSE]
    /\ cached = Nothing /\ used = 0
    /\ circuit = [t \in Transports |-> Nothing]
    /\ sent = [r \in Requests |-> {}] /\ reply = [r \in Requests |-> Nothing]
    /\ carried = [r \in Requests |-> Nothing]
    /\ executed = [r \in Requests |-> 0]
    /\ lost = {}
    /\ breaker = {"closed"}

GoTo(r, stage) == at' = [at EXCEPT ![r] = stage]

-----------------------------------------------------------------------------
(* A request matches the route, which an edit may have turned from a read  *)
(* into a write or back, and passes the checks.  Its name is free again    *)
(* once the connector has dealt with all that was sent under it.           *)
Arrive(r) ==
    /\ at[r] = "idle" /\ sent[r] = {}
    /\ \E o \in Operations : opOf' = [opOf EXCEPT ![r] = o]
    /\ executed' = [executed EXCEPT ![r] = 0]
    /\ lost' = lost \ {r}
    /\ GoTo(r, "lookup")
    /\ UNCHANGED <<leads, ok, cached, used, circuit, sent, reply, carried, breaker>>

(* Step 7 of serve: whether the published cache rule is enabled is all it  *)
(* asks.  It is enabled here.                                              *)
ServeCached(r) ==
    /\ at[r] = "lookup" /\ cached # Nothing
    /\ GoTo(r, "idle")
    /\ UNCHANGED <<pipeline, transport>>

(* The rule is enabled but Redis finds nothing or fails, or the entry is   *)
(* not JSON and is purged; or the rule is not enabled.  leads[r] says for  *)
(* now whether it is.                                                      *)
Miss(r) ==
    /\ at[r] = "lookup"
    /\ \E rule \in BOOLEAN :
          /\ cached' \in IF rule THEN {cached, Nothing} ELSE {cached}
          /\ leads' = [leads EXCEPT ![r] = rule]
    /\ GoTo(r, "resolve")
    /\ UNCHANGED <<opOf, ok, used, transport>>

-----------------------------------------------------------------------------
(* resolvePayload.                                                         *)

(* Fault: the rule decides alone.                                          *)
RuleOnly(r) == leads[r]

(* OperationType.IsCacheable overrides the rule.                           *)
Cacheable(r) == leads[r] /\ opOf[r] = "read"

Loading == {"queue", "grpc", "grpc_drop", "grpc_wait", "http", "http_drop", "http_wait"}

(* Fault: every miss loads for itself.                                     *)
NobodyLoads == FALSE

FlightUnderWay ==
    \E q \in Requests : leads[q] /\ at[q] \in Loading \cup {"release", "store", "deliver"}

(* Without a cache key, or as the leader of the key's flight.              *)
StartLoad(r) ==
    /\ at[r] = "resolve"
    /\ Cacheable(r) => ~FlightUnderWay
    /\ leads' = [leads EXCEPT ![r] = Cacheable(r)]
    /\ GoTo(r, "queue")
    /\ UNCHANGED <<opOf, ok, cached, used, transport>>

JoinFlight(r) ==
    /\ at[r] = "resolve" /\ Cacheable(r) /\ FlightUnderWay
    /\ leads' = [leads EXCEPT ![r] = FALSE]
    /\ GoTo(r, "follow")
    /\ UNCHANGED <<opOf, ok, cached, used, transport>>

(* Everybody in the flight gets its outcome; a load outside any flight has *)
(* nobody else to answer.                                                  *)
Answered(r) == {r} \cup {q \in Requests : leads[r] /\ at[q] = "follow"}
Answer(r) ==
    /\ at' = [q \in Requests |-> IF q \in Answered(r) THEN "idle" ELSE at[q]]
    /\ leads' = [leads EXCEPT ![r] = FALSE]
    /\ ok' = [ok EXCEPT ![r] = FALSE]

(* backpressureManager.Acquire: a send on the channel, or the timer or the *)
(* request's context first.                                                *)
Admit(r) ==
    /\ at[r] = "queue" /\ used < Size
    /\ used' = used + 1
    /\ GoTo(r, IF GrpcConfigured THEN "grpc" ELSE "http")
    /\ UNCHANGED <<opOf, leads, ok, cached, transport>>

GiveUp(r) ==
    /\ at[r] = "queue"
    /\ Answer(r)
    /\ UNCHANGED <<opOf, cached, used, transport>>

-----------------------------------------------------------------------------
(* DualTransportClient.Query: the two clients differ in what follows an    *)
(* unavailable connector.  A client's next stage is named after it.        *)
Drop == [grpc |-> "grpc_drop", http |-> "http_drop"]
Wait == [grpc |-> "grpc_wait", http |-> "http_wait"]

Finish(r, success) == GoTo(r, "release") /\ ok' = [ok EXCEPT ![r] = success]

(* circuitStateCache.IsOpen finds a current entry that says open.          *)
FailFast(r, t) ==
    /\ at[r] = t /\ circuit[t] = "open"
    /\ Finish(r, FALSE)
    /\ UNCHANGED <<opOf, leads, cached, used, transport>>

(* It finds an expired entry, lets go of the read lock, and takes the      *)
(* write lock later.                                                       *)
SeeExpired(r, t) ==
    /\ at[r] = t /\ circuit[t] = "lapsed"
    /\ GoTo(r, Drop[t])
    /\ UNCHANGED <<pipeline, transport>>

(* The request goes out: there is no entry or one that refuses nothing, or *)
(* the entry was expired, and whatever entry is there by now is deleted.   *)
Send(r, t) ==
    /\ \/ at[r] = t /\ circuit[t] \in {Nothing, "lapsed"} /\ UNCHANGED circuit
       \/ at[r] = Drop[t] /\ circuit' = [circuit EXCEPT ![t] = Nothing]
    /\ sent' = [sent EXCEPT ![r] = @ \cup {t}]
    /\ GoTo(r, Wait[t])
    /\ UNCHANGED <<pipeline, reply, carried, executed, lost, breaker>>

(* The connector handles a message: it runs the statement and answers, or  *)
(* fails before or after running it.  Results carry the state the breaker  *)
(* has after the call, errors carry it or come from before the breaker.    *)
(* An answer nobody waits for is lost.                                     *)
Handle(r, t) ==
    /\ t \in sent[r]
    /\ sent' = [sent EXCEPT ![r] = @ \ {t}]
    /\ \E a \in Replies, ran \in BOOLEAN, s \in breaker \cup {Nothing} :
          /\ a = "result" => ran /\ s # Nothing
          /\ a = "unavailable" => ~ran
          /\ executed' = [executed EXCEPT ![r] = IF ran THEN @ + 1 ELSE @]
          /\ reply' = [reply EXCEPT ![r] = IF at[r] = Wait[t] THEN a ELSE @]
          /\ carried' = [carried EXCEPT ![r] = IF at[r] = Wait[t] THEN s ELSE @]
    /\ UNCHANGED <<pipeline, at, circuit, lost, breaker>>

(* Fault: whatever went wrong is put down to an open circuit.              *)
RememberFailure(r, t) ==
    circuit' = [circuit EXCEPT ![t] = IF reply[r] = "result" THEN Nothing ELSE "open"]

Entry == [closed |-> Nothing, open |-> "open", half_open |-> "lapsed"]

(* circuitStateCache.Set with the state the answer carries, which may be   *)
(* long out of date.                                                       *)
Remember(r, t) ==
    circuit' = IF carried[r] = Nothing THEN circuit
               ELSE [circuit EXCEPT ![t] = Entry[carried[r]]]

(* Fault: the transports are tried in turn until one succeeds.             *)
AnyErrorFallsBack(t, kind) == t = "grpc" /\ kind # "result"

FallsBack(t, kind) == t = "grpc" /\ kind = "unavailable"

Receive(r, t) ==
    /\ at[r] = Wait[t] /\ reply[r] # Nothing
    /\ Remember(r, t)
    /\ reply' = [reply EXCEPT ![r] = Nothing]
    /\ carried' = [carried EXCEPT ![r] = Nothing]
    /\ IF FallsBack(t, reply[r])
       THEN GoTo(r, "http") /\ UNCHANGED ok
       ELSE Finish(r, reply[r] = "result")
    /\ UNCHANGED <<opOf, leads, cached, used, sent, executed, lost, breaker>>

(* No answer: connection lost, deadline passed or client gone, before the  *)
(* connector handles the message or after, which the gateway cannot tell.  *)
NoAnswer(r, t) ==
    /\ at[r] = Wait[t]
    /\ reply' = [reply EXCEPT ![r] = Nothing]
    /\ carried' = [carried EXCEPT ![r] = Nothing]
    /\ IF t = "grpc"
       THEN GoTo(r, "http") /\ lost' = lost \cup {r} /\ UNCHANGED ok
       ELSE Finish(r, FALSE) /\ UNCHANGED lost
    /\ UNCHANGED <<opOf, leads, cached, used, circuit, sent, executed, breaker>>

-----------------------------------------------------------------------------
(* Fault: the token is given back after a success only.                    *)
ReleaseOnSuccess(r) ==
    /\ at[r] = "release"
    /\ used' = IF ok[r] THEN used - 1 ELSE used
    /\ IF leads[r] /\ ok[r]
       THEN GoTo(r, "store") /\ UNCHANGED <<leads, ok>>
       ELSE Answer(r)
    /\ UNCHANGED <<opOf, cached, transport>>

(* load's deferred release, then the leader stores what it got.            *)
Release(r) ==
    /\ at[r] = "release"
    /\ used' = used - 1
    /\ IF leads[r] /\ ok[r]
       THEN GoTo(r, "store") /\ UNCHANGED <<leads, ok>>
       ELSE Answer(r)
    /\ UNCHANGED <<opOf, cached, transport>>

StorePayload(r) ==
    /\ at[r] = "store"
    /\ cached' \in {cached, opOf[r]}       \* an error of Set is ignored
    /\ GoTo(r, "deliver")
    /\ UNCHANGED <<opOf, leads, ok, used, transport>>

(* Fault: the followers are not told.                                      *)
AnswerOne(r) ==
    /\ at[r] = "deliver"
    /\ GoTo(r, "idle")
    /\ leads' = [leads EXCEPT ![r] = FALSE] /\ ok' = [ok EXCEPT ![r] = FALSE]
    /\ UNCHANGED <<opOf, cached, used, transport>>

Deliver(r) ==
    /\ at[r] = "deliver"
    /\ Answer(r)
    /\ UNCHANGED <<opOf, cached, used, transport>>

(* The cached response runs out, is evicted or purged by an administrator. *)
CacheExpires ==
    /\ cached # Nothing
    /\ cached' = Nothing
    /\ UNCHANGED <<opOf, leads, ok, used, at, transport>>

(* The entry's expiresAt passes.                                           *)
CircuitExpires(t) ==
    /\ circuit[t] = "open"
    /\ circuit' = [circuit EXCEPT ![t] = "lapsed"]
    /\ UNCHANGED <<pipeline, at, sent, reply, carried, executed, lost, breaker>>

(* Calls of this gateway and of others move the connector's breaker, as    *)
(* module CircuitBreaker says in detail, and a restart closes it.          *)
BreakerMoves ==
    /\ breaker' \in Breaker \ {breaker}
    /\ UNCHANGED <<pipeline, at, circuit, sent, reply, carried, executed, lost>>

-----------------------------------------------------------------------------
Local(r) ==
    \/ ServeCached(r) \/ Miss(r) \/ StartLoad(r) \/ JoinFlight(r)
    \/ Release(r) \/ StorePayload(r) \/ Deliver(r)
    \/ \E t \in Transports : FailFast(r, t) \/ SeeExpired(r, t) \/ Send(r, t)

Next ==
    \/ CacheExpires \/ BreakerMoves
    \/ \E t \in Transports : CircuitExpires(t)
    \/ \E r \in Requests :
          \/ Arrive(r) \/ Local(r) \/ Admit(r) \/ GiveUp(r)
          \/ \E t \in Transports : Handle(r, t) \/ Receive(r, t) \/ NoAnswer(r, t)

Spec == Init /\ [][Next]_vars

(* Handlers run on; the queue's timer and the clients' deadlines end every *)
(* wait; clocks move.                                                      *)
Fairness ==
    /\ \A t \in Transports : WF_vars(CircuitExpires(t))
    /\ \A r \in Requests :
          /\ WF_vars(Local(r))
          /\ WF_vars(Admit(r) \/ GiveUp(r))
          /\ WF_vars(\E t \in Transports : Receive(r, t) \/ NoAnswer(r, t))

FairSpec == Spec /\ Fairness

-----------------------------------------------------------------------------
(* Whatever is edited while requests are under way, only the result of a   *)
(* read operation is ever put in the response cache.                       *)
CacheHoldsReads == cached # "write"

Holding == {"grpc", "grpc_drop", "grpc_wait", "http", "http_drop", "http_wait", "release"}

(* The backpressure channel holds one token per request that is talking to *)
(* the connector, on every path out of the load as well.                   *)
TokenAccounting == used = Cardinality({r \in Requests : at[r] \in Holding})

(* A cold cache does not stampede the source: of the cacheable requests    *)
(* for one key at most one is loading, and there is one whenever others    *)
(* wait for its result.                                                    *)
OneLoadPerKey ==
    /\ \A r, q \in Requests :
          (leads[r] /\ at[r] \in Loading) /\ (leads[q] /\ at[q] \in Loading) => r = q
    /\ (\E r \in Requests : at[r] = "follow") => FlightUnderWay

(* A request the connector has answered is not run once more over the      *)
(* other transport: two executions of one request need a lost answer.      *)
RepeatedOnlyIfUnanswered == \A r \in Requests : executed[r] > 1 => r \in lost

(* Every request is answered, followers of a failed flight included.       *)
GatewayAnswers == \A r \in Requests : at[r] = "lookup" ~> at[r] = "idle"

(* A gateway does not refuse on the strength of an old report for ever:    *)
(* once the connector's breaker stays closed, and whatever answers from    *)
(* before come late and whatever requests fail for other reasons, there    *)
(* comes a time from which neither client holds the circuit open again.    *)
RefusalsEnd ==
    <>[](breaker = {"closed"}) => \A t \in Transports : <>[](circuit[t] # "open")

(* "Write and unknown operations always bypass both cache reads and cache  *)
(* writes, even if a cache rule is misconfigured."                         *)
WritesBypassCacheReads ==
    [][\A r \in Requests :
          at[r] = "lookup" /\ at'[r] = "idle" => opOf[r] = "read"]_vars

(* "Write operations ... are not classified as safe for automatic retry":  *)
(* the source runs a write at most once per request.                       *)
WritesRunOnce == \A r \in Requests : opOf[r] = "write" => executed[r] <= 1
=============================================================================
