--------------------------- MODULE GatewayProofs ---------------------------
(***************************************************************************)
(* Safety of the gateway's cache, flights, tokens and transports for any   *)
(* number of requests and places, with and without gRPC.                   *)
(*                                                                         *)
(* Three inductive invariants on top of the type invariant: FlightInv says *)
(* who may lead the flight of the cache key, TokenAccounting counts the    *)
(* tokens, and ExecInv bounds how often a request can still reach the      *)
(* source from where it is.                                                *)
(***************************************************************************)
EXTENDS Gateway, FiniteSetTheorems, TLAPS

InFlight == Loading \cup {"release", "store", "deliver"}

(* Leaders are cacheable reads, and alone; no follower without a leader.   *)
FlightInv ==
    /\ \A r \in Requests :
          /\ at[r] \in {"idle", "lookup", "follow"} => ~leads[r]
          /\ at[r] \in {"store", "deliver"} => leads[r]
          /\ leads[r] /\ at[r] \in InFlight => opOf[r] = "read"
    /\ \A r, q \in Requests :
          leads[r] /\ at[r] \in InFlight /\ leads[q] /\ at[q] \in InFlight => r = q
    /\ (\E r \in Requests : at[r] = "follow") => FlightUnderWay
    /\ CacheHoldsReads

(* Nothing has been sent for the request, or nothing came of it.           *)
Untouched(r) == executed[r] = 0 /\ sent[r] = {}

AtMostOnce(r) ==
    \/ executed[r] = 0 /\ sent[r] \in {{"grpc"}, {"http"}}
    \/ executed[r] \in {0, 1} /\ sent[r] = {}

BeforeSend == {"lookup", "resolve", "follow", "queue", "grpc", "grpc_drop"}

(* Until a gRPC answer is lost, a request is sent again only if the        *)
(* connector said that it had not run it.                                  *)
ExecInv ==
    \A r \in Requests :
        /\ at[r] \notin {"grpc_wait", "http_wait"} => reply[r] = Nothing
        /\ at[r] \in BeforeSend => Untouched(r)
        /\ r \notin lost => AtMostOnce(r)
        /\ /\ r \notin lost
           /\ \/ at[r] \in {"http", "http_drop"}
              \/ at[r] = "grpc_wait" /\ reply[r] = "unavailable"
           => Untouched(r)

-----------------------------------------------------------------------------
(* The stages each transport's client goes through.                        *)
LEMMA ClientStages ==
    /\ Wait["grpc"] = "grpc_wait" /\ Wait["http"] = "http_wait"
    /\ Drop["grpc"] = "grpc_drop" /\ Drop["http"] = "http_drop"
BY DEF Wait, Drop

(* Answering changes only stages, leads and ok.                            *)
LEMMA AnswerTyped ==
    ASSUME TypeOK, NEW r \in Requests, Answer(r)
    PROVE  /\ at' \in [Requests -> Stages]
           /\ leads' \in [Requests -> BOOLEAN] /\ ok' \in [Requests -> BOOLEAN]
BY DEF TypeOK, Answer, Stages

LEMMA TypeInit == Init => TypeOK
BY GatewayAssumption DEF Init, TypeOK, Stages, Operations, Transports, Replies,
                         BreakerStates, Breaker

LEMMA TypeStep == TypeOK /\ TokenAccounting /\ [Next]_vars => TypeOK'
<1> SUFFICES ASSUME TypeOK, TokenAccounting, [Next]_vars PROVE TypeOK'
    OBVIOUS
<1> USE GatewayAssumption DEF TypeOK, GoTo, pipeline, transport, Stages
<1>1. CASE UNCHANGED vars
    BY <1>1 DEF vars
<1>2. CASE CacheExpires
    BY <1>2 DEF CacheExpires
<1>3. CASE BreakerMoves
    BY <1>3 DEF BreakerMoves
<1>4. ASSUME NEW t \in Transports, CircuitExpires(t) PROVE TypeOK'
    BY <1>4 DEF CircuitExpires
<1>5. ASSUME NEW r \in Requests, Arrive(r) PROVE TypeOK'
    BY <1>5 DEF Arrive
<1>6. ASSUME NEW r \in Requests, ServeCached(r) PROVE TypeOK'
    BY <1>6 DEF ServeCached
<1>7. ASSUME NEW r \in Requests, Miss(r) PROVE TypeOK'
    BY <1>7 DEF Miss
<1>8. ASSUME NEW r \in Requests, StartLoad(r) PROVE TypeOK'
    BY <1>8 DEF StartLoad, Cacheable
<1>9. ASSUME NEW r \in Requests, JoinFlight(r) PROVE TypeOK'
    BY <1>9 DEF JoinFlight
<1>10. ASSUME NEW r \in Requests, Admit(r) PROVE TypeOK'
    BY <1>10 DEF Admit
<1>11. ASSUME NEW r \in Requests, GiveUp(r) PROVE TypeOK'
    BY <1>11, AnswerTyped DEF GiveUp
<1>12. ASSUME NEW r \in Requests, Release(r) PROVE TypeOK'
    <2>1. used - 1 \in 0 .. Size
        <3> DEFINE H == {q \in Requests : at[q] \in Holding}
        <3>1. H \in SUBSET Requests /\ r \in H
            BY <1>12 DEF Release, Holding
        <3>2. IsFiniteSet(H) /\ Cardinality(H) \in Nat /\ Cardinality(H) # 0
            BY <3>1, FS_Subset, FS_CardinalityType, FS_EmptySet
        <3> QED BY <3>2 DEF TokenAccounting
    <2>2. CASE leads[r] /\ ok[r]
        BY <1>12, <2>1, <2>2 DEF Release
    <2>3. CASE ~(leads[r] /\ ok[r])
        BY <1>12, <2>1, <2>3, AnswerTyped DEF Release
    <2> QED BY <2>2, <2>3
<1>13. ASSUME NEW r \in Requests, StorePayload(r) PROVE TypeOK'
    BY <1>13 DEF StorePayload
<1>14. ASSUME NEW r \in Requests, Deliver(r) PROVE TypeOK'
    BY <1>14, AnswerTyped DEF Deliver
<1>15. ASSUME NEW r \in Requests, NEW t \in Transports, FailFast(r, t) PROVE TypeOK'
    BY <1>15 DEF FailFast, Finish
<1>16. ASSUME NEW r \in Requests, NEW t \in Transports, SeeExpired(r, t) PROVE TypeOK'
    BY <1>16, ClientStages DEF SeeExpired, Transports
<1>17. ASSUME NEW r \in Requests, NEW t \in Transports, Send(r, t) PROVE TypeOK'
    <2>1. at' \in [Requests -> Stages]
        BY <1>17, ClientStages DEF Send, Transports
    <2>2. circuit' \in [Transports -> {Nothing, "open", "lapsed"}]
        BY <1>17 DEF Send
    <2>3. sent' \in [Requests -> SUBSET Transports]
        BY <1>17 DEF Send
    <2> QED BY <1>17, <2>1, <2>2, <2>3 DEF Send
<1>18. ASSUME NEW r \in Requests, NEW t \in Transports, Handle(r, t) PROVE TypeOK'
    <2>1. sent' \in [Requests -> SUBSET Transports]
        BY <1>18 DEF Handle
    <2>2. executed' \in [Requests -> Nat]
        BY <1>18 DEF Handle
    <2>3. reply' \in [Requests -> Replies \cup {Nothing}]
        BY <1>18 DEF Handle
    <2>4. breaker \cup {Nothing} \subseteq BreakerStates \cup {Nothing}
        BY DEF Breaker, BreakerStates
    <2>5. carried' \in [Requests -> BreakerStates \cup {Nothing}]
        BY <1>18, <2>4 DEF Handle
    <2> QED BY <1>18, <2>1, <2>2, <2>3, <2>5 DEF Handle
<1>19. ASSUME NEW r \in Requests, NEW t \in Transports, Receive(r, t) PROVE TypeOK'
    <2>1. circuit' \in [Transports -> {Nothing, "open", "lapsed"}]
        BY <1>19 DEF Receive, Remember, Entry, BreakerStates
    <2>2. reply' \in [Requests -> Replies \cup {Nothing}]
        BY <1>19 DEF Receive
    <2>3. at' \in [Requests -> Stages] /\ ok' \in [Requests -> BOOLEAN]
        BY <1>19 DEF Receive, Finish
    <2>4. carried' \in [Requests -> BreakerStates \cup {Nothing}]
        BY <1>19 DEF Receive
    <2> QED BY <1>19, <2>1, <2>2, <2>3, <2>4 DEF Receive
<1>20. ASSUME NEW r \in Requests, NEW t \in Transports, NoAnswer(r, t) PROVE TypeOK'
    BY <1>20 DEF NoAnswer, Finish
<1>21. CASE Next
    BY <1>21, <1>2, <1>3, <1>4, <1>5, <1>6, <1>7, <1>8, <1>9, <1>10, <1>11,
       <1>12, <1>13, <1>14, <1>15, <1>16, <1>17, <1>18, <1>19, <1>20
    DEF Next, Local
<1> QED BY <1>1, <1>21
-----------------------------------------------------------------------------
(* Tokens.                                                                 *)

Talking == {r \in Requests : at[r] \in Holding}

LEMMA TalkingFacts ==
    ASSUME NEW r \in Requests
    PROVE  /\ IsFiniteSet(Talking)
           /\ Cardinality(Talking) \in Nat
           /\ r \notin Talking => Cardinality(Talking \cup {r}) = Cardinality(Talking) + 1
           /\ r \in Talking => Cardinality(Talking \ {r}) = Cardinality(Talking) - 1
<1>1. IsFiniteSet(Talking)
    BY GatewayAssumption, FS_Subset DEF Talking
<1> QED BY <1>1, FS_CardinalityType, FS_AddElement, FS_RemoveElement

LEMMA TokenStep == TypeOK /\ TokenAccounting /\ [Next]_vars => TokenAccounting'
<1> SUFFICES ASSUME TypeOK, TokenAccounting, [Next]_vars PROVE TokenAccounting'
    OBVIOUS
<1>0. SUFFICES \/ used' = used /\ Talking' = Talking
               \/ \E r \in Requests \ Talking :
                     used' = used + 1 /\ Talking' = Talking \cup {r}
               \/ \E r \in Talking : used' = used - 1 /\ Talking' = Talking \ {r}
    <2>1. used = Cardinality(Talking)
        BY DEF TokenAccounting, Talking
    <2>2. Talking \subseteq Requests
        BY DEF Talking
    <2>3. used' = Cardinality(Talking')
        BY <1>0, <2>1, <2>2, TalkingFacts
    <2> QED BY <2>3 DEF TokenAccounting, Talking
<1> DEFINE G == \/ used' = used /\ Talking' = Talking
                \/ \E r \in Requests \ Talking :
                      used' = used + 1 /\ Talking' = Talking \cup {r}
                \/ \E r \in Talking : used' = used - 1 /\ Talking' = Talking \ {r}
           Kept == used' = used /\ \A q \in Requests : (at'[q] \in Holding) = (at[q] \in Holding)
<1> SUFFICES G
    OBVIOUS
<1>a. Kept => G
    BY DEF Talking
<1> USE DEF TypeOK, GoTo, pipeline, transport, Holding
<1> HIDE DEF G
<1>1. CASE UNCHANGED vars
    BY <1>1, <1>a DEF vars
<1>2. CASE CacheExpires \/ BreakerMoves \/ \E t \in Transports : CircuitExpires(t)
    BY <1>2, <1>a DEF CacheExpires, BreakerMoves, CircuitExpires
<1>3. ASSUME NEW r \in Requests,
             Arrive(r) \/ ServeCached(r) \/ Miss(r) \/ StartLoad(r) \/ JoinFlight(r)
             \/ StorePayload(r)
      PROVE  G
    BY <1>3, <1>a DEF Arrive, ServeCached, Miss, StartLoad, JoinFlight, StorePayload
<1>4. ASSUME NEW r \in Requests, GiveUp(r) \/ Deliver(r) PROVE G
    BY <1>4, <1>a DEF GiveUp, Deliver, Answer, Answered
<1>5. ASSUME NEW r \in Requests, Admit(r) PROVE G
    <2>1. r \in Requests \ Talking /\ Talking' = Talking \cup {r}
        BY <1>5 DEF Admit, Talking
    <2> QED BY <1>5, <2>1 DEF Admit, G
<1>6. ASSUME NEW r \in Requests, Release(r) PROVE G
    <2>1. /\ at[r] = "release" /\ at'[r] \in {"store", "idle"}
          /\ \A q \in Requests \ {r} :
                at'[q] = at[q] \/ (at[q] = "follow" /\ at'[q] = "idle")
        BY <1>6 DEF Release, Answer, Answered
    <2>2. r \in Talking /\ Talking' = Talking \ {r}
        BY <2>1 DEF Talking
    <2> QED BY <1>6, <2>2 DEF Release, G
<1>7. ASSUME NEW r \in Requests, NEW t \in Transports,
             FailFast(r, t) \/ SeeExpired(r, t) \/ Send(r, t) \/ Handle(r, t)
      PROVE  G
    BY <1>7, <1>a, ClientStages
    DEF FailFast, SeeExpired, Send, Handle, Finish, Transports
<1>8. ASSUME NEW r \in Requests, NEW t \in Transports, Receive(r, t) \/ NoAnswer(r, t)
      PROVE  G
    BY <1>8, <1>a, ClientStages DEF Receive, NoAnswer, Finish, Transports
<1>9. CASE Next
    BY <1>2, <1>3, <1>4, <1>5, <1>6, <1>7, <1>8, <1>9 DEF Next, Local
<1> QED BY <1>1, <1>9

-----------------------------------------------------------------------------
(* Flights and the cache.                                                  *)

(* A step that leaves the cache and the roles of the requests alone.       *)
LEMMA SameFlights ==
    ASSUME FlightInv, cached' = cached, leads' = leads, opOf' = opOf,
           NEW r \in Requests,
           at[r] \in InFlight \ {"store", "deliver"},
           at'[r] \in InFlight \ {"store", "deliver"},
           \A q \in Requests \ {r} : at'[q] = at[q]
    PROVE  FlightInv'
BY DEF FlightInv, InFlight, Loading, FlightUnderWay, CacheHoldsReads

(* The end of a load answers its followers.                                *)
LEMMA AnswerEndsFlight ==
    ASSUME TypeOK, FlightInv, NEW r \in Requests, at[r] \in InFlight, Answer(r),
           cached' = cached, opOf' = opOf
    PROVE  FlightInv'
<1> USE DEF TypeOK, Answer, Answered, InFlight, Loading
<1>1. \A q \in Requests : leads'[q] => leads[q] /\ at'[q] = at[q]
    BY DEF FlightInv
<1>2. \A q \in Requests : at'[q] # at[q] => at'[q] = "idle" /\ ~leads'[q]
    BY DEF FlightInv
<1>3. ~leads'[r] /\ at'[r] = "idle"
    OBVIOUS
<1>4. (\E q \in Requests : at'[q] = "follow") => FlightUnderWay'
    <2> SUFFICES ASSUME NEW q \in Requests, at'[q] = "follow" PROVE FlightUnderWay'
        OBVIOUS
    <2>1. at[q] = "follow" /\ ~leads[r]
        BY DEF FlightInv
    <2>2. PICK l \in Requests : leads[l] /\ at[l] \in InFlight
        BY <2>1 DEF FlightInv, FlightUnderWay
    <2>3. at'[l] = at[l] /\ leads'[l]
        BY <2>1, <2>2
    <2> QED BY <2>2, <2>3 DEF FlightUnderWay
<1>5. \A q \in Requests : at'[q] \in {"store", "deliver"} => leads'[q]
    BY <1>2, <1>3 DEF FlightInv
<1> QED BY <1>1, <1>2, <1>4, <1>5 DEF FlightInv, CacheHoldsReads

LEMMA FlightStep == TypeOK /\ FlightInv /\ [Next]_vars => FlightInv'
<1> SUFFICES ASSUME TypeOK, FlightInv, [Next]_vars PROVE FlightInv'
    OBVIOUS
<1> USE DEF TypeOK, GoTo, pipeline, transport
<1>1. CASE UNCHANGED vars
    BY <1>1 DEF vars, FlightInv, FlightUnderWay, CacheHoldsReads
<1>2. CASE CacheExpires
    BY <1>2 DEF CacheExpires, FlightInv, FlightUnderWay, CacheHoldsReads, Nothing
<1>3. CASE BreakerMoves \/ \E t \in Transports : CircuitExpires(t)
    BY <1>3 DEF BreakerMoves, CircuitExpires, FlightInv, FlightUnderWay, CacheHoldsReads
<1>4. ASSUME NEW r \in Requests, Arrive(r) \/ ServeCached(r) PROVE FlightInv'
    BY <1>4 DEF Arrive, ServeCached, FlightInv, FlightUnderWay, CacheHoldsReads,
       InFlight, Loading
<1>5. ASSUME NEW r \in Requests, Miss(r) PROVE FlightInv'
    BY <1>5 DEF Miss, FlightInv, FlightUnderWay, CacheHoldsReads, Nothing,
       InFlight, Loading
<1>6. ASSUME NEW r \in Requests, StartLoad(r) PROVE FlightInv'
    <2> DEFINE Leader(q) == leads[q] /\ at[q] \in InFlight
    <2>1. /\ at[r] = "resolve" /\ at'[r] = "queue"
          /\ leads'[r] => opOf[r] = "read" /\ ~FlightUnderWay
          /\ opOf' = opOf /\ cached' = cached
        BY <1>6 DEF StartLoad, Cacheable
    <2>2. \A q \in Requests \ {r} : at'[q] = at[q] /\ leads'[q] = leads[q]
        BY <1>6 DEF StartLoad
    <2>3. FlightUnderWay <=> \E q \in Requests : Leader(q)
        BY DEF FlightUnderWay, InFlight
    <2>4. ~Leader(r)
        BY <2>1 DEF InFlight, Loading
    <2>5. \A q \in Requests : Leader(q)' <=> Leader(q) \/ (q = r /\ leads'[r])
        BY <2>1, <2>2, <2>4 DEF InFlight, Loading
    <2>6. \A p, q \in Requests : Leader(p)' /\ Leader(q)' => p = q
        <3>1. \A p, q \in Requests : Leader(p) /\ Leader(q) => p = q
            BY DEF FlightInv
        <3> QED BY <3>1, <2>1, <2>3, <2>5
    <2>7. (\E q \in Requests : at'[q] = "follow") => FlightUnderWay'
        <3>1. (\E q \in Requests : at'[q] = "follow") => \E q \in Requests : Leader(q)
            BY <2>1, <2>2, <2>3 DEF FlightInv
        <3>2. (\E q \in Requests : Leader(q)') => FlightUnderWay'
            BY DEF FlightUnderWay, InFlight
        <3> QED BY <3>1, <3>2, <2>5
    <2>8. \A q \in Requests :
             /\ at'[q] \in {"idle", "lookup", "follow"} => ~leads'[q]
             /\ at'[q] \in {"store", "deliver"} => leads'[q]
             /\ leads'[q] /\ at'[q] \in InFlight => opOf'[q] = "read"
        BY <2>1, <2>2 DEF FlightInv
    <2> QED BY <2>1, <2>6, <2>7, <2>8 DEF FlightInv, CacheHoldsReads
<1>7. ASSUME NEW r \in Requests, JoinFlight(r) PROVE FlightInv'
    BY <1>7 DEF JoinFlight, Cacheable, FlightInv, FlightUnderWay, CacheHoldsReads,
       InFlight, Loading
<1>8. ASSUME NEW r \in Requests, Admit(r) PROVE FlightInv'
    BY <1>8, SameFlights DEF Admit, InFlight, Loading
<1>9. ASSUME NEW r \in Requests, GiveUp(r) \/ Deliver(r) PROVE FlightInv'
    BY <1>9, AnswerEndsFlight DEF GiveUp, Deliver, InFlight, Loading
<1>10. ASSUME NEW r \in Requests, Release(r) PROVE FlightInv'
    <2>1. CASE leads[r] /\ ok[r]
        BY <1>10, <2>1 DEF Release, FlightInv, FlightUnderWay, CacheHoldsReads,
           InFlight, Loading
    <2>2. CASE ~(leads[r] /\ ok[r])
        BY <1>10, <2>2, AnswerEndsFlight DEF Release, InFlight
    <2> QED BY <2>1, <2>2
<1>11. ASSUME NEW r \in Requests, StorePayload(r) PROVE FlightInv'
    BY <1>11 DEF StorePayload, FlightInv, FlightUnderWay, CacheHoldsReads,
       InFlight, Loading
<1>12. ASSUME NEW r \in Requests, NEW t \in Transports,
              FailFast(r, t) \/ SeeExpired(r, t) \/ Send(r, t)
       PROVE  FlightInv'
    BY <1>12, SameFlights, ClientStages
    DEF FailFast, SeeExpired, Send, Finish, Transports, InFlight, Loading
<1>13. ASSUME NEW r \in Requests, NEW t \in Transports, Handle(r, t) PROVE FlightInv'
    BY <1>13 DEF Handle, FlightInv, FlightUnderWay, CacheHoldsReads
<1>14. ASSUME NEW r \in Requests, NEW t \in Transports, Receive(r, t) \/ NoAnswer(r, t)
       PROVE  FlightInv'
    BY <1>14, SameFlights, ClientStages
    DEF Receive, NoAnswer, Finish, Transports, InFlight, Loading
<1>15. CASE Next
    BY <1>2, <1>3, <1>4, <1>5, <1>6, <1>7, <1>8, <1>9, <1>10, <1>11, <1>12, <1>13,
       <1>14, <1>15 DEF Next, Local
<1> QED BY <1>1, <1>15

-----------------------------------------------------------------------------
(* Executions.                                                             *)

(* A step of one request r that leaves what was sent and run alone.        *)
LEMMA SameExecutions ==
    ASSUME TypeOK, ExecInv, sent' = sent, executed' = executed, reply' = reply,
           lost' = lost,
           NEW R \in SUBSET Requests,
           \A q \in Requests \ R : at'[q] = at[q],
           \A q \in R :
              /\ reply[q] = Nothing
              /\ \/ at'[q] \in {"idle", "release", "store", "deliver"}
                 \/ at[q] \in BeforeSend /\ at'[q] \in BeforeSend \cup {"http"}
                 \/ at[q] = "http" /\ at'[q] = "http_drop"
    PROVE  ExecInv'
BY DEF ExecInv, BeforeSend, Untouched, AtMostOnce, Nothing

LEMMA ExecStep == TypeOK /\ ExecInv /\ [Next]_vars => ExecInv'
<1> SUFFICES ASSUME TypeOK, ExecInv, [Next]_vars PROVE ExecInv'
    OBVIOUS
<1> USE DEF TypeOK, GoTo, pipeline, transport
<1>1. CASE \/ UNCHANGED vars
           \/ CacheExpires \/ BreakerMoves
           \/ \E t \in Transports : CircuitExpires(t)
    BY <1>1 DEF vars, CacheExpires, BreakerMoves, CircuitExpires,
       ExecInv, Untouched, AtMostOnce
<1>2. ASSUME NEW r \in Requests, Arrive(r) PROVE ExecInv'
    BY <1>2 DEF Arrive, ExecInv, Untouched, AtMostOnce, BeforeSend
<1>3. ASSUME NEW r \in Requests,
             ServeCached(r) \/ Miss(r) \/ StartLoad(r) \/ JoinFlight(r) \/ Admit(r)
             \/ StorePayload(r)
      PROVE  ExecInv'
    <2>1. /\ sent' = sent /\ executed' = executed /\ reply' = reply /\ lost' = lost
          /\ \A q \in Requests \ {r} : at'[q] = at[q]
        BY <1>3 DEF ServeCached, Miss, StartLoad, JoinFlight, Admit, StorePayload
    <2>2. /\ at[r] \notin {"grpc_wait", "http_wait"}
          /\ \/ at'[r] \in {"idle", "deliver"}
             \/ at[r] \in BeforeSend /\ at'[r] \in BeforeSend \cup {"http"}
        BY <1>3 DEF ServeCached, Miss, StartLoad, JoinFlight, Admit, StorePayload,
           BeforeSend
    <2>3. reply[r] = Nothing
        BY <2>2 DEF ExecInv
    <2> HIDE DEF TypeOK
    <2> QED BY <2>1, <2>2, <2>3, SameExecutions, {r} \in SUBSET Requests
<1>4. ASSUME NEW r \in Requests, GiveUp(r) \/ Deliver(r) \/ Release(r) PROVE ExecInv'
    <2> DEFINE R == Answered(r)
    <2>1. /\ sent' = sent /\ executed' = executed /\ reply' = reply /\ lost' = lost
          /\ R \in SUBSET Requests
          /\ \A q \in Requests \ R : at'[q] = at[q]
          /\ \A q \in R : at'[q] \in {at[q], "idle", "store"}
        BY <1>4 DEF GiveUp, Deliver, Release, Answer, Answered
    <2>2. \A q \in R : at[q] \notin {"grpc_wait", "http_wait"}
        BY <1>4 DEF GiveUp, Deliver, Release, Answer, Answered
    <2>3. \A q \in R : /\ reply[q] = Nothing
                       /\ \/ at'[q] \in {"idle", "store"}
                          \/ at[q] \in BeforeSend /\ at'[q] \in BeforeSend
        <3>1. \A q \in R : at[q] = "follow" \/ q = r
            BY DEF Answered
        <3>2. at'[r] \in {"idle", "store"}
            BY <1>4 DEF GiveUp, Deliver, Release, Answer, Answered
        <3> QED BY <2>1, <2>2, <3>1, <3>2 DEF ExecInv, BeforeSend
    <2> HIDE DEF TypeOK, R
    <2> QED BY <2>1, <2>3, SameExecutions
<1>5. ASSUME NEW r \in Requests, NEW t \in Transports, FailFast(r, t) \/ SeeExpired(r, t)
      PROVE  ExecInv'
    <2>1. /\ sent' = sent /\ executed' = executed /\ reply' = reply /\ lost' = lost
          /\ \A q \in Requests \ {r} : at'[q] = at[q]
        BY <1>5 DEF FailFast, SeeExpired, Finish
    <2>2. /\ at[r] \notin {"grpc_wait", "http_wait"}
          /\ \/ at'[r] = "release"
             \/ at[r] = "grpc" /\ at'[r] = "grpc_drop"
             \/ at[r] = "http" /\ at'[r] = "http_drop"
        BY <1>5, ClientStages DEF FailFast, SeeExpired, Finish, Transports
    <2>3. reply[r] = Nothing
        BY <2>2 DEF ExecInv
    <2>4. {"grpc", "grpc_drop"} \subseteq BeforeSend
        BY DEF BeforeSend
    <2> HIDE DEF TypeOK
    <2> QED BY <2>1, <2>2, <2>3, <2>4, SameExecutions, {r} \in SUBSET Requests
<1>6. ASSUME NEW r \in Requests, NEW t \in Transports, Send(r, t) PROVE ExecInv'
    <2>1. /\ executed' = executed /\ reply' = reply /\ lost' = lost
          /\ \A q \in Requests \ {r} : at'[q] = at[q] /\ sent'[q] = sent[q]
          /\ sent'[r] = sent[r] \cup {t}
          /\ at[r] \in {"grpc", "grpc_drop", "http", "http_drop"}
          /\ at'[r] \in {"grpc_wait", "http_wait"}
        BY <1>6, ClientStages DEF Send, Transports
    <2>2. /\ reply[r] = Nothing
          /\ r \notin lost => executed[r] = 0 /\ sent[r] = {}
        BY <2>1 DEF ExecInv, BeforeSend, Untouched
    <2>3. r \notin lost => AtMostOnce(r)'
        BY <2>1, <2>2 DEF AtMostOnce, Transports
    <2> QED BY <2>1, <2>2, <2>3
        DEF ExecInv, BeforeSend, Untouched, AtMostOnce, Nothing
<1>7. ASSUME NEW r \in Requests, NEW t \in Transports, Handle(r, t) PROVE ExecInv'
    <2>1. PICK a \in Replies, ran \in BOOLEAN :
             /\ a = "unavailable" => ~ran
             /\ executed' = [executed EXCEPT ![r] = IF ran THEN @ + 1 ELSE @]
             /\ reply' = [reply EXCEPT ![r] = IF at[r] = Wait[t] THEN a ELSE @]
        BY <1>7 DEF Handle
    <2>2. /\ at' = at /\ lost' = lost /\ t \in sent[r]
          /\ sent'[r] = sent[r] \ {t}
          /\ \A q \in Requests \ {r} : /\ sent'[q] = sent[q]
                                       /\ executed'[q] = executed[q]
                                       /\ reply'[q] = reply[q]
        BY <1>7, <2>1 DEF Handle
    <2>3. /\ executed'[r] = IF ran THEN executed[r] + 1 ELSE executed[r]
          /\ reply'[r] = IF at[r] = Wait[t] THEN a ELSE reply[r]
        BY <2>1
    <2>4. ~Untouched(r)
        BY <2>2 DEF Untouched
    <2>5. at[r] \notin BeforeSend
        BY <2>4 DEF ExecInv
    <2>6. r \notin lost => executed[r] = 0 /\ sent'[r] = {} /\ AtMostOnce(r)'
        BY <2>2, <2>3 DEF ExecInv, AtMostOnce
    <2>7. r \notin lost =>
             /\ at[r] \notin {"http", "http_drop"}
             /\ at[r] = "grpc_wait" /\ reply'[r] = "unavailable" => Untouched(r)'
        BY <2>1, <2>2, <2>3, <2>4, <2>6 DEF ExecInv, Untouched
    <2>8. at[r] \notin {"grpc_wait", "http_wait"} => reply'[r] = Nothing
        BY <2>3, ClientStages DEF ExecInv, Transports
    <2> QED BY <2>2, <2>5, <2>6, <2>7, <2>8 DEF ExecInv, Untouched, AtMostOnce
<1>8. ASSUME NEW r \in Requests, NEW t \in Transports, Receive(r, t) PROVE ExecInv'
    <2>1. /\ sent' = sent /\ executed' = executed /\ lost' = lost
          /\ \A q \in Requests \ {r} : at'[q] = at[q] /\ reply'[q] = reply[q]
          /\ reply'[r] = Nothing
          /\ \/ at[r] = "grpc_wait" /\ reply[r] = "unavailable" /\ at'[r] = "http"
             \/ at'[r] = "release"
        BY <1>8, ClientStages DEF Receive, FallsBack, Finish, Transports
    <2> QED BY <2>1 DEF ExecInv, Untouched, AtMostOnce, BeforeSend
<1>9. ASSUME NEW r \in Requests, NEW t \in Transports, NoAnswer(r, t) PROVE ExecInv'
    <2>1. /\ sent' = sent /\ executed' = executed /\ lost \subseteq lost'
          /\ \A q \in Requests \ {r} :
                at'[q] = at[q] /\ reply'[q] = reply[q] /\ (q \in lost' <=> q \in lost)
          /\ reply'[r] = Nothing
          /\ (at'[r] = "http" /\ r \in lost') \/ at'[r] = "release"
        BY <1>9 DEF NoAnswer, Finish, Transports
    <2> QED BY <2>1 DEF ExecInv, Untouched, AtMostOnce, BeforeSend
<1>10. CASE Next
    BY <1>1, <1>2, <1>3, <1>4, <1>5, <1>6, <1>7, <1>8, <1>9, <1>10 DEF Next, Local
<1> QED BY <1>1, <1>10

-----------------------------------------------------------------------------
IInv == TypeOK /\ TokenAccounting /\ FlightInv /\ ExecInv

(* The gateway starts with no request under way, and every step of its     *)
(* pipeline, its clients and the connector keeps the invariant.            *)
THEOREM GatewayInductive == Spec => []IInv
<1>1. Init => IInv
    <2> SUFFICES ASSUME Init PROVE IInv
        OBVIOUS
    <2>1. TokenAccounting
        <3>1. {r \in Requests : at[r] \in Holding} = {}
            BY DEF Init, Holding
        <3> QED BY <3>1, FS_EmptySet DEF TokenAccounting, Init
    <2>2. FlightInv
        BY DEF Init, FlightInv, FlightUnderWay, CacheHoldsReads, Nothing, InFlight, Loading
    <2>3. ExecInv
        BY DEF Init, ExecInv, Untouched, AtMostOnce, BeforeSend
    <2> QED BY <2>1, <2>2, <2>3, TypeInit DEF IInv
<1>2. IInv /\ [Next]_vars => IInv'
    BY TypeStep, TokenStep, FlightStep, ExecStep DEF IInv
<1> QED BY <1>1, <1>2, PTL DEF Spec

(* The gateway's state keeps its types; the channel never holds more than  *)
(* DDAG_BACKPRESSURE_SIZE tokens and is never read when empty.             *)
THEOREM GatewayTypeOK == Spec => []TypeOK
BY GatewayInductive, PTL DEF IInv

(* resolvePayload stores nothing but results of read operations.           *)
THEOREM GatewayCacheHoldsReads == Spec => []CacheHoldsReads
<1>1. IInv => CacheHoldsReads
    BY DEF IInv, FlightInv
<1> QED BY <1>1, GatewayInductive, PTL

(* load gives its token back on every path, once.                          *)
THEOREM GatewayTokenAccounting == Spec => []TokenAccounting
BY GatewayInductive, PTL DEF IInv

(* flights.Do lets one request of a cache key load at a time, and nobody   *)
(* waits for a flight that is over.                                        *)
THEOREM GatewayOneLoadPerKey == Spec => []OneLoadPerKey
<1>1. IInv => OneLoadPerKey
    BY DEF IInv, FlightInv, OneLoadPerKey, InFlight
<1> QED BY <1>1, GatewayInductive, PTL

(* DualTransportClient.Query repeats only what went unanswered.            *)
THEOREM GatewayRepeatedOnlyIfUnanswered == Spec => []RepeatedOnlyIfUnanswered
<1>1. IInv => RepeatedOnlyIfUnanswered
    BY DEF IInv, ExecInv, AtMostOnce, RepeatedOnlyIfUnanswered
<1> QED BY <1>1, GatewayInductive, PTL
=============================================================================
