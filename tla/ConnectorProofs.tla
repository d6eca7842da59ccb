-------------------------- MODULE ConnectorProofs --------------------------
(***************************************************************************)
(* Safety of the connector's query handler for every set of requests and   *)
(* every breaker and admission setting.  The handler uses the admission    *)
(* controller only through its operations, so the theorems of              *)
(* AdmissionProofs carry over to the composition.                          *)
(***************************************************************************)
EXTENDS Connector, FiniteSetTheorems, TLAPS

LEMMA Settings ==
    /\ MaxProbes \in Nat \ {0} /\ OpenTime \in Nat \ {0}
    /\ Window \in Nat \ {0} /\ Threshold \in Nat \ {0}
    /\ Skew \in Nat /\ RatioNum \in Int /\ RatioDen \in Nat
BY BreakerAssumption DEF MaxProbes, OpenTime, Window, Threshold, OrDefault

LEMMA NowsFacts == \A now \in Nows : now \in Int /\ -Skew <= now /\ now <= 0
BY Settings DEF Nows

(* Rotating the window touches neither the state nor the half-open slots,  *)
(* and only ever forgets failures.                                         *)
LEMMA RotateFacts ==
    ASSUME NEW c \in Breakers, NEW now \in Nows
    PROVE  /\ RotateWindow(c, now) \in Breakers
           /\ RotateWindow(c, now).state = c.state
           /\ RotateWindow(c, now).openedAt = c.openedAt
           /\ RotateWindow(c, now).halfOpenInUse = c.halfOpenInUse
           /\ RotateWindow(c, now).failures \in {0, c.failures}
BY NowsFacts, Settings DEF RotateWindow, Breakers

LEMMA OpenCloseFacts ==
    ASSUME NEW c \in Breakers, NEW now \in Int
    PROVE  /\ Open(c, now) \in Breakers
           /\ Open(c, now).state = "open" /\ Open(c, now).openedAt = now
           /\ Close(c, now) \in Breakers
           /\ Close(c, now).state = "closed" /\ Close(c, now).failures = 0
<1>1. Open(c, now) \in Breakers /\ Close(c, now) \in Breakers
    BY DEF Open, Close, Breakers
<1>2. Open(c, now).state = "open" /\ Open(c, now).openedAt = now
    BY DEF Open, Breakers
<1>3. Close(c, now).state = "closed" /\ Close(c, now).failures = 0
    BY DEF Close, Breakers
<1> QED BY <1>1, <1>2, <1>3

LEMMA ProbeFacts ==
    ASSUME NEW c \in Breakers,
           NEW h, h = [c EXCEPT !.state = "half_open", !.halfOpenInUse = 1]
    PROVE  /\ h \in Breakers
           /\ h.state = "half_open" /\ h.halfOpenInUse = 1
           /\ h.failures = c.failures /\ h.openedAt = c.openedAt
<1>1. h \in Breakers
    BY DEF Breakers
<1>2. /\ h.state = "half_open" /\ h.halfOpenInUse = 1
      /\ h.failures = c.failures /\ h.openedAt = c.openedAt
    BY DEF Breakers
<1> QED BY <1>1, <1>2

LEMMA AllowFacts ==
    ASSUME NEW c \in Breakers, NEW now \in Nows
    PROVE  /\ Allow(c, now) \in Breakers
           /\ Allow(c, now).failures \in {0, c.failures}
           /\ Allow(c, now).openedAt = c.openedAt
           /\ ~Allows(c, now) => /\ Allow(c, now).state = c.state
                                 /\ Allow(c, now).halfOpenInUse = c.halfOpenInUse
           /\ Allows(c, now) =>
                /\ c.state = "closed" => Allow(c, now).state = "closed"
                /\ c.state = "open" => /\ Allow(c, now).state = "half_open"
                                       /\ Allow(c, now).halfOpenInUse = 1
                                       /\ c.openedAt <= -OpenTime
                /\ c.state = "half_open" =>
                     /\ Allow(c, now).state = "half_open"
                     /\ c.halfOpenInUse < MaxProbes
                     /\ Allow(c, now).halfOpenInUse = c.halfOpenInUse + 1
<1> DEFINE w == RotateWindow(c, now)
<1>1. /\ w \in Breakers /\ w.state = c.state /\ w.openedAt = c.openedAt
      /\ w.halfOpenInUse = c.halfOpenInUse /\ w.failures \in {0, c.failures}
    BY RotateFacts
<1>2. Allow(c, now) = IF ~Allows(c, now) THEN w
        ELSE CASE w.state = "closed"    -> [w EXCEPT !.requests = @ + 1]
               [] w.state = "open"      -> [w EXCEPT !.state = "half_open",
                                                     !.halfOpenInUse = 1]
               [] w.state = "half_open" -> [w EXCEPT !.halfOpenInUse = @ + 1]
    BY DEF Allow
<1>3. now \in Int /\ now <= 0 /\ c.openedAt \in Int /\ OpenTime \in Int
    BY NowsFacts, Settings DEF Breakers
<1> HIDE DEF w
<1>4. CASE ~Allows(c, now)
    BY <1>1, <1>2, <1>4
<1>5. CASE Allows(c, now) /\ c.state = "closed"
    BY <1>1, <1>2, <1>5 DEF Breakers
<1>6. CASE Allows(c, now) /\ c.state = "open"
    <2>1. c.openedAt <= -OpenTime
        BY <1>3, <1>6 DEF Allows
    <2>2. Allow(c, now) = [w EXCEPT !.state = "half_open", !.halfOpenInUse = 1]
        BY <1>1, <1>2, <1>6
    <2>3. /\ Allow(c, now) \in Breakers
          /\ Allow(c, now).state = "half_open" /\ Allow(c, now).halfOpenInUse = 1
          /\ Allow(c, now).failures = w.failures /\ Allow(c, now).openedAt = w.openedAt
        BY <2>2, <1>1, ProbeFacts
    <2> QED BY <2>1, <2>3, <1>1, <1>6
<1>7. CASE Allows(c, now) /\ c.state = "half_open"
    <2>1. c.halfOpenInUse < MaxProbes
        BY <1>7 DEF Allows
    <2> QED BY <2>1, <1>1, <1>2, <1>7 DEF Breakers
<1>8. c.state \in {"closed", "open", "half_open"}
    BY DEF Breakers
<1> QED
    BY <1>4, <1>5, <1>6, <1>7, <1>8

LEMMA ReportFacts ==
    ASSUME NEW c \in Breakers, NEW success \in BOOLEAN, NEW now \in Nows
    PROVE  /\ Report(c, success, now) \in Breakers
           /\ Report(c, success, now).state # "half_open"
           /\ Report(c, success, now).state = "closed" /\ c.state # "open"
                 => Report(c, success, now).failures < Threshold
           /\ c.state = "open" => /\ Report(c, success, now).state = "open"
                                  /\ Report(c, success, now).openedAt = c.openedAt
           /\ c.state # "open" /\ Report(c, success, now).state = "open"
                 => Report(c, success, now).openedAt = now
<1> DEFINE w == RotateWindow(c, now)
           f == IF success THEN w ELSE [w EXCEPT !.failures = @ + 1]
<1>1. /\ w \in Breakers /\ w.state = c.state /\ w.openedAt = c.openedAt
    BY RotateFacts
<1>2. /\ f \in Breakers /\ f.state = c.state
    BY <1>1 DEF Breakers
<1>3. Report(c, success, now) =
        CASE w.state = "half_open" -> IF success THEN Close(w, now) ELSE Open(w, now)
          [] w.state = "closed"    -> IF ShouldOpen(f) THEN Open(f, now) ELSE f
          [] w.state = "open"      -> w
    BY DEF Report
<1>4. now \in Int /\ Threshold \in Nat \ {0}
    BY NowsFacts, Settings
<1> HIDE DEF w, f
<1>5. CASE c.state = "half_open"
    <2>1. Report(c, success, now) \in {Close(w, now), Open(w, now)}
        BY <1>1, <1>3, <1>5
    <2>2. /\ Open(w, now) \in Breakers
          /\ Open(w, now).state = "open" /\ Open(w, now).openedAt = now
          /\ Close(w, now) \in Breakers
          /\ Close(w, now).state = "closed" /\ Close(w, now).failures = 0
        BY <1>1, <1>4, OpenCloseFacts
    <2> QED BY <2>1, <2>2, <1>4, <1>5
<1>6. CASE c.state = "closed"
    <2>1. CASE ShouldOpen(f)
        <3>1. Report(c, success, now) = Open(f, now)
            BY <2>1, <1>1, <1>3, <1>6
        <3>2. /\ Open(f, now) \in Breakers
              /\ Open(f, now).state = "open" /\ Open(f, now).openedAt = now
            BY <1>2, <1>4, OpenCloseFacts
        <3> QED BY <3>1, <3>2, <1>6
    <2>2. CASE ~ShouldOpen(f)
        <3>1. f.failures < Threshold
            BY <2>2, <1>2, <1>4 DEF ShouldOpen, Breakers
        <3> QED BY <3>1, <2>2, <1>1, <1>2, <1>3, <1>6
    <2> QED BY <2>1, <2>2
<1>7. CASE c.state = "open"
    BY <1>1, <1>3, <1>7
<1>8. c.state \in {"closed", "open", "half_open"}
    BY DEF Breakers
<1> QED
    BY <1>5, <1>6, <1>7, <1>8

LEMMA AgeFacts ==
    ASSUME NEW c \in Breakers
    PROVE  /\ Age(c) \in Breakers
           /\ Age(c).state = c.state
           /\ Age(c).failures = c.failures
           /\ Age(c).halfOpenInUse = c.halfOpenInUse
           /\ Age(c).openedAt \in {c.openedAt, c.openedAt - 1}
<1>1. /\ c.openedAt \in Int /\ c.intervalStart \in Int
      /\ -(OpenTime + Skew) \in Int /\ -(Window + Skew) \in Int
    BY Settings DEF Breakers
<1>2. /\ Older(c.openedAt, -(OpenTime + Skew)) \in {c.openedAt, c.openedAt - 1}
      /\ Older(c.openedAt, -(OpenTime + Skew)) \in Int
      /\ Older(c.intervalStart, -(Window + Skew)) \in Int
    BY <1>1 DEF Older
<1>3. Age(c) = [c EXCEPT !.openedAt = Older(c.openedAt, -(OpenTime + Skew)),
                         !.intervalStart = Older(c.intervalStart, -(Window + Skew))]
    BY DEF Age, Breakers
<1> QED
    BY <1>2, <1>3 DEF Breakers

-----------------------------------------------------------------------------
(* The types of what the handler adds to the admission controller.         *)
CoreType ==
    /\ b \in Breakers
    /\ at \in [Requests -> Stages]
    /\ up \in BOOLEAN
    /\ probes \in SUBSET Requests
    /\ lost \in Nat
    /\ openFor \in 0 .. OpenTime
    /\ recent \in [Ages -> Nat]

(* The history of half-open slots is empty outside a half-open episode.    *)
EpisodeInv == b.state # "half_open" => probes = {} /\ lost = 0

(* openedAt is not older than the real opening by more than Skew.          *)
OpenClock ==
    b.state = "open" => openFor = OpenTime \/ b.openedAt >= -(openFor + Skew)

IInv ==
    /\ CoreType
    /\ EpisodeInv
    /\ ProbeAccounting
    /\ ClosedBelowThreshold
    /\ OpenClock

LEMMA ProbesFinite ==
    ASSUME NEW P \in SUBSET Requests, NEW r
    PROVE  /\ IsFiniteSet(P) /\ Cardinality(P) \in Nat
           /\ r \notin P => Cardinality(P \cup {r}) = Cardinality(P) + 1
           /\ r \in P => /\ Cardinality(P \ {r}) = Cardinality(P) - 1
                         /\ Cardinality(P) - 1 \in Nat
<1>1. IsFiniteSet(P) /\ Cardinality(P) \in Nat
    BY ConnectorAssumption, FS_Subset, FS_CardinalityType
<1>2. r \notin P => Cardinality(P \cup {r}) = Cardinality(P) + 1
    BY <1>1, FS_AddElement
<1>3. /\ IsFiniteSet(P \ {r})
      /\ r \in P => Cardinality(P \ {r}) = Cardinality(P) - 1
    BY <1>1, FS_RemoveElement
<1>4. Cardinality(P \ {r}) \in Nat
    BY <1>3, FS_CardinalityType
<1> QED BY <1>1, <1>2, <1>3, <1>4

LEMMA AgesFacts == Ages \subseteq Nat /\ 0 \in Ages
                   /\ \A a \in Ages : a # 0 => a - 1 \in Ages
BY Settings DEF Ages

LEMMA InitIInv == Init => IInv
<1> SUFFICES ASSUME Init PROVE IInv
    OBVIOUS
<1>1. b \in Breakers /\ b.state = "closed" /\ b.failures = 0
    BY DEF Init, NewBreaker, Breakers
<1>2. CoreType
    BY <1>1, Settings DEF Init, CoreType, Stages, NoFailures
<1> QED
    BY <1>1, <1>2, Settings
    DEF Init, IInv, EpisodeInv, ProbeAccounting, ClosedBelowThreshold, OpenClock

(* Every Report ends a half-open episode.                                  *)
LEMMA ReportsIInv ==
    ASSUME IInv, NEW success \in BOOLEAN, NEW now \in Nows, Reports(success, now),
           at' \in [Requests -> Stages], up' \in BOOLEAN
    PROVE  IInv'
<1> USE DEF IInv
<1>1. /\ b' \in Breakers /\ b'.state # "half_open"
      /\ b'.state = "closed" /\ b.state # "open" => b'.failures < Threshold
      /\ b.state = "open" => b'.state = "open" /\ b'.openedAt = b.openedAt
      /\ b.state # "open" /\ b'.state = "open" => b'.openedAt = now
    BY ReportFacts DEF Reports, CoreType
<1>2. CoreType'
    <2>1. recent' \in [Ages -> Nat]
        BY AgesFacts DEF Reports, CoreType, NoFailures
    <2>2. openFor' \in 0 .. OpenTime
        BY Settings DEF Reports, CoreType
    <2> QED BY <2>1, <2>2, <1>1 DEF Reports, CoreType
<1>3. EpisodeInv' /\ ProbeAccounting'
    BY <1>1 DEF Reports, EpisodeInv, ProbeAccounting
<1>4. ClosedBelowThreshold'
    BY <1>1 DEF ClosedBelowThreshold
<1>5. OpenClock'
    <2>1. CASE b.state = "open"
        BY <2>1, <1>1 DEF OpenClock, Reports
    <2>2. CASE b.state # "open"
        BY <2>2, <1>1, NowsFacts, Settings DEF OpenClock, Reports
    <2> QED BY <2>1, <2>2
<1> QED BY <1>2, <1>3, <1>4, <1>5

(* Leaving without a Report moves a slot from probes to lost.              *)
LEMMA LeavesIInv ==
    ASSUME IInv, NEW r \in Requests, LeavesUnreported(r),
           at' \in [Requests -> Stages], up' \in BOOLEAN,
           \A q \in Requests \ {r} : at'[q] = at[q]
    PROVE  IInv'
<1> USE DEF IInv, LeavesUnreported
<1>1. CoreType'
    BY DEF CoreType
<1>2. Cardinality(probes') + lost' = Cardinality(probes) + lost
    BY ProbesFinite DEF CoreType
<1>3. ProbeAccounting'
    BY <1>2 DEF ProbeAccounting, CoreType
<1>4. EpisodeInv' /\ ClosedBelowThreshold' /\ OpenClock'
    BY DEF EpisodeInv, ClosedBelowThreshold, OpenClock
<1> QED BY <1>1, <1>3, <1>4

LEMMA StepIInv == IInv /\ [Next]_vars => IInv'
<1> SUFFICES ASSUME IInv, [Next]_vars PROVE IInv'
    OBVIOUS
<1> USE DEF IInv
<1>1. CASE UNCHANGED vars
    BY <1>1 DEF vars, history, CoreType, EpisodeInv, ProbeAccounting,
                ClosedBelowThreshold, OpenClock
<1>2. ASSUME NEW r \in Requests, Resolve(r) \/ Waits(r) \/ Admitted(r) \/ Return(r)
      PROVE  IInv'
    <2>1. /\ UNCHANGED <<b, up, history>>
          /\ at' \in [Requests -> Stages]
          /\ \A q \in Requests \ {r} : at'[q] = at[q]
          /\ at[r] \in {"admitting", "work"} => at'[r] \in {"admitting", "work"}
        BY <1>2 DEF Resolve, Waits, Admitted, Return, CoreType, Stages
    <2>2. ProbeAccounting'
        BY <2>1 DEF history, ProbeAccounting, CoreType
    <2> QED
        BY <2>1, <2>2 DEF history, CoreType, EpisodeInv, ClosedBelowThreshold, OpenClock
<1>3. ASSUME NEW r \in Requests, ResolveFails(r) \/ Succeeds(r) \/ Fails(r)
      PROVE  IInv'
    <2>1. /\ \E now \in Nows, success \in BOOLEAN : Reports(success, now)
          /\ at' \in [Requests -> Stages] /\ up' \in BOOLEAN
        BY <1>3 DEF ResolveFails, Succeeds, Fails, CoreType, Stages
    <2> QED BY <2>1, ReportsIInv
<1>4. ASSUME NEW r \in Requests, TurnedAway(r) \/ BadParameters(r)
      PROVE  IInv'
    <2>1. /\ LeavesUnreported(r)
          /\ at' \in [Requests -> Stages] /\ up' \in BOOLEAN
          /\ \A q \in Requests \ {r} : at'[q] = at[q]
        BY <1>4 DEF TurnedAway, BadParameters, CoreType, Stages
    <2> QED BY <2>1, LeavesIInv
<1>5. ASSUME NEW r \in Requests, CircuitRefuses(r)
      PROVE  IInv'
    <2>1. PICK now \in Nows : ~Allows(b, now) /\ b' = Allow(b, now)
        BY <1>5 DEF CircuitRefuses
    <2>2. /\ b' \in Breakers /\ b'.failures \in {0, b.failures}
          /\ b'.openedAt = b.openedAt /\ b'.state = b.state
          /\ b'.halfOpenInUse = b.halfOpenInUse
        BY <2>1, AllowFacts DEF CoreType
    <2>3. CoreType' /\ EpisodeInv'
        BY <2>2, <1>5 DEF CircuitRefuses, history, CoreType, EpisodeInv, Stages
    <2>4. ProbeAccounting'
        BY <2>2, <1>5 DEF CircuitRefuses, history, CoreType, ProbeAccounting
    <2>5. ClosedBelowThreshold' /\ OpenClock'
        BY <2>2, <1>5, Settings
        DEF CircuitRefuses, history, ClosedBelowThreshold, OpenClock
    <2> QED BY <2>3, <2>4, <2>5
<1>6. ASSUME NEW r \in Requests, CircuitAllows(r)
      PROVE  IInv'
    <2>1. PICK now \in Nows : Allows(b, now) /\ b' = Allow(b, now)
        BY <1>6 DEF CircuitAllows
    <2>2. /\ b' \in Breakers /\ b'.failures \in {0, b.failures}
          /\ b'.openedAt = b.openedAt
          /\ b.state = "closed" => b'.state = "closed"
          /\ b.state = "open" => b'.state = "half_open" /\ b'.halfOpenInUse = 1
          /\ b.state = "half_open" => /\ b'.state = "half_open"
                                      /\ b.halfOpenInUse < MaxProbes
                                      /\ b'.halfOpenInUse = b.halfOpenInUse + 1
          /\ b.state \in {"closed", "open", "half_open"}
          /\ b.halfOpenInUse \in Nat
        <3>1. b \in Breakers
            BY DEF CoreType
        <3> QED BY <3>1, <2>1, AllowFacts DEF Breakers
    <2>3. /\ at' = [at EXCEPT ![r] = "admitting"] /\ at[r] = "allow"
          /\ probes' = IF b'.state = "half_open" THEN probes \cup {r} ELSE probes
          /\ UNCHANGED <<up, lost, openFor, recent>>
        BY <1>6 DEF CircuitAllows
    <2>4. CoreType'
        BY <2>2, <2>3 DEF CoreType, Stages
    <2>5. ClosedBelowThreshold' /\ OpenClock' /\ EpisodeInv'
        BY <2>2, <2>3, Settings DEF ClosedBelowThreshold, OpenClock, EpisodeInv
    <2>6. r \notin probes
        BY <2>3 DEF ProbeAccounting
    <2>7. Cardinality(probes \cup {r}) = Cardinality(probes) + 1
          /\ Cardinality(probes) \in Nat
        BY <2>6, ProbesFinite DEF CoreType
    <2>8. ProbeAccounting'
        <3>1. CASE b.state = "closed"
            BY <3>1, <2>2, <2>3 DEF ProbeAccounting, EpisodeInv
        <3>2. CASE b.state = "open"
            <4>1. probes' = {r} /\ lost' = 0 /\ b'.state = "half_open"
                BY <3>2, <2>2, <2>3 DEF EpisodeInv
            <4>2. Cardinality({r}) = 1
                BY FS_Singleton
            <4>3. b'.halfOpenInUse = Cardinality(probes') + lost'
                BY <4>1, <4>2, <3>2, <2>2
            <4>4. b'.halfOpenInUse \in 1 .. MaxProbes
                BY <3>2, <2>2, Settings
            <4>5. at'[r] \in {"admitting", "work"}
                BY <2>3 DEF CoreType
            <4> QED BY <4>1, <4>3, <4>4, <4>5 DEF ProbeAccounting
        <3>3. CASE b.state = "half_open"
            <4>1. /\ b'.halfOpenInUse = Cardinality(probes') + lost'
                  /\ b'.halfOpenInUse \in 1 .. MaxProbes
                BY <3>3, <2>2, <2>3, <2>7, Settings DEF ProbeAccounting, CoreType
            <4>2. \A q \in probes' : at'[q] \in {"admitting", "work"}
                BY <3>3, <2>2, <2>3 DEF ProbeAccounting, CoreType
            <4> QED BY <4>1, <4>2, <3>3, <2>2 DEF ProbeAccounting
        <3> QED BY <3>1, <3>2, <3>3, <2>2
    <2> QED BY <2>4, <2>5, <2>8
<1>7. CASE Tick
    <2>1. /\ b' \in Breakers /\ b'.state = b.state /\ b'.failures = b.failures
          /\ b'.halfOpenInUse = b.halfOpenInUse
          /\ b'.openedAt \in {b.openedAt, b.openedAt - 1}
          /\ b.openedAt \in Int
        <3>1. b \in Breakers
            BY DEF CoreType
        <3> QED BY <3>1, <1>7, AgeFacts DEF Tick, Breakers
    <2>2. /\ openFor' \in 0 .. OpenTime
          /\ openFor' = IF openFor < OpenTime THEN openFor + 1 ELSE openFor
        BY <1>7, Settings DEF Tick, CoreType
    <2>3. recent' \in [Ages -> Nat]
        BY <1>7, AgesFacts DEF Tick, CoreType
    <2>4. CoreType'
        BY <2>1, <2>2, <2>3, <1>7 DEF Tick, CoreType
    <2>5. OpenClock'
        BY <2>1, <2>2, Settings DEF OpenClock, CoreType
    <2>6. EpisodeInv' /\ ProbeAccounting' /\ ClosedBelowThreshold'
        BY <2>1, <1>7 DEF Tick, EpisodeInv, ProbeAccounting, ClosedBelowThreshold
    <2> QED BY <2>4, <2>5, <2>6
<1>8. CASE SourceChanges
    BY <1>8 DEF SourceChanges, history, CoreType, EpisodeInv, ProbeAccounting,
                ClosedBelowThreshold, OpenClock
<1> QED
    BY <1>1, <1>2, <1>3, <1>4, <1>5, <1>6, <1>7, <1>8 DEF Next

(* The inductive invariant of the handler.                                 *)
THEOREM ConnectorInductive == Spec => []IInv
BY InitIInv, StepIInv, PTL DEF Spec

(* A recovering source sees at most MaxRequests probes, and every slot of  *)
(* the half-open state is accounted for.                                   *)
THEOREM ConnectorProbeAccounting == Spec => []ProbeAccounting
BY ConnectorInductive, PTL DEF IInv

(* A breaker that is still closed has seen fewer than its threshold of     *)
(* failures in the window it counts.                                       *)
THEOREM ConnectorClosedBelowThreshold == Spec => []ClosedBelowThreshold
BY ConnectorInductive, PTL DEF IInv

(* An open breaker lets nothing through before its timeout, and no late    *)
(* report ends its time.                                                   *)
THEOREM ConnectorOpenShieldsSource == Spec => OpenShieldsSource
<1> DEFINE Leaves == /\ b.state = "open"
                     /\ \/ b'.state # "open"
                        \/ \E r \in Requests : at[r] = "allow" /\ at'[r] = "admitting"
<1>1. IInv /\ [Next]_vars => [Leaves => openFor >= OpenTime - Skew]_vars
    <2> SUFFICES ASSUME IInv, Next, Leaves
                 PROVE  openFor >= OpenTime - Skew
        OBVIOUS
    <2>0. b \in Breakers
        BY DEF IInv, CoreType
    <2>1. \E r \in Requests : CircuitAllows(r)
        <3>1. ASSUME NEW success \in BOOLEAN, NEW now \in Nows, Reports(success, now)
              PROVE  b'.state = "open"
            BY <2>0, <3>1, ReportFacts DEF Reports
        <3>2. ASSUME NEW r \in Requests, ResolveFails(r) \/ Succeeds(r) \/ Fails(r)
              PROVE  b'.state = "open" /\ \A q \in Requests : at'[q] # "admitting" \/ at'[q] = at[q]
            BY <3>1, <3>2 DEF ResolveFails, Succeeds, Fails, IInv, CoreType
        <3>3. ASSUME NEW r \in Requests, CircuitRefuses(r)
              PROVE  b'.state = "open" /\ \A q \in Requests : at'[q] # "admitting" \/ at'[q] = at[q]
            BY <2>0, <3>3, AllowFacts DEF CircuitRefuses, IInv, CoreType
        <3>4. ASSUME NEW r \in Requests,
                     Resolve(r) \/ Waits(r) \/ Admitted(r) \/ TurnedAway(r) \/ BadParameters(r)
                     \/ Return(r)
              PROVE  b'.state = "open" /\ \A q \in Requests : at'[q] # "admitting" \/ at'[q] = at[q]
            BY <3>4 DEF Resolve, Waits, Admitted, TurnedAway, BadParameters, Return,
                        LeavesUnreported, IInv, CoreType
        <3>5. CASE Tick \/ SourceChanges
            BY <2>0, <3>5, AgeFacts DEF Tick, SourceChanges
        <3> QED BY <3>2, <3>3, <3>4, <3>5 DEF Next
    <2>2. b.openedAt <= -OpenTime /\ b.openedAt \in Int
        BY <2>0, <2>1, AllowFacts DEF CircuitAllows, Breakers
    <2> QED
        BY <2>2, Settings DEF IInv, OpenClock, CoreType
<1>2. QED
    BY <1>1, ConnectorInductive, PTL DEF Spec, OpenShieldsSource

-----------------------------------------------------------------------------
(* What the breaker has counted in its window was really reported since    *)
(* the window began: an older failure is forgotten in time.                *)
Monotone == \A a, c \in Ages : a <= c => recent[a] <= recent[c]

WindowInv ==
    /\ Monotone
    /\ b.intervalStart <= 0
    /\ b.state = "closed" /\ ~b.started => b.failures = 0
    /\ b.state = "closed" /\ b.started /\ -b.intervalStart \in Ages
          => b.failures <= recent[-b.intervalStart]

(* The window a call counts into began at most Window + Skew seconds ago.  *)
LEMMA RotatedWindow ==
    ASSUME NEW c \in Breakers, NEW now \in Nows, c.intervalStart <= 0
    PROVE  /\ RotateWindow(c, now).started
           /\ RotateWindow(c, now).intervalStart <= 0
           /\ -RotateWindow(c, now).intervalStart \in Ages
           /\ \/ RotateWindow(c, now).failures = 0
              \/ RotateWindow(c, now).failures = c.failures
                 /\ (~c.started \/ RotateWindow(c, now).intervalStart = c.intervalStart)
<1>1. /\ now \in Int /\ -Skew <= now /\ now <= 0 /\ c.intervalStart \in Int
      /\ c.started \in BOOLEAN /\ Window \in Nat \ {0} /\ Skew \in Nat
    BY NowsFacts, Settings DEF Breakers
<1>2. CASE ~c.started
    <2>1. RotateWindow(c, now) = [c EXCEPT !.started = TRUE, !.intervalStart = now]
        BY <1>2 DEF RotateWindow
    <2>2. /\ RotateWindow(c, now).started /\ RotateWindow(c, now).intervalStart = now
          /\ RotateWindow(c, now).failures = c.failures
        BY <2>1 DEF Breakers
    <2> QED BY <2>2, <1>1, <1>2 DEF Ages
<1>3. CASE c.started /\ now - c.intervalStart >= Window
    <2>1. RotateWindow(c, now)
            = [c EXCEPT !.intervalStart = now, !.requests = 0, !.failures = 0]
        BY <1>3 DEF RotateWindow
    <2>2. /\ RotateWindow(c, now).started /\ RotateWindow(c, now).intervalStart = now
          /\ RotateWindow(c, now).failures = 0
        BY <2>1, <1>3 DEF Breakers
    <2> QED BY <2>2, <1>1 DEF Ages
<1>4. CASE c.started /\ ~(now - c.intervalStart >= Window)
    <2>1. RotateWindow(c, now) = c
        BY <1>4 DEF RotateWindow
    <2>2. -c.intervalStart \in Ages
        BY <1>1, <1>4 DEF Ages
    <2> QED BY <2>1, <2>2, <1>4
<1> QED BY <1>1, <1>2, <1>3, <1>4

(* Rotating the window of a closed breaker leaves no failure that was not  *)
(* reported within it.                                                     *)
LEMMA RotatedCount ==
    ASSUME IInv, WindowInv, NEW now \in Nows, b.state = "closed"
    PROVE  RotateWindow(b, now).failures <= recent[-RotateWindow(b, now).intervalStart]
<1> DEFINE w == RotateWindow(b, now)
<1>1. /\ w.started /\ -w.intervalStart \in Ages
      /\ \/ w.failures = 0
         \/ w.failures = b.failures /\ (~b.started \/ w.intervalStart = b.intervalStart)
    BY RotatedWindow DEF IInv, CoreType, WindowInv
<1>2. recent[-w.intervalStart] \in Nat /\ b.failures \in Nat
    BY <1>1 DEF IInv, CoreType, Breakers
<1> SUFFICES w.failures <= recent[-w.intervalStart]
    OBVIOUS
<1> HIDE DEF w
<1>3. CASE w.failures = 0
    BY <1>2, <1>3
<1>4. CASE w.failures = b.failures /\ ~b.started
    BY <1>2, <1>4 DEF WindowInv
<1>5. CASE w.failures = b.failures /\ b.started /\ w.intervalStart = b.intervalStart
    BY <1>1, <1>5 DEF WindowInv
<1>6. b.started \in BOOLEAN
    BY DEF IInv, CoreType, Breakers
<1> QED BY <1>1, <1>3, <1>4, <1>5, <1>6

(* What Allow leaves of the window.                                        *)
LEMMA AllowWindow ==
    ASSUME NEW c \in Breakers, NEW now \in Nows
    PROVE  /\ Allow(c, now).started = RotateWindow(c, now).started
           /\ Allow(c, now).intervalStart = RotateWindow(c, now).intervalStart
           /\ Allow(c, now).failures = RotateWindow(c, now).failures
           /\ Allow(c, now).state = "closed" => c.state = "closed"
<1> DEFINE w == RotateWindow(c, now)
<1>1. w \in Breakers /\ w.state = c.state
    BY RotateFacts
<1>2. Allow(c, now) = IF ~Allows(c, now) THEN w
        ELSE CASE w.state = "closed"    -> [w EXCEPT !.requests = @ + 1]
               [] w.state = "open"      -> [w EXCEPT !.state = "half_open",
                                                     !.halfOpenInUse = 1]
               [] w.state = "half_open" -> [w EXCEPT !.halfOpenInUse = @ + 1]
    BY DEF Allow
<1> HIDE DEF w
<1>3. w.state \in {"closed", "open", "half_open"}
    BY <1>1 DEF Breakers
<1>4. Allow(c, now) \in {w, [w EXCEPT !.requests = @ + 1],
                         [w EXCEPT !.state = "half_open", !.halfOpenInUse = 1],
                         [w EXCEPT !.halfOpenInUse = @ + 1]}
    BY <1>2, <1>3
<1>5. /\ Allow(c, now).started = w.started
      /\ Allow(c, now).intervalStart = w.intervalStart
      /\ Allow(c, now).failures = w.failures
      /\ Allow(c, now).state = "closed" => w.state = "closed"
    BY <1>1, <1>4 DEF Breakers
<1> QED BY <1>1, <1>5 DEF w

(* The same for a Report to a closed breaker.                              *)
LEMMA ReportWindow ==
    ASSUME NEW c \in Breakers, NEW success \in BOOLEAN, NEW now \in Nows,
           c.state = "closed"
    PROVE  \E f \in Breakers :
             /\ f.started = RotateWindow(c, now).started
             /\ f.intervalStart = RotateWindow(c, now).intervalStart
             /\ f.failures = RotateWindow(c, now).failures + (IF success THEN 0 ELSE 1)
             /\ f.state = "closed"
             /\ Report(c, success, now) = IF ShouldOpen(f) THEN Open(f, now) ELSE f
<1> DEFINE w == RotateWindow(c, now)
           f == IF success THEN w ELSE [w EXCEPT !.failures = @ + 1]
<1>1. /\ w \in Breakers /\ w.state = "closed"
    BY RotateFacts
<1>2. Report(c, success, now) = IF ShouldOpen(f) THEN Open(f, now) ELSE f
    BY <1>1 DEF Report
<1> HIDE DEF w
<1>3. /\ f \in Breakers /\ f.started = w.started /\ f.intervalStart = w.intervalStart
      /\ f.failures = w.failures + (IF success THEN 0 ELSE 1) /\ f.state = "closed"
    BY <1>1 DEF Breakers
<1> HIDE DEF f
<1> QED BY <1>2, <1>3 DEF w

(* The instants and counters open and close set.                           *)
LEMMA OpenCloseWindow ==
    ASSUME NEW c \in Breakers, NEW now \in Int
    PROVE  /\ Open(c, now).intervalStart = c.intervalStart
           /\ Close(c, now).intervalStart = now /\ Close(c, now).failures = 0
           /\ Close(c, now).started
BY DEF Open, Close, Breakers

(* A Report keeps the count honest, and trips the breaker, when the ratio  *)
(* is disabled, only on that count.                                        *)
LEMMA ReportsWindow ==
    ASSUME IInv, WindowInv, NEW success \in BOOLEAN, NEW now \in Nows,
           Reports(success, now)
    PROVE  /\ WindowInv'
           /\ RatioNum = 0 /\ b.state = "closed" /\ b'.state = "open"
                => recent'[Window + Skew - 1] >= Threshold
<1>1. /\ b \in Breakers /\ b.state \in {"closed", "open", "half_open"}
      /\ recent \in [Ages -> Nat] /\ b.intervalStart <= 0
      /\ b' = Report(b, success, now)
      /\ now \in Int /\ -Skew <= now /\ now <= 0
    BY NowsFacts DEF IInv, CoreType, WindowInv, Reports, Breakers
<1> DEFINE w == RotateWindow(b, now)
<1>2. /\ w \in Breakers /\ w.state = b.state /\ w.started
      /\ w.intervalStart <= 0 /\ -w.intervalStart \in Ages
    BY <1>1, RotateFacts, RotatedWindow
<1>3. CASE b.state = "half_open"
    <2>1. recent' = NoFailures
        BY <1>3 DEF Reports
    <2>2. b' \in {Close(w, now), Open(w, now)}
        BY <1>1, <1>2, <1>3 DEF Report
    <2>3. /\ b'.intervalStart <= 0
          /\ b'.state = "closed" => b'.started /\ b'.failures = 0
        <3> HIDE DEF w
        <3>1. /\ Open(w, now).intervalStart = w.intervalStart
              /\ Close(w, now).intervalStart = now /\ Close(w, now).failures = 0
              /\ Close(w, now).started
            BY <1>1, <1>2, OpenCloseWindow
        <3>2. Open(w, now).state = "open"
            BY <1>1, <1>2, OpenCloseFacts
        <3> QED BY <1>1, <1>2, <2>2, <3>1, <3>2
    <2>4. \A a \in Ages : recent'[a] = 0
        BY <2>1 DEF NoFailures
    <2> QED BY <2>3, <2>4, <1>3 DEF WindowInv, Monotone
<1>4. CASE b.state = "open"
    <2>1. b' = w /\ recent' = recent
        BY <1>1, <1>2, <1>4 DEF Report, Reports
    <2> HIDE DEF w
    <2> QED BY <2>1, <1>2, <1>4 DEF WindowInv, Monotone
<1>5. CASE b.state = "closed"
    <2>1. w.failures <= recent[-w.intervalStart]
        BY <1>5, RotatedCount
    <2>2. PICK f \in Breakers :
             /\ f.started = w.started
             /\ f.intervalStart = w.intervalStart
             /\ f.failures = w.failures + (IF success THEN 0 ELSE 1)
             /\ f.state = "closed"
             /\ b' = IF ShouldOpen(f) THEN Open(f, now) ELSE f
        BY <1>1, <1>5, ReportWindow
    <2> HIDE DEF w
    <2>3. /\ recent' = IF success THEN recent ELSE [a \in Ages |-> recent[a] + 1]
          /\ \A a \in Ages : recent'[a] = recent[a] + (IF success THEN 0 ELSE 1)
        BY <1>1, <1>5 DEF Reports
    <2>4. f.failures <= recent'[-f.intervalStart] /\ f.failures \in Nat
        <3>1. w.failures \in Nat /\ recent[-w.intervalStart] \in Nat
            BY <1>1, <1>2 DEF Breakers
        <3> QED BY <3>1, <2>1, <2>2, <2>3, <1>2
    <2>5. Monotone'
        <3>1. \A a \in Ages : recent[a] \in Nat
            BY <1>1
        <3>2. ASSUME NEW a \in Ages, NEW c \in Ages, a <= c
              PROVE  recent'[a] <= recent'[c]
            BY <3>1, <3>2, <2>3 DEF WindowInv, Monotone
        <3> QED BY <3>2 DEF Monotone
    <2>6. CASE ShouldOpen(f)
        <3>1. b' = Open(f, now)
            BY <2>2, <2>6
        <3>2. b'.state = "open" /\ b'.intervalStart = f.intervalStart
            <4>1. Open(f, now).state = "open"
                BY <1>1, OpenCloseFacts
            <4>2. Open(f, now).intervalStart = f.intervalStart
                BY <1>1, OpenCloseWindow
            <4> QED BY <3>1, <4>1, <4>2
        <3>3. RatioNum = 0 => f.failures >= Threshold
            BY <2>6 DEF ShouldOpen
        <3>4. /\ -f.intervalStart \in Ages /\ Window + Skew - 1 \in Ages
              /\ -f.intervalStart <= Window + Skew - 1
            BY <1>2, <2>2, Settings DEF Ages
        <3>5. recent'[-f.intervalStart] <= recent'[Window + Skew - 1]
            BY <3>4, <2>5 DEF Monotone
        <3>6. /\ recent'[-f.intervalStart] \in Nat /\ recent'[Window + Skew - 1] \in Nat
            BY <3>4, <2>3, <1>1
        <3>7. RatioNum = 0 => recent'[Window + Skew - 1] >= Threshold
            BY <3>3, <3>5, <3>6, <2>4, Settings
        <3> QED BY <3>2, <3>7, <2>2, <2>5, <1>2 DEF WindowInv
    <2>7. CASE ~ShouldOpen(f)
        <3>1. b' = f
            BY <2>2, <2>7
        <3> QED BY <3>1, <2>2, <2>4, <2>5, <1>2 DEF WindowInv
    <2> QED BY <2>6, <2>7
<1> QED BY <1>1, <1>3, <1>4, <1>5

LEMMA InitWindow == Init => WindowInv
BY DEF Init, NewBreaker, NoFailures, WindowInv, Monotone

LEMMA StepWindow == IInv /\ WindowInv /\ [Next]_vars => WindowInv'
<1> SUFFICES ASSUME IInv, WindowInv, [Next]_vars PROVE WindowInv'
    OBVIOUS
<1>1. CASE UNCHANGED <<b, recent>>
    BY <1>1 DEF WindowInv, Monotone
<1>2. ASSUME NEW now \in Nows, b' = Allow(b, now), recent' = recent
      PROVE  WindowInv'
    <2> DEFINE w == RotateWindow(b, now)
    <2>1. w.started /\ w.intervalStart <= 0 /\ -w.intervalStart \in Ages
        BY RotatedWindow DEF WindowInv, IInv, CoreType
    <2>2. /\ b'.started = w.started /\ b'.intervalStart = w.intervalStart
          /\ b'.failures = w.failures
          /\ b'.state = "closed" => b.state = "closed"
        BY <1>2, AllowWindow DEF IInv, CoreType
    <2>3. b.state = "closed" => w.failures <= recent[-w.intervalStart]
        BY RotatedCount
    <2> HIDE DEF w
    <2> QED BY <2>1, <2>2, <2>3, <1>2 DEF WindowInv, Monotone
<1>3. CASE Tick
    <2> DEFINE s == Older(b.intervalStart, -(Window + Skew))
    <2>1. b.intervalStart \in Int /\ b \in Breakers /\ recent \in [Ages -> Nat]
        BY DEF IInv, CoreType, Breakers
    <2>2. /\ b'.state = b.state /\ b'.failures = b.failures
          /\ b'.started = b.started /\ b'.intervalStart = s
        BY <2>1, <1>3 DEF Tick, Age, Breakers
    <2>3. \A a \in Ages : recent'[a] = IF a = 0 THEN 0 ELSE recent[a - 1]
        BY <1>3 DEF Tick
    <2>4. Monotone'
        <3>1. ASSUME NEW a \in Ages, NEW c \in Ages, a <= c
              PROVE  recent'[a] <= recent'[c]
            <4>1. CASE a = 0
                BY <4>1, <2>1, <2>3, AgesFacts
            <4>2. CASE a # 0
                <5>1. c # 0 /\ a - 1 \in Ages /\ c - 1 \in Ages /\ a - 1 <= c - 1
                    BY <4>2, <3>1, AgesFacts
                <5> QED BY <5>1, <4>2, <2>3 DEF WindowInv, Monotone
            <4> QED BY <4>1, <4>2
        <3> QED BY <3>1 DEF Monotone
    <2>5. /\ s <= 0
          /\ -s \in Ages => /\ s = b.intervalStart - 1
                            /\ -b.intervalStart \in Ages /\ -s # 0
                            /\ -s - 1 = -b.intervalStart
        BY <2>1, Settings DEF Older, Ages, WindowInv
    <2> HIDE DEF s
    <2>6. -s \in Ages => recent'[-s] = recent[-b.intervalStart]
        BY <2>3, <2>5
    <2> QED BY <2>2, <2>4, <2>5, <2>6 DEF WindowInv
<1>4. ASSUME NEW r \in Requests, ResolveFails(r) \/ Succeeds(r) \/ Fails(r)
      PROVE  WindowInv'
    BY <1>4, ReportsWindow DEF ResolveFails, Succeeds, Fails
<1>5. ASSUME NEW r \in Requests, CircuitRefuses(r) \/ CircuitAllows(r)
      PROVE  WindowInv'
    BY <1>5, <1>2 DEF CircuitRefuses, CircuitAllows, history
<1>6. ASSUME NEW r \in Requests,
             \/ Resolve(r) \/ Waits(r) \/ Admitted(r) \/ Return(r)
             \/ TurnedAway(r) \/ BadParameters(r)
      PROVE  UNCHANGED <<b, recent>>
    BY <1>6 DEF Resolve, Waits, Admitted, Return, TurnedAway, BadParameters,
                LeavesUnreported, history
<1>7. SourceChanges \/ UNCHANGED vars => UNCHANGED <<b, recent>>
    BY DEF SourceChanges, vars, history
<1> QED
    BY <1>1, <1>3, <1>4, <1>5, <1>6, <1>7 DEF Next

(* With the failure ratio disabled, a closed breaker opens only when       *)
(* Threshold failures were reported within the last Window + Skew seconds: *)
(* late reports, racing callers and rotations never add up older ones.     *)
THEOREM ConnectorTripsOnRecentFailures == Spec => TripsOnRecentFailures
<1> DEFINE Trips == RatioNum = 0 /\ b.state = "closed" /\ b'.state = "open"
                      => recent'[Window + Skew - 1] >= Threshold
<1>1. IInv /\ WindowInv /\ [Next]_vars => [Trips]_vars
    <2> SUFFICES ASSUME IInv, WindowInv, Next, b.state = "closed", b'.state = "open",
                        RatioNum = 0
                 PROVE  recent'[Window + Skew - 1] >= Threshold
        OBVIOUS
    <2>1. b \in Breakers
        BY DEF IInv, CoreType
    <2>2. \A now \in Nows : b' # Allow(b, now)
        <3>1. ASSUME NEW now \in Nows, b' = Allow(b, now) PROVE FALSE
            <4>1. Allows(b, now)
                BY DEF Allows
            <4> QED BY <4>1, <3>1, <2>1, AllowFacts
        <3> QED BY <3>1
    <2>3. ~Tick
        BY <2>1, AgeFacts DEF Tick
    <2>4. \E r \in Requests : ResolveFails(r) \/ Succeeds(r) \/ Fails(r)
        BY <2>2, <2>3 DEF Next, Resolve, CircuitRefuses, CircuitAllows, Waits, Admitted,
               TurnedAway, BadParameters, Return, SourceChanges, LeavesUnreported, history
    <2>5. \E now \in Nows, success \in BOOLEAN : Reports(success, now)
        BY <2>4 DEF ResolveFails, Succeeds, Fails
    <2> QED BY <2>5, ReportsWindow
<1>2. Spec => []WindowInv
    BY ConnectorInductive, InitWindow, StepWindow, PTL DEF Spec
<1>3. QED
    BY <1>1, <1>2, ConnectorInductive, PTL DEF Spec, TripsOnRecentFailures

-----------------------------------------------------------------------------
(* Every step of the handler is one operation of the admission controller, *)
(* or none: the composition implements Admission.                          *)
THEOREM ConnectorImplementsAdmission == Spec => Adm!Spec
<1>1. Init => Adm!Init
    BY DEF Init
<1>2. [Next]_vars => [Adm!Next]_(Adm!vars)
    <2> SUFFICES ASSUME [Next]_vars, ~(UNCHANGED Adm!vars) PROVE Adm!Next
        OBVIOUS
    <2>1. ~(UNCHANGED admVars)
        BY DEF admVars, Adm!vars
    <2>2. PICK r \in Requests : CircuitAllows(r) \/ Waits(r) \/ Admitted(r)
                                 \/ TurnedAway(r) \/ Return(r)
        BY <2>1 DEF Next, vars, Resolve, ResolveFails, CircuitRefuses, Succeeds, Fails,
                    BadParameters, Tick, SourceChanges
    <2>3. CASE CircuitAllows(r)
        <3>1. PICK l \in Limits : Adm!Call(r, Conn, l)
            BY <2>3 DEF CircuitAllows
        <3> QED BY <3>1 DEF Adm!Next
    <2>4. CASE Waits(r) \/ Admitted(r) \/ TurnedAway(r) \/ Return(r)
        BY <2>4 DEF Waits, Admitted, TurnedAway, Return, Adm!Next
    <2> QED BY <2>2, <2>3, <2>4
<1> QED
    BY <1>1, <1>2, PTL DEF Spec, Adm!Spec

AdmThms == INSTANCE AdmissionProofs WITH Keys <- {Conn}

(* The two instances of Admission, the one the handler is built from and   *)
(* the one under the proofs, are the same.                                 *)
LEMMA SameAdmission == /\ Adm!Spec => AdmThms!Spec
                       /\ AdmThms!TypeOK => Adm!TypeOK
<1>1. Adm!Init => AdmThms!Init
    BY DEF Adm!Init, AdmThms!Init
<1>2. Adm!Next => AdmThms!Next
    <2> SUFFICES ASSUME Adm!Next PROVE AdmThms!Next
        OBVIOUS
    <2>1. ASSUME NEW r, NEW l PROVE Adm!Call(r, Conn, l) => AdmThms!Call(r, Conn, l)
        BY DEF Adm!Call, AdmThms!Call, Adm!Clamp, AdmThms!Clamp
    <2>2. ASSUME NEW r PROVE Adm!Admit(r) => AdmThms!Admit(r)
        BY DEF Adm!Admit, AdmThms!Admit, Adm!HasRoom, AdmThms!HasRoom,
            Adm!UnqueueOnAdmit, AdmThms!UnqueueOnAdmit
    <2>3. ASSUME NEW r PROVE Adm!Reject(r) => AdmThms!Reject(r)
        BY DEF Adm!Reject, AdmThms!Reject, Adm!HasRoom, AdmThms!HasRoom,
            Adm!QueueFull, AdmThms!QueueFull, Adm!QueueCap, AdmThms!QueueCap,
            Adm!Clamp, AdmThms!Clamp
    <2>4. ASSUME NEW r PROVE Adm!Park(r) => AdmThms!Park(r)
        BY DEF Adm!Park, AdmThms!Park, Adm!HasRoom, AdmThms!HasRoom, Adm!QueueFull,
            AdmThms!QueueFull, Adm!QueueCap, AdmThms!QueueCap, Adm!Clamp,
            AdmThms!Clamp
    <2>5. ASSUME NEW r PROVE Adm!TimerFires(r) => AdmThms!TimerFires(r)
        BY DEF Adm!TimerFires, AdmThms!TimerFires
    <2>6. ASSUME NEW r PROVE Adm!ContextDone(r) => AdmThms!ContextDone(r)
        BY DEF Adm!ContextDone, AdmThms!ContextDone
    <2>7. ASSUME NEW r PROVE Adm!Wake(r) => AdmThms!Wake(r)
        BY DEF Adm!Wake, AdmThms!Wake
    <2>8. ASSUME NEW r PROVE Adm!GiveUp(r) => AdmThms!GiveUp(r)
        BY DEF Adm!GiveUp, AdmThms!GiveUp
    <2>9. ASSUME NEW r PROVE Adm!Dequeue(r) => AdmThms!Dequeue(r)
        BY DEF Adm!Dequeue, AdmThms!Dequeue, Adm!UnqueueOnGiveUp,
            AdmThms!UnqueueOnGiveUp
    <2>10. ASSUME NEW r PROVE Adm!Release(r) => AdmThms!Release(r)
        BY DEF Adm!Release, AdmThms!Release, Adm!WokenByRelease, AdmThms!WokenByRelease
    <2> QED
        BY <2>1, <2>2, <2>3, <2>4, <2>5, <2>6, <2>7, <2>8, <2>9, <2>10 DEF Adm!Next, AdmThms!Next
<1>3. [Adm!Next]_(Adm!vars) => [AdmThms!Next]_(AdmThms!vars)
    BY <1>2 DEF Adm!vars, AdmThms!vars
<1>4. AdmThms!TypeOK => Adm!TypeOK
    BY DEF Adm!TypeOK, AdmThms!TypeOK, Adm!Places, AdmThms!Places
<1> QED
    BY <1>1, <1>3, <1>4, PTL DEF Adm!Spec, AdmThms!Spec

(* All of the connector's state is well formed in every reachable state.   *)
THEOREM ConnectorTypeOK == Spec => []TypeOK
<1>1. AdmThms!Spec => []AdmThms!TypeOK
    <2>1. AdmThms!AdmissionAssumption
        BY ConnectorAssumption
        DEF AdmThms!AdmissionAssumption, AdmThms!IsFiniteSet, IsFiniteSet
    <2> QED BY <2>1, AdmThms!AdmissionTypeOK, PTL
<1>2. CoreType /\ Adm!TypeOK => TypeOK
    BY DEF CoreType, TypeOK
<1> QED
    BY <1>1, <1>2, SameAdmission, ConnectorInductive, ConnectorImplementsAdmission, PTL
    DEF IInv
=============================================================================
