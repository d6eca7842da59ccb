--------------------------- MODULE CircuitBreaker ---------------------------
(***************************************************************************)
(* The circuit breaker of internal/circuit/breaker.go as operators on a    *)
(* breaker record.  Breaker.mu makes each of Allow and Report atomic.      *)
(*                                                                         *)
(* Instants are whole seconds relative to the present: 0 is now, -3 three  *)
(* seconds ago.  The code only ever compares a difference of instants with *)
(* Timeout or Interval, so instead of a clock that grows without bound,    *)
(* Age moves the stored instants one second further into the past and      *)
(* stops once both comparisons have been decided for good.                 *)
(***************************************************************************)
EXTENDS Integers

CONSTANTS
    MaxRequests, Interval, Timeout, FailureThreshold,   \* circuit.Settings
    RatioNum, RatioDen,   \* FailureRatio = RatioNum / RatioDen
    Skew   \* how late, at most, the mutex is won after time.Now() was read

ASSUME BreakerAssumption ==
    /\ MaxRequests \in Int /\ FailureThreshold \in Int
    /\ Interval \in Int /\ Timeout \in Int
    /\ RatioNum \in Int /\ RatioDen \in Nat \ {0}
    /\ Skew \in Nat

(* New replaces every setting that is not positive by a default.           *)
OrDefault(n, default) == IF n <= 0 THEN default ELSE n
MaxProbes == OrDefault(MaxRequests, 1)
OpenTime == OrDefault(Timeout, 30)
Window == OrDefault(Interval, 60)
Threshold == OrDefault(FailureThreshold, 5)

(* The instants a caller may pass as now.                                  *)
Nows == -Skew .. 0

(* started is ~intervalStart.IsZero().                                     *)
Breakers ==
    [state : {"closed", "open", "half_open"},
     openedAt : Int, started : BOOLEAN, intervalStart : Int,
     requests : Nat, failures : Nat, halfOpenInUse : Nat]

NewBreaker ==
    [state |-> "closed",
     openedAt |-> 0, started |-> FALSE, intervalStart |-> 0,
     requests |-> 0, failures |-> 0, halfOpenInUse |-> 0]

(* Faults, each of which some property of Connector rules out.             *)
KeepOldWindow(b, now) == [b EXCEPT !.started = TRUE]
TripLate(b) == b.failures > Threshold
ProbeUnlimited(b, now) == b.state # "open" \/ now - b.openedAt >= OpenTime

RotateWindow(b, now) ==
    IF ~b.started THEN [b EXCEPT !.started = TRUE, !.intervalStart = now]
    ELSE IF now - b.intervalStart >= Window
         THEN [b EXCEPT !.intervalStart = now, !.requests = 0, !.failures = 0]
         ELSE b

ShouldOpen(b) ==
    \/ b.failures >= Threshold
    \/ /\ RatioNum > 0 /\ b.requests > 0
       /\ b.failures * RatioDen >= RatioNum * b.requests

Open(b, now) ==
    [b EXCEPT !.state = "open", !.openedAt = now, !.halfOpenInUse = 0]

Close(b, now) ==
    [b EXCEPT !.state = "closed", !.started = TRUE, !.intervalStart = now,
              !.requests = 0, !.failures = 0, !.halfOpenInUse = 0]

(* What Allow answers, and the breaker it leaves behind.                   *)
Allows(b, now) ==
    \/ b.state = "closed"
    \/ b.state = "open" /\ now - b.openedAt >= OpenTime
    \/ b.state = "half_open" /\ b.halfOpenInUse < MaxProbes

Allow(b, now) ==
    LET w == RotateWindow(b, now)
    IN  IF ~Allows(b, now) THEN w
        ELSE CASE w.state = "closed"    -> [w EXCEPT !.requests = @ + 1]
               [] w.state = "open"      -> [w EXCEPT !.state = "half_open",
                                                     !.halfOpenInUse = 1]
               [] w.state = "half_open" -> [w EXCEPT !.halfOpenInUse = @ + 1]

(* Fault: a success closes the breaker, whatever state it is in by then.   *)
ReportCloses(b, success, now) ==
    LET w == RotateWindow(b, now)
        f == IF success THEN w ELSE [w EXCEPT !.failures = @ + 1]
    IN  CASE w.state = "half_open" -> IF success THEN Close(w, now) ELSE Open(w, now)
          [] w.state = "closed"    -> IF ShouldOpen(f) THEN Open(f, now) ELSE f
          [] w.state = "open"      -> IF success THEN Close(w, now) ELSE w

(* In the half-open state the slot given back is always wiped by close or  *)
(* open, so the decrement leaves no trace.                                 *)
Report(b, success, now) ==
    LET w == RotateWindow(b, now)
        f == IF success THEN w ELSE [w EXCEPT !.failures = @ + 1]
    IN  CASE w.state = "half_open" -> IF success THEN Close(w, now) ELSE Open(w, now)
          [] w.state = "closed"    -> IF ShouldOpen(f) THEN Open(f, now) ELSE f
          [] w.state = "open"      -> w

(* One second passes.                                                      *)
Older(t, floor) == IF t > floor THEN t - 1 ELSE t
Age(b) ==
    [b EXCEPT !.openedAt = Older(@, -(OpenTime + Skew)),
              !.intervalStart = Older(@, -(Window + Skew))]
=============================================================================
