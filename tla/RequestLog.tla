----------------------------- MODULE RequestLog -----------------------------
(***************************************************************************)
(* The gateway's request log (internal/gatewaysvc/reqlogger.go) and how it *)
(* ends with the server (internal/server/server.go): handlers put records  *)
(* into a bounded channel, one goroutine collects them into batches and    *)
(* inserts each with one statement.  On a signal the server cancels the    *)
(* goroutine, waits for it, closes the pool, and only then stops           *)
(* listening and waits for its handlers.                                   *)
(*                                                                         *)
(* A record is known by its handler.  The channel's order is left out: no  *)
(* step depends on it.                                                     *)
(***************************************************************************)
EXTENDS Naturals, FiniteSets

CONSTANTS Handlers,     \* requests the gateway ever serves
          Buffer,       \* capacity of the channel
          BatchSize     \* records per insert

ASSUME RequestLogAssumption == Buffer \in Nat \ {0} /\ BatchSize \in Nat \ {0}

VARIABLES record,       \* per handler: where its record is
          late,         \* handlers that ended after the cancellation
          flusher,      \* where the goroutine is
          phase         \* how far the server has shut down

logVars == <<record, late, flusher, phase>>

In(place) == {h \in Handlers : record[h] = place}

LogInit ==
    /\ record = [h \in Handlers |-> "none"]
    /\ late = {}
    /\ flusher = "select"
    /\ phase = "serving"

(* The listener is open until srv.Shutdown.                                *)
BeginRequest(h) ==
    /\ record[h] = "none" /\ phase \in {"serving", "cancelled", "closed"}
    /\ record' = [record EXCEPT ![h] = "handling"]
    /\ UNCHANGED <<late, flusher, phase>>

(* A full channel drops the record.                                        *)
enqueue == IF Cardinality(In("buffered")) < Buffer THEN "buffered" ELSE "dropped"

(* Deferred: every request a route was found for, however it ended.        *)
writeRequestLog(h) ==
    /\ record[h] = "handling" /\ phase # "exited"
    /\ record' = [record EXCEPT ![h] = enqueue]
    /\ late' = IF phase = "serving" THEN late ELSE late \cup {h}
    /\ UNCHANGED <<flusher, phase>>

-----------------------------------------------------------------------------
(* run.  A flush goes back to the loop it was called from.                 *)

Looping == flusher \in {"select", "drain"}

add(h) ==
    /\ Looping /\ record[h] = "buffered"
    /\ record' = [record EXCEPT ![h] = "batched"]
    /\ flusher' = IF Cardinality(In("batched")) + 1 < BatchSize THEN flusher
                  ELSE IF flusher = "drain" THEN "flush in drain" ELSE "flush"
    /\ UNCHANGED <<late, phase>>

TickerFlush ==
    /\ flusher = "select" /\ In("batched") # {}
    /\ flusher' = "flush"
    /\ UNCHANGED <<record, late, phase>>

(* One statement inserts the whole batch or nothing of it.                 *)
InsertRequestLogBatch(worked) == IF worked THEN "stored" ELSE "failed"

(* The batch is emptied whether the insert worked or not.                  *)
flush(worked) ==
    /\ flusher \in {"flush", "flush in drain", "last flush"}
    /\ record' = [h \in Handlers |-> IF record[h] = "batched" THEN InsertRequestLogBatch(worked)
                                     ELSE record[h]]
    /\ flusher' = CASE flusher = "flush" -> "select"
                    [] flusher = "flush in drain" -> "drain"
                    [] flusher = "last flush" -> "done"
    /\ UNCHANGED <<late, phase>>

(* Fault: the goroutine ends with the batch it has.                        *)
FlushAndExit == "last flush"

OnDone == "drain"

SeeDone ==
    /\ flusher = "select" /\ phase # "serving"
    /\ flusher' = OnDone
    /\ UNCHANGED <<record, late, phase>>

DrainEnds ==
    /\ flusher = "drain" /\ In("buffered") = {}
    /\ flusher' = "last flush"
    /\ UNCHANGED <<record, late, phase>>

-----------------------------------------------------------------------------
(* Run after the signal, with the gateway's OnShutdown.                    *)

Becoming(from, to) ==
    /\ phase = from /\ phase' = to
    /\ UNCHANGED <<record, late, flusher>>

cancelRefresh == Becoming("serving", "cancelled")
ClosePool == flusher = "done" /\ Becoming("cancelled", "closed")
Shutdown == Becoming("closed", "stopping")

(* The handlers are done, or the 20 seconds are over.                      *)
ShutdownReturns == Becoming("stopping", "exited")

LogNext ==
    \/ \E h \in Handlers : BeginRequest(h) \/ writeRequestLog(h) \/ add(h)
    \/ TickerFlush \/ SeeDone \/ DrainEnds
    \/ \E worked \in BOOLEAN : flush(worked)
    \/ cancelRefresh \/ ClosePool \/ Shutdown \/ ShutdownReturns

-----------------------------------------------------------------------------
(* When the pool is closed, the record of every request that ended before  *)
(* the shutdown began is settled: stored, or lost to a full buffer or to a *)
(* failed insert, and none is left in the channel or in a batch            *)
(* (gatewaysvc/reqlogger.go:111, gatewaysvc/service.go:121).               *)
EarlyRecordsSettled ==
    phase \in {"closed", "stopping", "exited"} =>
        In("buffered") \cup In("batched") \subseteq late
=============================================================================
