----------------------------- MODULE Admission -----------------------------
(***************************************************************************)
(* The connector's admission controller (internal/connector/admission.go): *)
(* a counting semaphore with a bounded wait queue, one per source          *)
(* connection, that every query passes before it touches the pool.         *)
(*                                                                         *)
(* The mutex a.mu makes each pass of Acquire's loop, each dequeue and each *)
(* release one atomic step.  The notify channel is abstracted to what a    *)
(* waiter can tell about it: woken[r] says that the channel r captured has *)
(* been closed.  Timer and context are abstracted to expired[r]: one of    *)
(* the two is ready in r's select.                                         *)
(***************************************************************************)
EXTENDS Integers, FiniteSets

CONSTANTS
    Requests,    \* goroutines that call Acquire, each with one call at a time
    Keys,        \* connection ids, the keys of the states map
    Limits,      \* MaxPool values the saved connections may carry
    QueueSize,   \* newAdmissionController's queueSize
    HasTimeout   \* queueTimeout > 0: the select has a timer

ASSUME AdmissionAssumption ==
    /\ IsFiniteSet(Requests)
    /\ Limits \subseteq Int
    /\ QueueSize \in Int
    /\ HasTimeout \in BOOLEAN

VARIABLES
    inflight,   \* admissionState.inflight of each key
    waiting,    \* admissionState.waiting of each key
    pc,         \* where each request is in Acquire
    key,        \* the key argument of its call
    limit,      \* the limit argument, after the clamp to at least 1
    queued,     \* the local variable queued
    woken,      \* the notify channel it captured is closed
    expired     \* its timer has fired or its context is done

vars == <<inflight, waiting, pc, key, limit, queued, woken, expired>>

(* "idle": outside Acquire; "try": about to lock a.mu at the loop's head;  *)
(* "parked": in the select; "leaving": the select took the ctx or the      *)
(* timer case, dequeue not yet run; "holding": admitted, not yet released. *)
Places == {"idle", "try", "parked", "leaving", "holding"}

Clamp(n, low) == IF n < low THEN low ELSE n

(* newAdmissionController turns a negative queue size into no queue.       *)
QueueCap == Clamp(QueueSize, 0)

EffLimits == {Clamp(l, 1) : l \in Limits}

TypeOK ==
    /\ inflight \in [Keys -> Nat]
    /\ waiting \in [Keys -> Nat]
    /\ pc \in [Requests -> Places]
    /\ key \in [Requests -> Keys]
    /\ limit \in [Requests -> Nat]
    /\ queued \in [Requests -> BOOLEAN]
    /\ woken \in [Requests -> BOOLEAN]
    /\ expired \in [Requests -> BOOLEAN]

Init ==
    /\ inflight = [k \in Keys |-> 0]
    /\ waiting = [k \in Keys |-> 0]
    /\ pc = [r \in Requests |-> "idle"]
    /\ key \in [Requests -> Keys]
    /\ limit = [r \in Requests |-> 1]
    /\ queued = [r \in Requests |-> FALSE]
    /\ woken = [r \in Requests |-> FALSE]
    /\ expired = [r \in Requests |-> FALSE]

(* Entering Acquire: clamp the limit, start the timer, queued := false.    *)
Call(r, k, l) ==
    /\ pc[r] = "idle"
    /\ pc' = [pc EXCEPT ![r] = "try"]
    /\ key' = [key EXCEPT ![r] = k]
    /\ limit' = [limit EXCEPT ![r] = Clamp(l, 1)]
    /\ queued' = [queued EXCEPT ![r] = FALSE]
    /\ woken' = [woken EXCEPT ![r] = FALSE]
    /\ expired' = [expired EXCEPT ![r] = FALSE]
    /\ UNCHANGED <<inflight, waiting>>

(* Faults, each of which some property below rules out.                    *)
RoomOffByOne(r) == inflight[key[r]] <= limit[r]
KeepQueuePlace(r) == waiting
WakeNobody(k) == {}
TimerIgnored(r) == FALSE /\ UNCHANGED vars

HasRoom(r) == inflight[key[r]] < limit[r]
QueueFull(k) == QueueCap = 0 \/ waiting[k] >= QueueCap

(* Leaving the queue by admission (only if queued), and in dequeue.        *)
UnqueueOnAdmit(r) ==
    IF queued[r] THEN [waiting EXCEPT ![key[r]] = @ - 1] ELSE waiting
UnqueueOnGiveUp(r) ==
    IF waiting[key[r]] > 0 THEN [waiting EXCEPT ![key[r]] = @ - 1] ELSE waiting

(* close(s.notify) reaches everyone who captured that channel.             *)
WokenByRelease(k) == {q \in Requests : pc[q] = "parked" /\ key[q] = k}

(* A pass of the loop that finds room, queued or not.                      *)
Admit(r) ==
    /\ pc[r] = "try"
    /\ HasRoom(r)
    /\ inflight' = [inflight EXCEPT ![key[r]] = @ + 1]
    /\ waiting' = UnqueueOnAdmit(r)
    /\ pc' = [pc EXCEPT ![r] = "holding"]
    /\ queued' = [queued EXCEPT ![r] = FALSE]
    /\ UNCHANGED <<key, limit, woken, expired>>

(* A first pass that finds neither room nor a place in the queue.          *)
Reject(r) ==
    /\ pc[r] = "try"
    /\ ~HasRoom(r)
    /\ ~queued[r]
    /\ QueueFull(key[r])
    /\ pc' = [pc EXCEPT ![r] = "idle"]
    /\ UNCHANGED <<inflight, waiting, key, limit, queued, woken, expired>>

(* A pass that finds no room and waits: the first one also queues.  The    *)
(* current notify channel, which is open, is captured under the lock.      *)
Park(r) ==
    /\ pc[r] = "try"
    /\ ~HasRoom(r)
    /\ queued[r] \/ ~QueueFull(key[r])
    /\ waiting' = IF queued[r] THEN waiting ELSE [waiting EXCEPT ![key[r]] = @ + 1]
    /\ queued' = [queued EXCEPT ![r] = TRUE]
    /\ woken' = [woken EXCEPT ![r] = FALSE]
    /\ pc' = [pc EXCEPT ![r] = "parked"]
    /\ UNCHANGED <<inflight, key, limit, expired>>

(* The queue timer fires at any time during the call.                      *)
TimerFires(r) ==
    /\ HasTimeout
    /\ pc[r] \in {"try", "parked"}
    /\ ~expired[r]
    /\ expired' = [expired EXCEPT ![r] = TRUE]
    /\ UNCHANGED <<inflight, waiting, pc, key, limit, queued, woken>>

(* The caller's context ends at any time during the call.                  *)
ContextDone(r) ==
    /\ pc[r] \in {"try", "parked"}
    /\ ~expired[r]
    /\ expired' = [expired EXCEPT ![r] = TRUE]
    /\ UNCHANGED <<inflight, waiting, pc, key, limit, queued, woken>>

(* The select takes the notify case.                                       *)
Wake(r) ==
    /\ pc[r] = "parked"
    /\ woken[r]
    /\ pc' = [pc EXCEPT ![r] = "try"]
    /\ UNCHANGED <<inflight, waiting, key, limit, queued, woken, expired>>

(* The select takes the ctx.Done or the timer case.                        *)
GiveUp(r) ==
    /\ pc[r] = "parked"
    /\ expired[r]
    /\ pc' = [pc EXCEPT ![r] = "leaving"]
    /\ UNCHANGED <<inflight, waiting, key, limit, queued, woken, expired>>

(* dequeue, and the return that follows it.                                *)
Dequeue(r) ==
    /\ pc[r] = "leaving"
    /\ waiting' = UnqueueOnGiveUp(r)
    /\ pc' = [pc EXCEPT ![r] = "idle"]
    /\ queued' = [queued EXCEPT ![r] = FALSE]
    /\ UNCHANGED <<inflight, key, limit, woken, expired>>

(* The function Acquire returned, run once: free the slot, close the       *)
(* notify channel (waking whoever captured it) and install a fresh one.    *)
Release(r) ==
    /\ pc[r] = "holding"
    /\ pc' = [pc EXCEPT ![r] = "idle"]
    /\ IF inflight[key[r]] = 0
       THEN UNCHANGED <<inflight, woken>>
       ELSE /\ inflight' = [inflight EXCEPT ![key[r]] = @ - 1]
            /\ woken' = [q \in Requests |-> woken[q] \/ q \in WokenByRelease(key[r])]
    /\ UNCHANGED <<waiting, key, limit, queued, expired>>

Next ==
    \E r \in Requests :
        \/ \E k \in Keys, l \in Limits : Call(r, k, l)
        \/ Admit(r) \/ Reject(r) \/ Park(r)
        \/ TimerFires(r) \/ ContextDone(r)
        \/ Wake(r) \/ GiveUp(r) \/ Dequeue(r)
        \/ Release(r)

(* A goroutine inside Acquire keeps running and its timer fires.  When     *)
(* both the notify and an expiry case are ready, Go's select picks one at  *)
(* random each time, so a ready expiry case is not passed over for ever.   *)
(* Nothing makes a caller call, release or cancel.                         *)
Fairness ==
    \A r \in Requests :
        /\ WF_vars(Admit(r) \/ Reject(r) \/ Park(r))
        /\ WF_vars(Wake(r))
        /\ WF_vars(Dequeue(r))
        /\ WF_vars(TimerFires(r))
        /\ SF_vars(GiveUp(r))

Spec == Init /\ [][Next]_vars
FairSpec == Spec /\ Fairness

-----------------------------------------------------------------------------
Holders(k) == {r \in Requests : pc[r] = "holding" /\ key[r] = k}
HoldersUnder(k, n) == {r \in Holders(k) : limit[r] <= n}
Queue(k) == {r \in Requests : queued[r] /\ key[r] = k}

(* The counters are the truth about the goroutines: inflight counts the    *)
(* admitted calls not yet released and waiting the queued ones, through    *)
(* every timeout, cancellation, wake-up and re-queueing (no slot and no    *)
(* queue place is leaked or given back twice).                             *)
SlotAccounting ==
    \A k \in Keys : /\ inflight[k] = Cardinality(Holders(k))
                    /\ waiting[k] = Cardinality(Queue(k))

(* The source is never oversubscribed, even when the saved pool size       *)
(* changes between calls: the calls admitted under a limit of at most n    *)
(* never hold more than n slots together.                                  *)
NeverOversubscribed ==
    \A k \in Keys, n \in EffLimits :
        Cardinality(HoldersUnder(k, n)) <= n

(* No lost wake-up: a call that still waits on an open notify channel has  *)
(* no room (a slot freed between its check and its select wakes it).       *)
NoLostWakeup ==
    \A r \in Requests : pc[r] = "parked" /\ ~woken[r] => ~HasRoom(r)

(* The queue never exceeds its configured size.                            *)
QueueBounded == \A k \in Keys : waiting[k] <= QueueCap

(* With a queue timeout every call of Acquire returns, whatever the other  *)
(* callers do and even if no slot is ever released.                        *)
AcquireReturns ==
    \A r \in Requests :
        pc[r] \in {"try", "parked", "leaving"} ~> pc[r] \in {"holding", "idle"}
=============================================================================
