-------------------------- MODULE AdmissionProofs --------------------------
(***************************************************************************)
(* Safety of the admission controller for every set of requests, keys and  *)
(* pool sizes, every queue size, with and without a queue timeout.         *)
(***************************************************************************)
EXTENDS Admission, FiniteSetTheorems, TLAPS

(* Where a call is determines whether it is in the queue: dequeue and the  *)
(* admission of a queued call each give back exactly one queue place.      *)
PlaceInv ==
    \A r \in Requests :
        /\ pc[r] \in {"parked", "leaving"} => queued[r]
        /\ pc[r] \in {"idle", "holding"} => ~queued[r]

IInv ==
    /\ TypeOK
    /\ PlaceInv
    /\ SlotAccounting
    /\ NeverOversubscribed
    /\ NoLostWakeup
    /\ QueueBounded

(* The clamp of newAdmissionController and of Acquire never yields less    *)
(* than its lower bound, and is a natural number for a natural one.        *)
LEMMA ClampType ==
    ASSUME NEW n \in Int, NEW low \in Nat
    PROVE  Clamp(n, low) \in Nat /\ Clamp(n, low) >= low
BY DEF Clamp

(* The sets the counters stand for are finite, before and after a step.    *)
LEMMA CountsFinite ==
    ASSUME NEW k, NEW n
    PROVE  /\ IsFiniteSet(Holders(k)) /\ IsFiniteSet(Holders(k)')
           /\ IsFiniteSet(Queue(k)) /\ IsFiniteSet(Queue(k)')
           /\ IsFiniteSet(HoldersUnder(k, n)) /\ IsFiniteSet(HoldersUnder(k, n)')
           /\ Cardinality(Holders(k)) \in Nat
           /\ Cardinality(Queue(k)) \in Nat
           /\ Cardinality(HoldersUnder(k, n)) \in Nat
           /\ Cardinality(HoldersUnder(k, n)) <= Cardinality(Holders(k))
<1>1. /\ Holders(k) \in SUBSET Requests /\ Holders(k)' \in SUBSET Requests
      /\ Queue(k) \in SUBSET Requests /\ Queue(k)' \in SUBSET Requests
      /\ HoldersUnder(k, n) \in SUBSET Requests
      /\ HoldersUnder(k, n)' \in SUBSET Requests
      /\ HoldersUnder(k, n) \in SUBSET Holders(k)
    BY DEF Holders, Queue, HoldersUnder
<1>2. IsFiniteSet(Requests)
    BY AdmissionAssumption
<1>3. /\ IsFiniteSet(Holders(k)) /\ IsFiniteSet(Holders(k)')
      /\ IsFiniteSet(Queue(k)) /\ IsFiniteSet(Queue(k)')
      /\ IsFiniteSet(HoldersUnder(k, n)) /\ IsFiniteSet(HoldersUnder(k, n)')
    BY <1>1, <1>2, FS_Subset
<1>4. Cardinality(HoldersUnder(k, n)) <= Cardinality(Holders(k))
    BY <1>1, <1>3, FS_Subset
<1> QED
    BY <1>3, <1>4, FS_CardinalityType

(* What one more or one less member does to a counted set.                 *)
LEMMA QueueSteps ==
    ASSUME TypeOK, SlotAccounting, NEW k \in Keys, NEW r
    PROVE  /\ waiting[k] \in Nat
           /\ Cardinality(Queue(k)) = waiting[k]
           /\ r \notin Queue(k) => Cardinality(Queue(k) \cup {r}) = waiting[k] + 1
           /\ r \in Queue(k) => /\ Cardinality(Queue(k) \ {r}) = waiting[k] - 1
                                /\ waiting[k] - 1 \in Nat
<1>1. /\ waiting[k] \in Nat
      /\ Cardinality(Queue(k)) = waiting[k]
    BY DEF TypeOK, SlotAccounting
<1>2. r \notin Queue(k) => Cardinality(Queue(k) \cup {r}) = waiting[k] + 1
    BY <1>1, CountsFinite, FS_AddElement
<1>3. /\ IsFiniteSet(Queue(k) \ {r})
      /\ r \in Queue(k) => Cardinality(Queue(k) \ {r}) = waiting[k] - 1
    BY <1>1, CountsFinite, FS_RemoveElement
<1>4. Cardinality(Queue(k) \ {r}) \in Nat
    BY <1>3, FS_CardinalityType
<1> QED
    BY <1>1, <1>2, <1>3, <1>4

LEMMA HolderSteps ==
    ASSUME TypeOK, SlotAccounting, NEW k \in Keys, NEW r
    PROVE  /\ inflight[k] \in Nat
           /\ Cardinality(Holders(k)) = inflight[k]
           /\ r \notin Holders(k) => Cardinality(Holders(k) \cup {r}) = inflight[k] + 1
           /\ r \in Holders(k) => /\ Cardinality(Holders(k) \ {r}) = inflight[k] - 1
                                  /\ inflight[k] - 1 \in Nat
<1>1. /\ inflight[k] \in Nat
      /\ Cardinality(Holders(k)) = inflight[k]
    BY DEF TypeOK, SlotAccounting
<1>2. r \notin Holders(k) => Cardinality(Holders(k) \cup {r}) = inflight[k] + 1
    BY <1>1, CountsFinite, FS_AddElement
<1>3. /\ IsFiniteSet(Holders(k) \ {r})
      /\ r \in Holders(k) => Cardinality(Holders(k) \ {r}) = inflight[k] - 1
    BY <1>1, CountsFinite, FS_RemoveElement
<1>4. Cardinality(Holders(k) \ {r}) \in Nat
    BY <1>3, FS_CardinalityType
<1> QED
    BY <1>1, <1>2, <1>3, <1>4

LEMMA EffLimitsNat == EffLimits \subseteq Nat
BY AdmissionAssumption, ClampType DEF EffLimits

LEMMA QueueCapNat == QueueCap \in Nat
BY AdmissionAssumption, ClampType DEF QueueCap

LEMMA InitIInv == Init => IInv
<1> SUFFICES ASSUME Init PROVE IInv
    OBVIOUS
<1>1. \A k, n : Holders(k) = {} /\ Queue(k) = {} /\ HoldersUnder(k, n) = {}
    BY DEF Init, Holders, Queue, HoldersUnder
<1>2. SlotAccounting /\ NeverOversubscribed
    BY <1>1, FS_EmptySet, EffLimitsNat DEF Init, SlotAccounting, NeverOversubscribed
<1>3. TypeOK /\ PlaceInv /\ NoLostWakeup
    BY DEF Init, TypeOK, Places, PlaceInv, NoLostWakeup
<1>4. QueueBounded
    BY QueueCapNat DEF Init, QueueBounded
<1> QED
    BY <1>2, <1>3, <1>4 DEF IInv

(* A step that leaves the three sets and the two counters alone keeps      *)
(* whatever is said about them.                                            *)
LEMMA SameCounts ==
    ASSUME SlotAccounting, NeverOversubscribed,
           inflight' = inflight, waiting' = waiting,
           \A k, n : /\ Holders(k)' = Holders(k)
                     /\ Queue(k)' = Queue(k)
                     /\ HoldersUnder(k, n)' = HoldersUnder(k, n)
    PROVE  SlotAccounting' /\ NeverOversubscribed'
BY DEF SlotAccounting, NeverOversubscribed

LEMMA StepIInv == IInv /\ [Next]_vars => IInv'
<1> SUFFICES ASSUME IInv, [Next]_vars PROVE IInv'
    OBVIOUS
<1> USE DEF IInv
<1> DEFINE Same == \A k, n : /\ Holders(k)' = Holders(k)
                             /\ Queue(k)' = Queue(k)
                             /\ HoldersUnder(k, n)' = HoldersUnder(k, n)
<1>1. CASE UNCHANGED vars
    <2>1. Same
        BY <1>1 DEF vars, Holders, Queue, HoldersUnder
    <2>2. SlotAccounting' /\ NeverOversubscribed'
        BY <1>1, <2>1, SameCounts DEF vars
    <2>3. TypeOK' /\ PlaceInv' /\ NoLostWakeup' /\ QueueBounded'
        BY <1>1 DEF vars, TypeOK, PlaceInv, NoLostWakeup, HasRoom, QueueBounded
    <2> QED BY <2>2, <2>3
<1>2. ASSUME NEW r \in Requests, NEW k0 \in Keys, NEW l \in Limits, Call(r, k0, l)
      PROVE  IInv'
    <2> USE <1>2 DEF Call
    <2>1. Same
        BY DEF Holders, Queue, HoldersUnder, PlaceInv, TypeOK
    <2>2. SlotAccounting' /\ NeverOversubscribed'
        BY <2>1, SameCounts
    <2>3. Clamp(l, 1) \in Nat
        BY AdmissionAssumption, ClampType
    <2>4. TypeOK' /\ PlaceInv'
        BY <2>3 DEF TypeOK, PlaceInv, Places
    <2>5. NoLostWakeup' /\ QueueBounded'
        BY DEF TypeOK, NoLostWakeup, HasRoom, QueueBounded
    <2> QED BY <2>2, <2>4, <2>5
<1>3. ASSUME NEW r \in Requests, Admit(r)
      PROVE  IInv'
    <2> USE <1>3 DEF Admit
    <2>1. key[r] \in Keys /\ inflight[key[r]] \in Nat /\ waiting[key[r]] \in Nat
          /\ limit[r] \in Nat /\ r \notin Holders(key[r])
        BY DEF TypeOK, Holders
    <2>2. \A k \in Keys : /\ Holders(k)' = IF k = key[r] THEN Holders(k) \cup {r}
                                           ELSE Holders(k)
                          /\ Queue(k)' = IF k = key[r] THEN Queue(k) \ {r}
                                         ELSE Queue(k)
        BY DEF Holders, Queue, TypeOK
    <2>3. \A k \in Keys : inflight'[k] = Cardinality(Holders(k)')
        <3> TAKE k \in Keys
        <3>1. CASE k = key[r]
            <4>1. Holders(k)' = Holders(k) \cup {r} /\ r \notin Holders(k)
                BY <3>1, <2>1, <2>2
            <4>2. inflight'[k] = inflight[k] + 1
                BY <3>1, <2>1 DEF TypeOK
            <4> QED BY <4>1, <4>2, HolderSteps
        <3>2. CASE k # key[r]
            BY <3>2, <2>2 DEF SlotAccounting, TypeOK
        <3> QED BY <3>1, <3>2
    <2>4. \A k \in Keys : /\ waiting'[k] = Cardinality(Queue(k)')
                          /\ waiting'[k] \in Nat
                          /\ waiting'[k] <= waiting[k]
        <3> TAKE k \in Keys
        <3>1. CASE k = key[r] /\ queued[r]
            <4>1. r \in Queue(k) /\ Queue(k)' = Queue(k) \ {r}
                BY <3>1, <2>2 DEF Queue
            <4>2. waiting'[k] = waiting[k] - 1
                BY <3>1, <2>1 DEF UnqueueOnAdmit, TypeOK
            <4>3. /\ waiting[k] \in Nat /\ Cardinality(Queue(k)) = waiting[k]
                  /\ r \in Queue(k) => /\ Cardinality(Queue(k) \ {r}) = waiting[k] - 1
                                       /\ waiting[k] - 1 \in Nat
                BY QueueSteps
            <4> QED BY <4>1, <4>2, <4>3
        <3>2. CASE ~(k = key[r] /\ queued[r])
            <4>1. Queue(k)' = Queue(k)
                BY <3>2, <2>2 DEF Queue
            <4>2. waiting'[k] = waiting[k]
                BY <3>2, <2>1 DEF UnqueueOnAdmit, TypeOK
            <4>3. /\ waiting[k] \in Nat /\ Cardinality(Queue(k)) = waiting[k]
                  /\ r \in Queue(k) => /\ Cardinality(Queue(k) \ {r}) = waiting[k] - 1
                                       /\ waiting[k] - 1 \in Nat
                BY QueueSteps
            <4> QED BY <4>1, <4>2, <4>3
        <3> QED BY <3>1, <3>2
    <2>5. NeverOversubscribed'
        <3> SUFFICES ASSUME NEW k \in Keys, NEW n \in EffLimits
                     PROVE  Cardinality(HoldersUnder(k, n)') <= n
            BY DEF NeverOversubscribed
        <3>1. n \in Nat
            BY EffLimitsNat
        <3>2. CASE k = key[r] /\ limit[r] <= n
            <4>1. HoldersUnder(k, n)' = HoldersUnder(k, n) \cup {r}
                BY <3>2, <2>2 DEF HoldersUnder
            <4>2. Cardinality(HoldersUnder(k, n)) < limit[r]
                BY <3>2, <2>1, CountsFinite DEF SlotAccounting, HasRoom
            <4>3. r \notin HoldersUnder(k, n)
                BY <3>2, <2>1 DEF HoldersUnder
            <4>4. Cardinality(HoldersUnder(k, n)') = Cardinality(HoldersUnder(k, n)) + 1
                BY <4>1, <4>3, CountsFinite, FS_AddElement
            <4>5. Cardinality(HoldersUnder(k, n)) \in Nat
                BY CountsFinite
            <4> QED
                BY <4>2, <4>4, <4>5, <3>1, <3>2, <2>1
        <3>3. CASE ~(k = key[r] /\ limit[r] <= n)
            <4>1. HoldersUnder(k, n)' = HoldersUnder(k, n)
                BY <3>3, <2>2 DEF HoldersUnder
            <4> QED BY <4>1 DEF NeverOversubscribed
        <3> QED BY <3>2, <3>3
    <2>6. TypeOK' /\ PlaceInv'
        <3>1. waiting' \in [Keys -> Nat]
            BY <2>4 DEF UnqueueOnAdmit, TypeOK
        <3>2. inflight' \in [Keys -> Nat]
            BY <2>1 DEF TypeOK
        <3> QED
            BY <3>1, <3>2 DEF TypeOK, PlaceInv, Places
    <2>7. NoLostWakeup'
        BY <2>1 DEF TypeOK, NoLostWakeup, HasRoom
    <2>8. QueueBounded'
        BY <2>4, QueueCapNat DEF QueueBounded, TypeOK
    <2> QED BY <2>3, <2>4, <2>5, <2>6, <2>7, <2>8 DEF SlotAccounting
<1>4. ASSUME NEW r \in Requests, Reject(r)
      PROVE  IInv'
    <2> USE <1>4 DEF Reject
    <2>1. Same
        BY DEF Holders, Queue, HoldersUnder, TypeOK
    <2>2. SlotAccounting' /\ NeverOversubscribed'
        BY <2>1, SameCounts
    <2>3. TypeOK' /\ PlaceInv' /\ NoLostWakeup' /\ QueueBounded'
        BY DEF TypeOK, PlaceInv, Places, NoLostWakeup, HasRoom, QueueBounded
    <2> QED BY <2>2, <2>3
<1>5. ASSUME NEW r \in Requests, Park(r)
      PROVE  IInv'
    <2> USE <1>5 DEF Park
    <2>1. key[r] \in Keys /\ waiting[key[r]] \in Nat
        BY DEF TypeOK
    <2>2. /\ \A k : Holders(k)' = Holders(k)
          /\ \A k, n : HoldersUnder(k, n)' = HoldersUnder(k, n)
          /\ \A k \in Keys : Queue(k)' = IF k = key[r] THEN Queue(k) \cup {r}
                                         ELSE Queue(k)
        BY DEF Holders, HoldersUnder, Queue, TypeOK
    <2>3. \A k \in Keys : /\ waiting'[k] = Cardinality(Queue(k)')
                          /\ waiting'[k] \in Nat
                          /\ waiting'[k] <= QueueCap
        <3> TAKE k \in Keys
        <3>1. CASE k = key[r] /\ ~queued[r]
            <4>1. r \notin Queue(k) /\ Queue(k)' = Queue(k) \cup {r}
                BY <3>1, <2>2 DEF Queue
            <4>2. waiting'[k] = waiting[k] + 1 /\ waiting[k] < QueueCap
                BY <3>1, <2>1, QueueCapNat DEF QueueFull, TypeOK
            <4>3. /\ waiting[k] \in Nat
                  /\ Cardinality(Queue(k) \cup {r}) = waiting[k] + 1
                BY <4>1, QueueSteps
            <4> QED BY <4>1, <4>2, <4>3, QueueCapNat
        <3>2. CASE ~(k = key[r] /\ ~queued[r])
            <4>1. Queue(k)' = Queue(k)
                BY <3>2, <2>2 DEF Queue
            <4>2. waiting'[k] = waiting[k]
                BY <3>2, <2>1 DEF TypeOK
            <4>3. /\ waiting[k] \in Nat /\ Cardinality(Queue(k)) = waiting[k]
                  /\ waiting[k] <= QueueCap
                BY QueueSteps DEF QueueBounded
            <4> QED BY <4>1, <4>2, <4>3
        <3> QED BY <3>1, <3>2
    <2>4. SlotAccounting' /\ NeverOversubscribed' /\ QueueBounded'
        BY <2>2, <2>3 DEF SlotAccounting, NeverOversubscribed, QueueBounded
    <2>5. TypeOK' /\ PlaceInv'
        <3>1. waiting' \in [Keys -> Nat]
            BY <2>3 DEF TypeOK
        <3> QED
            BY <3>1 DEF TypeOK, PlaceInv, Places
    <2>6. NoLostWakeup'
        BY DEF TypeOK, NoLostWakeup, HasRoom
    <2> QED BY <2>4, <2>5, <2>6
<1>6. ASSUME NEW r \in Requests, TimerFires(r) \/ ContextDone(r)
      PROVE  IInv'
    <2> USE <1>6 DEF TimerFires, ContextDone
    <2>1. Same
        BY DEF Holders, Queue, HoldersUnder, TypeOK
    <2>2. SlotAccounting' /\ NeverOversubscribed'
        BY <2>1, SameCounts
    <2>3. TypeOK' /\ PlaceInv' /\ NoLostWakeup' /\ QueueBounded'
        BY DEF TypeOK, PlaceInv, Places, NoLostWakeup, HasRoom, QueueBounded
    <2> QED BY <2>2, <2>3
<1>7. ASSUME NEW r \in Requests, Wake(r) \/ GiveUp(r)
      PROVE  IInv'
    <2> USE <1>7 DEF Wake, GiveUp
    <2>1. Same
        BY DEF Holders, Queue, HoldersUnder, TypeOK
    <2>2. SlotAccounting' /\ NeverOversubscribed'
        BY <2>1, SameCounts
    <2>3. TypeOK' /\ PlaceInv' /\ NoLostWakeup' /\ QueueBounded'
        BY DEF TypeOK, PlaceInv, Places, NoLostWakeup, HasRoom, QueueBounded
    <2> QED BY <2>2, <2>3
<1>8. ASSUME NEW r \in Requests, Dequeue(r)
      PROVE  IInv'
    <2> USE <1>8 DEF Dequeue
    <2>1. key[r] \in Keys /\ waiting[key[r]] \in Nat /\ queued[r]
        BY DEF TypeOK, PlaceInv
    <2>2. /\ \A k : Holders(k)' = Holders(k)
          /\ \A k, n : HoldersUnder(k, n)' = HoldersUnder(k, n)
          /\ \A k \in Keys : Queue(k)' = IF k = key[r] THEN Queue(k) \ {r}
                                         ELSE Queue(k)
        BY DEF Holders, HoldersUnder, Queue, TypeOK
    <2>3. \A k \in Keys : /\ waiting'[k] = Cardinality(Queue(k)')
                          /\ waiting'[k] \in Nat
                          /\ waiting'[k] <= waiting[k]
        <3> TAKE k \in Keys
        <3>1. CASE k = key[r]
            <4>1. r \in Queue(k) /\ Queue(k)' = Queue(k) \ {r}
                BY <3>1, <2>1, <2>2 DEF Queue
            <4>2. waiting[k] \in Nat /\ waiting[k] - 1 \in Nat
                BY <4>1, QueueSteps
            <4>3. waiting'[k] = waiting[k] - 1
                BY <4>2, <3>1, <2>1 DEF UnqueueOnGiveUp, TypeOK
            <4>4. Cardinality(Queue(k) \ {r}) = waiting[k] - 1
                BY <4>1, QueueSteps
            <4> QED BY <4>1, <4>2, <4>3, <4>4
        <3>2. CASE k # key[r]
            <4>1. Queue(k)' = Queue(k)
                BY <3>2, <2>2
            <4>2. waiting'[k] = waiting[k]
                BY <3>2, <2>1 DEF UnqueueOnGiveUp, TypeOK
            <4>3. /\ waiting[k] \in Nat /\ Cardinality(Queue(k)) = waiting[k]
                  /\ r \in Queue(k) => /\ Cardinality(Queue(k) \ {r}) = waiting[k] - 1
                                       /\ waiting[k] - 1 \in Nat
                BY QueueSteps
            <4> QED BY <4>1, <4>2, <4>3
        <3> QED BY <3>1, <3>2
    <2>4. SlotAccounting' /\ NeverOversubscribed'
        BY <2>2, <2>3 DEF SlotAccounting, NeverOversubscribed
    <2>5. QueueBounded'
        BY <2>3, QueueCapNat DEF QueueBounded, TypeOK
    <2>6. TypeOK' /\ PlaceInv'
        <3>1. waiting' \in [Keys -> Nat]
            BY <2>3 DEF UnqueueOnGiveUp, TypeOK
        <3> QED
            BY <3>1 DEF TypeOK, PlaceInv, Places
    <2>7. NoLostWakeup'
        BY DEF TypeOK, NoLostWakeup, HasRoom
    <2> QED BY <2>4, <2>5, <2>6, <2>7
<1>9. ASSUME NEW r \in Requests, Release(r)
      PROVE  IInv'
    <2> USE <1>9 DEF Release
    <2>1. key[r] \in Keys /\ inflight[key[r]] \in Nat /\ r \in Holders(key[r])
        BY DEF TypeOK, Holders
    <2>2. /\ \A k \in Keys : Holders(k)' = IF k = key[r] THEN Holders(k) \ {r}
                                           ELSE Holders(k)
          /\ \A k : Queue(k)' = Queue(k)
          /\ \A k, n : HoldersUnder(k, n)' \in SUBSET HoldersUnder(k, n)
        BY DEF Holders, HoldersUnder, Queue, TypeOK
    <2>3. /\ Cardinality(Holders(key[r]) \ {r}) = inflight[key[r]] - 1
          /\ Cardinality(Holders(key[r]) \ {r}) \in Nat
        BY <2>1, HolderSteps
    <2>4. /\ inflight' = [inflight EXCEPT ![key[r]] = @ - 1]
          /\ woken' = [q \in Requests |-> woken[q] \/ q \in WokenByRelease(key[r])]
        BY <2>1, <2>3
    <2>5. SlotAccounting'
        BY <2>1, <2>2, <2>3, <2>4 DEF SlotAccounting, TypeOK
    <2>6. NeverOversubscribed'
        <3> SUFFICES ASSUME NEW k \in Keys, NEW n \in EffLimits
                     PROVE  Cardinality(HoldersUnder(k, n)') <= n
            BY DEF NeverOversubscribed
        <3>1. n \in Nat /\ Cardinality(HoldersUnder(k, n)) <= n
            BY EffLimitsNat DEF NeverOversubscribed
        <3>2. /\ Cardinality(HoldersUnder(k, n)') <= Cardinality(HoldersUnder(k, n))
              /\ Cardinality(HoldersUnder(k, n)') \in Nat
            BY <2>2, CountsFinite, FS_Subset, FS_CardinalityType
        <3> QED BY <3>1, <3>2, CountsFinite
    <2>7. TypeOK' /\ PlaceInv'
        BY <2>1, <2>3, <2>4 DEF TypeOK, PlaceInv, Places
    <2>8. NoLostWakeup'
        BY <2>1, <2>4 DEF TypeOK, NoLostWakeup, HasRoom, WokenByRelease
    <2>9. QueueBounded'
        BY DEF QueueBounded
    <2> QED BY <2>5, <2>6, <2>7, <2>8, <2>9
<1> QED
    BY <1>1, <1>2, <1>3, <1>4, <1>5, <1>6, <1>7, <1>8, <1>9 DEF Next

(* The inductive invariant holds in every behaviour.                       *)
THEOREM AdmissionInductive == Spec => []IInv
BY InitIInv, StepIInv, PTL DEF Spec

(* Acquire, dequeue and release keep the controller's state well formed;   *)
(* in particular inflight and waiting never become negative.               *)
THEOREM AdmissionTypeOK == Spec => []TypeOK
BY AdmissionInductive, PTL DEF IInv

(* No slot and no queue place is leaked or given back twice.               *)
THEOREM AdmissionSlotAccounting == Spec => []SlotAccounting
BY AdmissionInductive, PTL DEF IInv

(* No source gets more concurrent queries than the pool size the calls     *)
(* were admitted under, through every change of that size.                 *)
THEOREM AdmissionNeverOversubscribed == Spec => []NeverOversubscribed
BY AdmissionInductive, PTL DEF IInv

(* A freed slot always reaches a waiting call.                             *)
THEOREM AdmissionNoLostWakeup == Spec => []NoLostWakeup
BY AdmissionInductive, PTL DEF IInv

(* The wait queue of a connection never exceeds its configured size.       *)
THEOREM AdmissionQueueBounded == Spec => []QueueBounded
BY AdmissionInductive, PTL DEF IInv
=============================================================================
