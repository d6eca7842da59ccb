---------------------------- MODULE InternalAuth ----------------------------
(***************************************************************************)
(* A signed call to the connector-service and its copies                   *)
(* (internal/internalauth/auth.go).  The signature covers the timestamp    *)
(* and a nonce; a verifier compares the timestamp with its clock and then  *)
(* takes the nonce from Redis, where it stays taken for twice the skew.    *)
(* Copies of a call reach replicas whose clocks differ, and time passes    *)
(* between the look at the clock and the nonce.                            *)
(*                                                                         *)
(* A call whose headers are missing or whose signature is wrong is refused *)
(* before any state is looked at and does not appear.                      *)
(***************************************************************************)
EXTENDS Integers, FiniteSets

CONSTANTS Copies,       \* arrivals of the same signed call
          Skew,         \* maxSkew
          Second,       \* how many moments a second has
          MaxAhead,     \* how far the signer's clock is off at most
          MaxDrift,     \* how far a verifier's clock is off at most
          MaxDelay,     \* longest time from the look at the clock to SetNX
          MaxMoment     \* bound: the last moment

ASSUME InternalAuthAssumption ==
    /\ Skew \in Nat /\ Second \in Nat \ {0}
    /\ MaxAhead \in Nat /\ MaxDrift \in Nat /\ MaxDelay \in Nat
    /\ MaxAhead + MaxDrift + MaxDelay < Skew

VARIABLES moment,       \* the time
          stamp,        \* the timestamp of the call; -1: not signed yet
          arrivals,     \* per copy: where its verification is and since when
          nonceUntil    \* when Redis drops the nonce; -1: it has none

authVars == <<moment, stamp, arrivals, nonceUntil>>

(* Fault: the nonce is kept for the skew only.                             *)
KeptForSkew == Skew

NonceTTL == 2 * Skew

AuthInit ==
    /\ moment \in MaxAhead .. MaxAhead + Second - 1
    /\ stamp = -1
    /\ arrivals = [c \in Copies |-> [at |-> "sent", since |-> 0]]
    /\ nonceUntil = -1

(* The timestamp has whole seconds.                                        *)
SignHeaders(offset) ==
    /\ stamp = -1
    /\ stamp' = ((moment + offset) \div Second) * Second
    /\ UNCHANGED <<moment, arrivals, nonceUntil>>

Becomes(c, at) == arrivals' = [arrivals EXCEPT ![c] = [at |-> at, since |-> IF at = "fresh" THEN moment ELSE 0]]

verifySignature(c, drift) ==
    /\ stamp # -1 /\ arrivals[c].at = "sent"
    /\ Becomes(c, IF stamp >= moment + drift - Skew /\ stamp <= moment + drift + Skew
                  THEN "fresh" ELSE "refused")
    /\ UNCHANGED <<moment, stamp, nonceUntil>>

NonceTaken == nonceUntil > moment

(* SetNX takes the nonce or finds it taken.                                *)
UseNonce(c) ==
    /\ arrivals[c].at = "fresh"
    /\ Becomes(c, IF NonceTaken THEN "refused" ELSE "accepted")
    /\ nonceUntil' = IF NonceTaken THEN nonceUntil ELSE moment + NonceTTL
    /\ UNCHANGED <<moment, stamp>>

(* Redis does not answer: refused, whether or not it took the nonce.       *)
UseNonceFails(c) ==
    /\ arrivals[c].at = "fresh"
    /\ Becomes(c, "refused")
    /\ nonceUntil' \in {nonceUntil, IF NonceTaken THEN nonceUntil ELSE moment + NonceTTL}
    /\ UNCHANGED <<moment, stamp>>

Tick ==
    /\ moment < MaxMoment
    /\ \A c \in Copies : arrivals[c].at = "fresh" => moment - arrivals[c].since < MaxDelay
    /\ moment' = moment + 1
    /\ UNCHANGED <<stamp, arrivals, nonceUntil>>

AuthNext ==
    \/ \E offset \in -MaxAhead .. MaxAhead : SignHeaders(offset)
    \/ \E c \in Copies :
          \/ \E drift \in -MaxDrift .. MaxDrift : verifySignature(c, drift)
          \/ UseNonce(c) \/ UseNonceFails(c)
    \/ Tick

-----------------------------------------------------------------------------
(* However many copies of a signed call arrive, at whichever replica and   *)
(* however late, one is accepted at most: the nonce outlives every clock   *)
(* that still takes the timestamp (internalauth/auth.go:85).               *)
NonceOnce == Cardinality({c \in Copies : arrivals[c].at = "accepted"}) <= 1
=============================================================================
