---------------------------- MODULE SigningKeys -----------------------------
(***************************************************************************)
(* The keys that sign access tokens: every replica of the auth-service     *)
(* loads them once, when it starts, and generates one if it finds none     *)
(* (authservice/keys.go, store/signingkeys.go); a gateway fetches the key  *)
(* set of whichever replica answers (gatewaysvc/jwks.go) and verifies      *)
(* tokens with the last set it got.  An operator adds and retires keys in  *)
(* the table (docs/OPERATIONS.md).                                         *)
(*                                                                         *)
(* Keys are numbered in the order of their rows.  A step is one statement  *)
(* of the metadata database or one fetch.                                  *)
(***************************************************************************)
EXTENDS Naturals, FiniteSets, Sequences

CONSTANTS Replicas,     \* replicas of the auth-service
          MaxKeys       \* bound: keys ever stored

VARIABLES keys,         \* how many rows jwt_signing_keys has
          retired,      \* keys whose status is retired
          replica,      \* per replica: where it is and what it has loaded
          jwks          \* the key set of a gateway

keyVars == <<keys, retired, replica, jwks>>

Down == [at |-> "down", kid |-> 0, verify |-> {}]
Active == 1 .. keys \ retired

KeysInit ==
    /\ keys = 0 /\ retired = {}
    /\ replica = [r \in Replicas |-> Down]
    /\ jwks = {}

(* Fault: the set to verify with is read before the key to sign with.      *)
AllFirst == <<"all", "current">>

(* reload: the key to sign with, then all keys.                            *)
ReloadSteps == <<"current", "all">>

Loading(r, n, loaded) ==
    replica' = [replica EXCEPT ![r] =
        [loaded EXCEPT !.at = IF n > Len(ReloadSteps) THEN "up" ELSE ReloadSteps[n]]]
Stands(r, s) == replica[r].at = s
StepAfter(s) == 1 + CHOOSE n \in DOMAIN ReloadSteps : ReloadSteps[n] = s

(* loadKeyManager.  An error of the read, whatever it is, counts as no key.*)
LoadKeyManager(r) ==
    /\ Stands(r, "down")
    /\ \/ Active # {} /\ Loading(r, 1, Down)
       \/ replica' = [replica EXCEPT ![r].at = "generate"]
    /\ UNCHANGED <<keys, retired, jwks>>

GenerateSigningKey(r) ==
    /\ Stands(r, "generate") /\ keys < MaxKeys
    /\ keys' = keys + 1
    /\ Loading(r, 1, Down)
    /\ UNCHANGED <<retired, jwks>>

(* The newest active key signs.                                            *)
CurrentSigningKey(r) ==
    /\ Stands(r, "current") /\ Active # {}
    /\ Loading(r, StepAfter("current"),
               [replica[r] EXCEPT !.kid = CHOOSE k \in Active : \A l \in Active : l <= k])
    /\ UNCHANGED <<keys, retired, jwks>>

(* Active and retired keys verify.                                         *)
AllSigningKeys(r) ==
    /\ Stands(r, "all")
    /\ Loading(r, StepAfter("all"), [replica[r] EXCEPT !.verify = 1 .. keys])
    /\ UNCHANGED <<keys, retired, jwks>>

(* A start that fails, or a replica that stops: nothing is kept.           *)
Exit(r) ==
    /\ ~Stands(r, "down")
    /\ replica' = [replica EXCEPT ![r] = Down]
    /\ UNCHANGED <<keys, retired, jwks>>

(* The operator adds a key, or retires one when there is a newer one.      *)
AddKey ==
    /\ keys < MaxKeys /\ keys' = keys + 1
    /\ UNCHANGED <<retired, replica, jwks>>
RetireSigningKey(k) ==
    /\ k \in Active /\ k < keys
    /\ retired' = retired \cup {k}
    /\ UNCHANGED <<keys, replica, jwks>>

(* A fetch that fails, or that brings no key, leaves the last set.         *)
Refresh(r) ==
    /\ Stands(r, "up") /\ replica[r].verify # {}
    /\ jwks' = replica[r].verify
    /\ UNCHANGED <<keys, retired, replica>>

KeysNext ==
    \/ \E r \in Replicas :
          \/ LoadKeyManager(r) \/ GenerateSigningKey(r)
          \/ CurrentSigningKey(r) \/ AllSigningKeys(r)
          \/ Exit(r) \/ Refresh(r)
    \/ AddKey \/ \E k \in 1 .. keys : RetireSigningKey(k)

-----------------------------------------------------------------------------
(* Whatever keys replicas that start together generate, however reads and  *)
(* edits of the table interleave: every replica publishes the key it signs *)
(* with, and while any replica is up there is one whose set verifies the   *)
(* tokens of all, so that a gateway can come by it at a refresh            *)
(* (authservice/keys.go:28, 64; gatewaysvc/jwks.go:75).                    *)
SignersPublished ==
    LET up == {r \in Replicas : Stands(r, "up")}
    IN /\ \A r \in up : replica[r].kid \in replica[r].verify
       /\ up # {} => \E p \in up : \A r \in up : replica[r].kid \in replica[p].verify
=============================================================================
