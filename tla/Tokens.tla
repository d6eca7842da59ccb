------------------------------- MODULE Tokens -------------------------------
(***************************************************************************)
(* Refresh tokens of one client: the auth-service issues, rotates and      *)
(* revokes them (authservice/service.go), the admin backend rotates the    *)
(* client's secret, changes its status and deletes it                      *)
(* (adminsvc/handlers_clients.go), the worker purges what has expired.     *)
(* Every step is one statement of the metadata database; the handlers run  *)
(* several of them with nothing in between to keep others out.             *)
(*                                                                         *)
(* A grant is one successful client_credentials request; the tokens that   *)
(* refreshes put in each other's place belong to its grant.  Secrets are   *)
(* numbered.  Scopes are left out: they are copied from token to token.    *)
(* Signing never fails here, storing the new token may.                    *)
(***************************************************************************)
EXTENDS Naturals, FiniteSets, Sequences

CONSTANTS TokenRequests,    \* requests at the token endpoints
          Rotators,         \* rotateClientSecret handlers
          MaxGrants,        \* bound: grants ever given
          MaxTokens,        \* bound: refresh tokens ever stored
          MaxSecrets        \* bound: secrets the client ever has

VARIABLES client,       \* the row of the client
          tokens,       \* refresh_tokens rows, by number
          stored,       \* how many have been stored
          grants,       \* the secret each grant was given for
          serving,      \* per request: where it is and for which grant
          rotating,     \* per handler: the next step of the rotation
          straddling    \* history: grants a revocation of all could not reach

tokenVars == <<client, tokens, stored, grants, serving, rotating, straddling>>

Idle == [at |-> "idle", grant |-> 0]
Serving(r) == serving[r].at # "idle"

(* What consumeRefreshTokenSQL asks of a row. *)
Usable(t) == ~tokens[t].revoked /\ ~tokens[t].expired

TokensInit ==
    /\ client = [exists |-> TRUE, active |-> TRUE, secret |-> 1]
    /\ tokens = <<>> /\ stored = 0 /\ grants = <<>>
    /\ serving = [r \in TokenRequests |-> Idle]
    /\ rotating = [a \in Rotators |-> 1]
    /\ straddling = {}

(* clientCredentials up to issueTokens, for a caller that presents the     *)
(* secret whose hash the row holds.                                        *)
ClientCredentials(r) ==
    /\ ~Serving(r) /\ client.exists /\ client.active
    /\ Len(grants) < MaxGrants
    /\ grants' = Append(grants, client.secret)
    /\ serving' = [serving EXCEPT ![r] = [at |-> "issue", grant |-> Len(grants) + 1]]
    /\ UNCHANGED <<client, tokens, stored, rotating, straddling>>

(* Fault: the row is looked up by its hash alone. *)
Stored(t) == ~tokens[t].expired

Consumable(t) == Usable(t)

ConsumeRefreshToken(r, t) ==
    /\ ~Serving(r) /\ Consumable(t)
    /\ tokens' = [tokens EXCEPT ![t].revoked = TRUE]
    /\ serving' = [serving EXCEPT ![r] = [at |-> "consumed", grant |-> tokens[t].grant]]
    /\ UNCHANGED <<client, stored, grants, rotating, straddling>>

(* refresh between the consumed token and issueTokens.  A client that is   *)
(* gone or inactive, or that cannot be read, costs the caller its token.   *)
GetClientByPK(r) ==
    /\ serving[r].at = "consumed"
    /\ \/ serving' = [serving EXCEPT ![r] = Idle]
       \/ /\ client.exists /\ client.active
          /\ serving' = [serving EXCEPT ![r].at = "issue"]
    /\ UNCHANGED <<client, tokens, stored, grants, rotating, straddling>>

CreateRefreshToken(r) ==
    /\ serving[r].at = "issue" /\ client.exists /\ stored < MaxTokens
    /\ stored' = stored + 1
    /\ tokens' = [t \in DOMAIN tokens \cup {stored'} |->
          IF t = stored' THEN [grant |-> serving[r].grant, revoked |-> FALSE, expired |-> FALSE]
                         ELSE tokens[t]]
    /\ serving' = [serving EXCEPT ![r] = Idle]
    /\ UNCHANGED <<client, grants, rotating, straddling>>

(* The insert fails, or the client row it refers to is gone. *)
IssueFails(r) ==
    /\ serving[r].at = "issue"
    /\ serving' = [serving EXCEPT ![r] = Idle]
    /\ UNCHANGED <<client, tokens, stored, grants, rotating, straddling>>

(* handleRevoke updates the row whatever its state. *)
RevokeRefreshToken(t) ==
    /\ tokens' = [tokens EXCEPT ![t].revoked = TRUE]
    /\ UNCHANGED <<client, stored, grants, serving, rotating, straddling>>

-----------------------------------------------------------------------------
(* rotateClientSecret: the new hash, then the tokens of the old one.  The  *)
(* second statement's error is ignored.                                    *)
(* Fault: tokens are revoked first.                                        *)
RevokeFirst == <<"revoke", "store">>

RotationSteps == <<"store", "revoke">>

InFlight == {serving[r].grant : r \in {q \in TokenRequests : Serving(q)}}

NextStep(a) == [rotating EXCEPT ![a] = (@ % Len(RotationSteps)) + 1]

RotateClientSecret(a) ==
    /\ RotationSteps[rotating[a]] = "store" /\ client.exists
    /\ client.secret < MaxSecrets
    /\ client' = [client EXCEPT !.secret = @ + 1]
    /\ rotating' = NextStep(a)
    /\ UNCHANGED <<tokens, stored, grants, serving, straddling>>

RevokeClientRefreshTokens(a) ==
    /\ RotationSteps[rotating[a]] = "revoke"
    /\ tokens' = [t \in DOMAIN tokens |-> [tokens[t] EXCEPT !.revoked = TRUE]]
    /\ straddling' = straddling \cup InFlight
    /\ rotating' = NextStep(a)
    /\ UNCHANGED <<client, stored, grants, serving>>

RevokeFails(a) ==
    /\ RotationSteps[rotating[a]] = "revoke"
    /\ straddling' = straddling \cup (1 .. Len(grants))
    /\ rotating' = NextStep(a)
    /\ UNCHANGED <<client, tokens, stored, grants, serving>>

UpdateClient ==
    /\ client.exists
    /\ client' = [client EXCEPT !.active = ~@]
    /\ UNCHANGED <<tokens, stored, grants, serving, rotating, straddling>>

(* The rows of its tokens go with the row of the client. *)
DeleteClient ==
    /\ client.exists
    /\ client' = [client EXCEPT !.exists = FALSE]
    /\ tokens' = <<>>
    /\ UNCHANGED <<stored, grants, serving, rotating, straddling>>

Expire(t) ==
    /\ ~tokens[t].expired
    /\ tokens' = [tokens EXCEPT ![t].expired = TRUE]
    /\ UNCHANGED <<client, stored, grants, serving, rotating, straddling>>

(* The worker's maintenance loop. *)
DeleteExpiredRefreshTokens ==
    /\ \E t \in DOMAIN tokens : tokens[t].expired
    /\ tokens' = [t \in {u \in DOMAIN tokens : ~tokens[u].expired} |-> tokens[t]]
    /\ UNCHANGED <<client, stored, grants, serving, rotating, straddling>>

TokensNext ==
    \/ \E r \in TokenRequests :
          \/ ClientCredentials(r) \/ GetClientByPK(r)
          \/ CreateRefreshToken(r) \/ IssueFails(r)
          \/ \E t \in DOMAIN tokens : ConsumeRefreshToken(r, t)
    \/ \E t \in DOMAIN tokens : RevokeRefreshToken(t) \/ Expire(t)
    \/ \E a \in Rotators :
          RotateClientSecret(a) \/ RevokeClientRefreshTokens(a) \/ RevokeFails(a)
    \/ UpdateClient \/ DeleteClient \/ DeleteExpiredRefreshTokens

-----------------------------------------------------------------------------
(* A grant has one heir: at any moment at most one usable refresh token or *)
(* one request on its way to store one.  Two refreshes with the same       *)
(* token, or a refresh and a revocation, never leave two                   *)
(* (store/clients.go:252).                                                 *)
OneLivePerGrant ==
    \A g \in 1 .. Len(grants) :
        Cardinality({t \in DOMAIN tokens : Usable(t) /\ tokens[t].grant = g})
            + Cardinality({r \in TokenRequests : Serving(r) /\ serving[r].grant = g}) <= 1

(* Once a rotation is over, a usable token that was obtained with an older *)
(* secret is one that its revocation could not reach: it was stored by a   *)
(* request that was under way then, or the revocation failed               *)
(* (adminsvc/handlers_clients.go:134).                                     *)
RotationCutsOff ==
    (\A a \in Rotators : rotating[a] = 1) =>
        \A t \in DOMAIN tokens :
            Usable(t) => \/ grants[tokens[t].grant] = client.secret
                         \/ tokens[t].grant \in straddling
=============================================================================
