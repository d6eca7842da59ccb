--------------------------- MODULE PlatformProofs ---------------------------
(***************************************************************************)
(* Safety of the platform's self-contained parts, for every value of their *)
(* constants.  Each part has its own inductive invariant: the step lemma   *)
(* Parts says what a step of the platform is for each of them, and every   *)
(* other lemma is about one part alone.                                    *)
(***************************************************************************)
EXTENDS Platform, FiniteSetTheorems, WellFoundedInduction, TLAPS

(* A step of the platform is a step of one part and leaves the others.     *)
LEMMA Parts ==
    ASSUME [Next]_vars
    PROVE  /\ TemplateNext \/ UNCHANGED templateVars
           /\ ShapeNext \/ UNCHANGED shapeVars
           /\ TokensNext \/ UNCHANGED tokenVars
           /\ KeysNext \/ UNCHANGED keyVars
           /\ AccessNext \/ UNCHANGED accessVars
           /\ AuthNext \/ UNCHANGED authVars
           /\ IdentityNext \/ UNCHANGED identityVars
           /\ LogNext \/ UNCHANGED logVars
           /\ BackupsNext \/ UNCHANGED backupVars
BY DEF Next, vars

(* A set no two members of which differ counts at most one.                *)
LEMMA AtMostOne ==
    ASSUME NEW S, \A x, y \in S : x = y
    PROVE  Cardinality(S) \in {0, 1} /\ (S = {} => Cardinality(S) = 0)
<1>1. CASE S = {}
    BY <1>1, FS_EmptySet
<1>2. CASE S # {}
    <2> PICK x \in S : TRUE
        BY <1>2
    <2>1. S = {x}
        OBVIOUS
    <2> QED BY <1>2, <2>1, FS_Singleton
<1> QED BY <1>1, <1>2

(* Every nonempty set of natural numbers has a smallest member, and a      *)
(* largest one if it has an upper bound.                                   *)
LEMMA Smallest ==
    ASSUME NEW S \in SUBSET Nat, S # {}
    PROVE  \E m \in S : \A n \in S : m <= n
<1> DEFINE R == OpToRel(<, Nat)
<1>1. IsWellFoundedOn(R, Nat)
    BY NatLessThanWellFounded
<1>2. \A m, n \in Nat : m < n => <<m, n>> \in R
    BY DEF OpToRel
<1> HIDE DEF R
<1>3. PICK m \in S : \A n \in S : ~ (<<n, m>> \in R)
    BY <1>1, WFMin
<1>4. ASSUME NEW n \in S PROVE m <= n
    <2>1. m \in Nat /\ n \in Nat
        OBVIOUS
    <2>2. ~ (n < m)
        BY <1>2, <1>3, <2>1
    <2> QED BY <2>1, <2>2
<1> QED BY <1>4

LEMMA LargestOf ==
    ASSUME NEW S \in SUBSET Nat, S # {}, NEW b \in Nat, \A n \in S : n <= b
    PROVE  \E m \in S : \A n \in S : n <= m
<1> DEFINE D == {b - n : n \in S}
<1>1. D \in SUBSET Nat /\ D # {}
    <2>1. \A n \in S : n \in Nat /\ b - n \in Nat
        OBVIOUS
    <2> QED BY <2>1
<1>2. PICK d \in D : \A e \in D : d <= e
    <2> HIDE DEF D
    <2> QED BY <1>1, Smallest
<1>3. PICK m \in S : d = b - m
    BY <1>2
<1>4. ASSUME NEW n \in S PROVE n <= m
    <2>1. m \in Nat /\ n \in Nat /\ b - n \in D
        OBVIOUS
    <2>2. b - m <= b - n
        BY <1>2, <1>3, <2>1
    <2> QED BY <2>1, <2>2
<1> QED BY <1>4

-----------------------------------------------------------------------------
(* Refresh tokens.  The heirs of a grant are its usable tokens and the     *)
(* requests on their way to store one.                                     *)

TokenTypeInv ==
    /\ stored \in Nat
    /\ grants \in Seq(Nat)
    /\ client \in [exists : BOOLEAN, active : BOOLEAN, secret : Nat]
    /\ DOMAIN tokens \subseteq 1 .. stored
    /\ tokens \in [DOMAIN tokens -> [grant : 1 .. Len(grants), revoked : BOOLEAN, expired : BOOLEAN]]
    /\ serving \in [TokenRequests -> [at : {"idle", "consumed", "issue"}, grant : Nat]]
    /\ \A r \in TokenRequests : Serving(r) => serving[r].grant \in 1 .. Len(grants)
    /\ rotating \in [Rotators -> {1, 2}]

OneHeir ==
    /\ \A t, u \in DOMAIN tokens :
          Usable(t) /\ Usable(u) /\ tokens[t].grant = tokens[u].grant => t = u
    /\ \A q, r \in TokenRequests :
          Serving(q) /\ Serving(r) /\ serving[q].grant = serving[r].grant => q = r
    /\ \A t \in DOMAIN tokens, r \in TokenRequests :
          ~(Usable(t) /\ Serving(r) /\ tokens[t].grant = serving[r].grant)

(* A grant that is neither of the present secret nor among those a         *)
(* revocation could not reach will be revoked by a rotation under way.     *)
Cut(g) ==
    \/ grants[g] = client.secret
    \/ g \in straddling
    \/ \E a \in Rotators : rotating[a] = 2

HeirsCut ==
    /\ \A t \in DOMAIN tokens : Usable(t) => Cut(tokens[t].grant)
    /\ \A r \in TokenRequests : Serving(r) => Cut(serving[r].grant)

TokensInv == TokenTypeInv /\ OneHeir /\ HeirsCut

LEMMA TokensInitInv == TokensInit => TokensInv
<1> SUFFICES ASSUME TokensInit PROVE TokensInv
    OBVIOUS
<1> USE DEF TokensInit
<1>1. TokenTypeInv
    BY DEF TokenTypeInv, Serving, Idle
<1>2. OneHeir
    BY DEF OneHeir, Serving, Idle
<1>3. HeirsCut
    BY DEF HeirsCut, Serving, Idle
<1> QED BY <1>1, <1>2, <1>3 DEF TokensInv

(* A row with one column changed.                                          *)
LEMMA TokenRowWith ==
    ASSUME TokenTypeInv, NEW t \in DOMAIN tokens, NEW b \in BOOLEAN
    PROVE  /\ [tokens[t] EXCEPT !.revoked = b]
                = [grant |-> tokens[t].grant, revoked |-> b, expired |-> tokens[t].expired]
           /\ [tokens[t] EXCEPT !.expired = b]
                = [grant |-> tokens[t].grant, revoked |-> tokens[t].revoked, expired |-> b]
           /\ tokens[t].revoked \in BOOLEAN /\ tokens[t].expired \in BOOLEAN
<1>1. tokens[t] \in [grant : 1 .. Len(grants), revoked : BOOLEAN, expired : BOOLEAN]
    BY DEF TokenTypeInv
<1> HIDE DEF TokenTypeInv
<1> QED BY <1>1

(* The row of a token is updated in place.                                 *)
LEMMA TokenRowUpdated ==
    ASSUME TokenTypeInv, NEW t \in DOMAIN tokens, NEW revoked \in BOOLEAN, NEW expired \in BOOLEAN,
           tokens' = [tokens EXCEPT ![t] = [grant |-> tokens[t].grant, revoked |-> revoked,
                                            expired |-> expired]]
    PROVE  /\ DOMAIN tokens' = DOMAIN tokens
           /\ tokens' \in [DOMAIN tokens -> [grant : 1 .. Len(grants), revoked : BOOLEAN, expired : BOOLEAN]]
           /\ tokens'[t] = [grant |-> tokens[t].grant, revoked |-> revoked, expired |-> expired]
           /\ \A u \in DOMAIN tokens \ {t} : tokens'[u] = tokens[u]
BY DEF TokenTypeInv

(* The two steps of a rotation alternate.                                  *)
LEMMA RotationAlternates ==
    ASSUME TokenTypeInv, NEW a \in Rotators
    PROVE  /\ RotationSteps[rotating[a]] = "store" =>
                 rotating[a] = 1 /\ NextStep(a) = [rotating EXCEPT ![a] = 2]
           /\ RotationSteps[rotating[a]] = "revoke" =>
                 rotating[a] = 2 /\ NextStep(a) = [rotating EXCEPT ![a] = 1]
<1>1. rotating[a] \in {1, 2} /\ Len(RotationSteps) = 2
    BY DEF TokenTypeInv, RotationSteps
<1>2. /\ RotationSteps[rotating[a]] = "store" => rotating[a] = 1
      /\ RotationSteps[rotating[a]] = "revoke" => rotating[a] = 2
    BY <1>1 DEF RotationSteps
<1>3. (1 % 2) + 1 = 2 /\ (2 % 2) + 1 = 1
    OBVIOUS
<1>4. NextStep(a) = [rotating EXCEPT ![a] = (rotating[a] % 2) + 1]
    BY <1>1 DEF NextStep
<1> QED BY <1>2, <1>3, <1>4

(* A step after which there are no other heirs than before.                *)
NoNewHeirs ==
    /\ \A t \in DOMAIN tokens' :
          /\ t \in DOMAIN tokens /\ tokens'[t].grant = tokens[t].grant
          /\ Usable(t)' => Usable(t)
    /\ \A r \in TokenRequests :
          Serving(r)' => Serving(r) /\ serving'[r].grant = serving[r].grant

LEMMA NoNewHeirsKeep ==
    ASSUME NoNewHeirs, OneHeir, HeirsCut
    PROVE  OneHeir' /\ ((\A g : Cut(g) => Cut(g)') => HeirsCut')
<1>1. OneHeir'
    BY DEF NoNewHeirs, OneHeir
<1>2. ASSUME \A g : Cut(g) => Cut(g)' PROVE HeirsCut'
    BY <1>2 DEF NoNewHeirs, HeirsCut
<1> QED BY <1>1, <1>2

LEMMA TokensStep == TokensInv /\ (TokensNext \/ UNCHANGED tokenVars) => TokensInv'
<1> SUFFICES ASSUME TokensInv, TokensNext \/ UNCHANGED tokenVars PROVE TokensInv'
    OBVIOUS
<1> USE DEF TokensInv
<1>1. CASE UNCHANGED tokenVars
    BY <1>1 DEF tokenVars, TokenTypeInv, OneHeir, HeirsCut, Cut, Usable, Serving
<1>2. ASSUME NEW r \in TokenRequests, ClientCredentials(r)
      PROVE  TokensInv'
    <2> USE <1>2 DEF ClientCredentials
    <2>1. /\ Len(grants') = Len(grants) + 1
          /\ grants' \in Seq(Nat)
          /\ \A g \in 1 .. Len(grants) : grants'[g] = grants[g]
          /\ grants'[Len(grants) + 1] = client.secret
        BY DEF TokenTypeInv
    <2>2. TokenTypeInv'
        BY <2>1 DEF TokenTypeInv, Serving
    <2>3. OneHeir'
        BY <2>1 DEF TokenTypeInv, OneHeir, Usable, Serving
    <2>4. HeirsCut'
        BY <2>1 DEF TokenTypeInv, HeirsCut, Cut, Usable, Serving
    <2> QED BY <2>2, <2>3, <2>4
<1>3. ASSUME NEW r \in TokenRequests, GetClientByPK(r) \/ IssueFails(r)
      PROVE  TokensInv'
    <2>1. TokenTypeInv'
        BY <1>3 DEF TokenTypeInv, Serving, GetClientByPK, IssueFails, Idle
    <2>2. UNCHANGED <<client, tokens, grants, rotating, straddling>>
        BY <1>3 DEF GetClientByPK, IssueFails
    <2>3. \A q \in TokenRequests : Serving(q)' => Serving(q) /\ serving'[q].grant = serving[q].grant
        <3>1. \A q \in TokenRequests : q # r => serving'[q] = serving[q]
            BY <1>3 DEF GetClientByPK, IssueFails, TokenTypeInv
        <3>2. Serving(r)
            BY <1>3 DEF GetClientByPK, IssueFails, Serving
        <3>3. serving'[r] = Idle \/ serving'[r] = [serving[r] EXCEPT !.at = "issue"]
            BY <1>3 DEF GetClientByPK, IssueFails, TokenTypeInv
        <3>4. Serving(r)' => serving'[r].grant = serving[r].grant
            BY <3>3 DEF Serving, Idle, TokenTypeInv
        <3> QED BY <3>1, <3>2, <3>4 DEF Serving
    <2>4. NoNewHeirs
        BY <2>2, <2>3 DEF NoNewHeirs, Usable
    <2> QED BY <2>1, <2>2, <2>4, NoNewHeirsKeep DEF Cut
<1>4. ASSUME NEW r \in TokenRequests, CreateRefreshToken(r)
      PROVE  TokensInv'
    <2>1. stored + 1 \notin DOMAIN tokens
        BY DEF TokenTypeInv
    <2>2. /\ UNCHANGED <<client, grants, rotating, straddling>>
          /\ DOMAIN tokens' = DOMAIN tokens \cup {stored + 1}
          /\ \A t \in DOMAIN tokens : tokens'[t] = tokens[t]
          /\ tokens'[stored + 1] = [grant |-> serving[r].grant, revoked |-> FALSE, expired |-> FALSE]
          /\ Serving(r) /\ ~Serving(r)'
          /\ \A q \in TokenRequests \ {r} : serving'[q] = serving[q]
        BY <1>4, <2>1 DEF CreateRefreshToken, Idle, TokenTypeInv, Serving
    <2>3. TokenTypeInv'
        BY <1>4, <2>1 DEF CreateRefreshToken, Idle, TokenTypeInv, Serving
    <2>4. OneHeir'
        BY <2>1, <2>2 DEF OneHeir, Usable, Serving
    <2>5. HeirsCut'
        BY <2>1, <2>2 DEF HeirsCut, Cut, Usable, Serving
    <2> QED BY <2>3, <2>4, <2>5
<1>5. ASSUME NEW r \in TokenRequests, NEW t \in DOMAIN tokens, ConsumeRefreshToken(r, t)
      PROVE  TokensInv'
    <2>1. tokens' = [tokens EXCEPT ![t] = [grant |-> tokens[t].grant, revoked |-> TRUE,
                                           expired |-> tokens[t].expired]]
        BY <1>5, TokenRowWith DEF ConsumeRefreshToken
    <2>2. tokens[t].expired \in BOOLEAN
        BY TokenRowWith
    <2>3. /\ DOMAIN tokens' = DOMAIN tokens
          /\ tokens' \in [DOMAIN tokens -> [grant : 1 .. Len(grants), revoked : BOOLEAN, expired : BOOLEAN]]
          /\ tokens'[t].grant = tokens[t].grant /\ tokens'[t].revoked
          /\ \A u \in DOMAIN tokens \ {t} : tokens'[u] = tokens[u]
        BY <2>1, <2>2, TokenRowUpdated
    <2>4. /\ UNCHANGED <<client, stored, grants, rotating, straddling>>
          /\ Usable(t) /\ ~Usable(t)'
          /\ ~Serving(r) /\ serving'[r].grant = tokens[t].grant
          /\ \A q \in TokenRequests \ {r} : serving'[q] = serving[q]
        BY <1>5, <2>3 DEF ConsumeRefreshToken, Consumable, TokenTypeInv, Serving, Usable
    <2>5. /\ serving' \in [TokenRequests -> [at : {"idle", "consumed", "issue"}, grant : Nat]]
          /\ \A q \in TokenRequests : Serving(q)' => serving'[q].grant \in 1 .. Len(grants)
        BY <1>5, <2>4 DEF ConsumeRefreshToken, TokenTypeInv, Serving
    <2>6. TokenTypeInv'
        BY <2>3, <2>4, <2>5 DEF TokenTypeInv
    <2>7. OneHeir'
        BY <2>3, <2>4 DEF OneHeir, Usable, Serving
    <2>8. HeirsCut'
        BY <2>3, <2>4 DEF HeirsCut, Cut, Usable, Serving
    <2> QED BY <2>6, <2>7, <2>8
<1>6. ASSUME NEW t \in DOMAIN tokens, RevokeRefreshToken(t) \/ Expire(t)
      PROVE  TokensInv'
    <2>1. PICK revoked \in BOOLEAN, expired \in BOOLEAN :
             /\ tokens' = [tokens EXCEPT ![t] = [grant |-> tokens[t].grant, revoked |-> revoked,
                                                 expired |-> expired]]
             /\ revoked \/ expired
        <3>1. CASE RevokeRefreshToken(t)
            BY <3>1, TokenRowWith DEF RevokeRefreshToken
        <3>2. CASE Expire(t)
            BY <3>2, TokenRowWith DEF Expire
        <3> QED BY <1>6, <3>1, <3>2
    <2>2. /\ DOMAIN tokens' = DOMAIN tokens
          /\ tokens' \in [DOMAIN tokens -> [grant : 1 .. Len(grants), revoked : BOOLEAN, expired : BOOLEAN]]
          /\ tokens'[t].grant = tokens[t].grant
          /\ ~Usable(t)'
          /\ \A u \in DOMAIN tokens \ {t} : tokens'[u] = tokens[u]
        BY <2>1, TokenRowUpdated DEF Usable
    <2>3. UNCHANGED <<client, stored, serving, grants, rotating, straddling>>
        BY <1>6 DEF RevokeRefreshToken, Expire
    <2>4. TokenTypeInv'
        BY <2>2, <2>3 DEF TokenTypeInv, Serving
    <2>5. NoNewHeirs
        BY <2>2, <2>3 DEF NoNewHeirs, Serving, Usable
    <2> QED BY <2>3, <2>4, <2>5, NoNewHeirsKeep DEF Cut
<1>7. ASSUME NEW a \in Rotators, RotateClientSecret(a)
      PROVE  TokensInv'
    <2>1. rotating[a] = 1 /\ rotating' = [rotating EXCEPT ![a] = 2]
        BY <1>7, RotationAlternates DEF RotateClientSecret
    <2>2. TokenTypeInv'
        BY <1>7, <2>1 DEF RotateClientSecret, TokenTypeInv, Serving
    <2>3. NoNewHeirs
        BY <1>7 DEF RotateClientSecret, NoNewHeirs, Usable, Serving
    <2>4. rotating'[a] = 2
        BY <2>1 DEF TokenTypeInv
    <2> QED BY <2>2, <2>3, <2>4, NoNewHeirsKeep DEF Cut
<1>8. ASSUME NEW a \in Rotators, RevokeClientRefreshTokens(a) \/ RevokeFails(a)
      PROVE  TokensInv'
    <2>1. rotating' = [rotating EXCEPT ![a] = 1]
        BY <1>8, RotationAlternates DEF RevokeClientRefreshTokens, RevokeFails
    <2>2. TokenTypeInv'
        <3>1. CASE RevokeClientRefreshTokens(a)
            <4>1. /\ DOMAIN tokens' = DOMAIN tokens
                  /\ tokens' \in [DOMAIN tokens -> [grant : 1 .. Len(grants), revoked : BOOLEAN, expired : BOOLEAN]]
                BY <3>1 DEF TokenTypeInv, RevokeClientRefreshTokens
            <4> QED BY <2>1, <3>1, <4>1 DEF TokenTypeInv, Serving, RevokeClientRefreshTokens
        <3>2. CASE RevokeFails(a)
            BY <2>1, <3>2 DEF TokenTypeInv, Serving, RevokeFails
        <3> QED BY <1>8, <3>1, <3>2
    <2>3. NoNewHeirs
        BY <1>8 DEF NoNewHeirs, RevokeClientRefreshTokens, RevokeFails, Usable, Serving, TokenTypeInv
    <2>4. CASE RevokeClientRefreshTokens(a)
        <3>1. \A t \in DOMAIN tokens' : ~Usable(t)'
            BY <2>4 DEF RevokeClientRefreshTokens, Usable, TokenTypeInv
        <3>2. \A r \in TokenRequests : Serving(r)' => serving'[r].grant \in straddling'
            BY <2>4 DEF RevokeClientRefreshTokens, Serving, InFlight
        <3>3. HeirsCut'
            BY <3>1, <3>2 DEF HeirsCut, Cut
        <3> QED BY <2>2, <2>3, <3>3, NoNewHeirsKeep
    <2>5. CASE RevokeFails(a)
        <3>1. \A g \in 1 .. Len(grants) : g \in straddling'
            BY <2>5 DEF RevokeFails
        <3>2. HeirsCut'
            BY <2>5, <3>1 DEF RevokeFails, HeirsCut, Cut, TokenTypeInv, Usable, Serving
        <3> QED BY <2>2, <2>3, <3>2, NoNewHeirsKeep
    <2> QED BY <1>8, <2>4, <2>5
<1>9. CASE UpdateClient \/ DeleteClient \/ DeleteExpiredRefreshTokens
    <2>1. TokenTypeInv'
        <3>1. CASE UpdateClient
            BY <3>1 DEF TokenTypeInv, Serving, UpdateClient
        <3>2. CASE DeleteClient
            <4>1. /\ tokens' = <<>> /\ UNCHANGED <<stored, grants, serving, rotating>>
                  /\ client' \in [exists : BOOLEAN, active : BOOLEAN, secret : Nat]
                BY <3>2 DEF TokenTypeInv, DeleteClient
            <4>2. DOMAIN tokens' = {} /\ \A S : tokens' \in [DOMAIN tokens' -> S]
                BY <4>1
            <4> QED BY <4>1, <4>2 DEF TokenTypeInv, Serving
        <3>3. CASE DeleteExpiredRefreshTokens
            BY <3>3 DEF TokenTypeInv, Serving, DeleteExpiredRefreshTokens
        <3> QED BY <1>9, <3>1, <3>2, <3>3
    <2>2. /\ UNCHANGED <<serving, grants, rotating, straddling>>
          /\ client'.secret = client.secret
        BY <1>9 DEF TokenTypeInv, UpdateClient, DeleteClient, DeleteExpiredRefreshTokens
    <2>3. NoNewHeirs
        BY <1>9 DEF NoNewHeirs, Usable, Serving, UpdateClient, DeleteClient, DeleteExpiredRefreshTokens
    <2> QED BY <2>1, <2>2, <2>3, NoNewHeirsKeep DEF Cut
<1> QED
    BY <1>1, <1>2, <1>3, <1>4, <1>5, <1>6, <1>7, <1>8, <1>9 DEF TokensNext

LEMMA TokensAlways == Spec => []TokensInv
<1>1. Init => TokensInv
    BY TokensInitInv DEF Init
<1>2. TokensInv /\ [Next]_vars => TokensInv'
    BY TokensStep, Parts
<1> QED BY <1>1, <1>2, PTL DEF Spec

(* However token requests, revocations, expiry, the purge and the deletion *)
(* of the client interleave, a grant has at most one usable refresh token  *)
(* or one request on its way to store one.                                 *)
THEOREM HeirTheorem == Spec => []OneLivePerGrant
<1>1. TokensInv => OneLivePerGrant
    <2> SUFFICES ASSUME TokensInv, NEW g \in 1 .. Len(grants)
                 PROVE  Cardinality({t \in DOMAIN tokens : Usable(t) /\ tokens[t].grant = g})
                          + Cardinality({r \in TokenRequests : Serving(r) /\ serving[r].grant = g}) <= 1
        BY DEF OneLivePerGrant
    <2> DEFINE T == {t \in DOMAIN tokens : Usable(t) /\ tokens[t].grant = g}
               R == {r \in TokenRequests : Serving(r) /\ serving[r].grant = g}
    <2>1. Cardinality(T) \in {0, 1} /\ (T = {} => Cardinality(T) = 0)
        <3>1. \A x, y \in T : x = y
            BY DEF TokensInv, OneHeir
        <3> QED BY <3>1, AtMostOne
    <2>2. Cardinality(R) \in {0, 1} /\ (R = {} => Cardinality(R) = 0)
        <3>1. \A x, y \in R : x = y
            BY DEF TokensInv, OneHeir
        <3> QED BY <3>1, AtMostOne
    <2>3. T = {} \/ R = {}
        BY DEF TokensInv, OneHeir
    <2> HIDE DEF T, R
    <2>4. Cardinality(T) + Cardinality(R) <= 1
        BY <2>1, <2>2, <2>3
    <2> QED BY <2>4 DEF T, R
<1> QED BY <1>1, TokensAlways, PTL

(* When no rotation is under way, every usable refresh token was obtained  *)
(* with the present secret of the client, or for a grant that a revocation *)
(* could not reach: its request was under way then, or the revocation      *)
(* failed.                                                                 *)
THEOREM RotationTheorem == Spec => []RotationCutsOff
<1>1. TokensInv => RotationCutsOff
    BY DEF TokensInv, HeirsCut, Cut, RotationCutsOff
<1> QED BY <1>1, TokensAlways, PTL

-----------------------------------------------------------------------------
(* Signing keys.  A replica that has read its key finds it among the keys  *)
(* it reads afterwards, because keys are only ever added; the replica with *)
(* the newest key of all therefore knows the keys of all.                  *)

ReplicaStates ==
    [at : {"down", "generate", "current", "all", "up"}, kid : Nat, verify : SUBSET Nat]

KeysInv ==
    /\ keys \in Nat
    /\ replica \in [Replicas -> ReplicaStates]
    /\ \A r \in Replicas : Stands(r, "all") \/ Stands(r, "up") => replica[r].kid \in 1 .. keys
    /\ \A r \in Replicas : Stands(r, "up") =>
          \E n \in Nat : replica[r].verify = 1 .. n /\ replica[r].kid <= n

(* The newest active key is an active key.                                 *)
LEMMA NewestActive ==
    ASSUME keys \in Nat, Active # {}
    PROVE  (CHOOSE k \in Active : \A l \in Active : l <= k) \in 1 .. keys
<1>1. Active \in SUBSET Nat /\ \A n \in Active : n <= keys
    BY DEF Active
<1>2. \E k \in Active : \A l \in Active : l <= k
    BY <1>1, LargestOf
<1>3. (CHOOSE k \in Active : \A l \in Active : l <= k) \in Active
    BY <1>2
<1> QED BY <1>3 DEF Active

(* What a replica has loaded when the step called s is over.               *)
LEMMA LoadingSteps ==
    ASSUME NEW r, NEW loaded
    PROVE  /\ Loading(r, 1, loaded) <=>
                 replica' = [replica EXCEPT ![r] = [loaded EXCEPT !.at = "current"]]
           /\ Loading(r, StepAfter("current"), loaded) <=>
                 replica' = [replica EXCEPT ![r] = [loaded EXCEPT !.at = "all"]]
           /\ Loading(r, StepAfter("all"), loaded) <=>
                 replica' = [replica EXCEPT ![r] = [loaded EXCEPT !.at = "up"]]
<1>1. /\ Len(ReloadSteps) = 2 /\ DOMAIN ReloadSteps = 1 .. 2
      /\ ReloadSteps[1] = "current" /\ ReloadSteps[2] = "all"
    BY DEF ReloadSteps
<1>2. StepAfter("current") = 2 /\ StepAfter("all") = 3
    <2>1. (CHOOSE n \in 1 .. 2 : ReloadSteps[n] = "current") = 1
        BY <1>1
    <2>2. (CHOOSE n \in 1 .. 2 : ReloadSteps[n] = "all") = 2
        BY <1>1
    <2> QED BY <1>1, <2>1, <2>2 DEF StepAfter
<1> QED BY <1>1, <1>2 DEF Loading

(* One replica changes to a state its place allows; keys may be added.     *)
LEMMA OneReplicaMoves ==
    ASSUME KeysInv, NEW r \in Replicas, NEW new \in ReplicaStates,
           replica' = [replica EXCEPT ![r] = new],
           keys' \in Nat, keys' >= keys,
           new.at \in {"all", "up"} => new.kid \in 1 .. keys',
           new.at = "up" => \E n \in Nat : new.verify = 1 .. n /\ new.kid <= n
    PROVE  KeysInv'
<1>1. /\ replica' \in [Replicas -> ReplicaStates]
      /\ replica'[r] = new
      /\ \A q \in Replicas : q # r => replica'[q] = replica[q]
    BY DEF KeysInv
<1> QED BY <1>1 DEF KeysInv, Stands

LEMMA KeysStep == KeysInv /\ (KeysNext \/ UNCHANGED keyVars) => KeysInv'
<1> SUFFICES ASSUME KeysInv, KeysNext \/ UNCHANGED keyVars PROVE KeysInv'
    OBVIOUS
<1>0. keys \in Nat /\ \A r \in Replicas : replica[r] \in ReplicaStates
    BY DEF KeysInv
<1>1. CASE UNCHANGED keyVars
    BY <1>1 DEF keyVars, KeysInv, Stands
<1>2. ASSUME NEW r \in Replicas, LoadKeyManager(r) \/ GenerateSigningKey(r) \/ Exit(r)
      PROVE  KeysInv'
    <2> DEFINE Simple(new) == new \in ReplicaStates /\ new.at \notin {"all", "up"}
    <2>1. PICK new : Simple(new) /\ replica' = [replica EXCEPT ![r] = new]
        <3>1. Simple(Down) /\ Simple([Down EXCEPT !.at = "current"])
            BY DEF Down, ReplicaStates
        <3>2. Simple([replica[r] EXCEPT !.at = "generate"])
            BY <1>0 DEF ReplicaStates
        <3> HIDE DEF Simple
        <3>3. CASE LoadKeyManager(r)
            BY <3>1, <3>2, <3>3, LoadingSteps DEF LoadKeyManager
        <3>4. CASE GenerateSigningKey(r)
            BY <3>1, <3>4, LoadingSteps DEF GenerateSigningKey
        <3>5. CASE Exit(r)
            BY <3>1, <3>5 DEF Exit
        <3> QED BY <1>2, <3>3, <3>4, <3>5
    <2>2. keys' \in Nat /\ keys' >= keys
        BY <1>0, <1>2 DEF LoadKeyManager, GenerateSigningKey, Exit
    <2> QED BY <2>1, <2>2, OneReplicaMoves
<1>3. ASSUME NEW r \in Replicas, CurrentSigningKey(r)
      PROVE  KeysInv'
    <2>1. PICK k \in 1 .. keys : Loading(r, StepAfter("current"), [replica[r] EXCEPT !.kid = k])
        BY <1>0, <1>3, NewestActive DEF CurrentSigningKey
    <2> DEFINE read == [replica[r] EXCEPT !.kid = k]
               new == [read EXCEPT !.at = "all"]
    <2>2. read \in ReplicaStates /\ read.kid = k
        BY <1>0, <2>1 DEF ReplicaStates
    <2>3. replica' = [replica EXCEPT ![r] = new] /\ keys' = keys
        BY <1>3, <2>1, LoadingSteps DEF CurrentSigningKey
    <2> HIDE DEF read
    <2>4. new \in ReplicaStates /\ new.at = "all" /\ new.kid = k
        BY <2>2 DEF ReplicaStates
    <2> HIDE DEF new
    <2>5. /\ keys' \in Nat /\ keys' >= keys /\ new.kid \in 1 .. keys'
          /\ new.at = "up" => FALSE
        BY <1>0, <2>1, <2>3, <2>4
    <2> QED BY <2>3, <2>4, <2>5, OneReplicaMoves
<1>4. ASSUME NEW r \in Replicas, AllSigningKeys(r)
      PROVE  KeysInv'
    <2> DEFINE read == [replica[r] EXCEPT !.verify = 1 .. keys]
               new == [read EXCEPT !.at = "up"]
    <2>1. replica[r].kid \in 1 .. keys
        BY <1>4 DEF AllSigningKeys, KeysInv
    <2>2. read \in ReplicaStates /\ read.verify = 1 .. keys /\ read.kid = replica[r].kid
        BY <1>0 DEF ReplicaStates
    <2>3. replica' = [replica EXCEPT ![r] = new] /\ keys' = keys
        BY <1>4, LoadingSteps DEF AllSigningKeys
    <2> HIDE DEF read
    <2>4. new \in ReplicaStates /\ new.at = "up" /\ new.kid = replica[r].kid /\ new.verify = 1 .. keys
        BY <2>2 DEF ReplicaStates
    <2> HIDE DEF new
    <2>5. /\ keys' \in Nat /\ keys' >= keys /\ new.kid \in 1 .. keys'
          /\ new.verify = 1 .. keys /\ new.kid <= keys
        BY <1>0, <2>1, <2>3, <2>4
    <2>6. \E n \in Nat : new.verify = 1 .. n /\ new.kid <= n
        BY <1>0, <2>5
    <2> QED BY <2>3, <2>4, <2>5, <2>6, OneReplicaMoves
<1>5. CASE (\E r \in Replicas : Refresh(r)) \/ AddKey \/ \E k \in 1 .. keys : RetireSigningKey(k)
    BY <1>5 DEF Refresh, AddKey, RetireSigningKey, KeysInv, Stands
<1> QED
    BY <1>1, <1>2, <1>3, <1>4, <1>5 DEF KeysNext

(* Whatever keys replicas that start together generate, and however reads  *)
(* of the table, added and retired keys interleave, every replica of the   *)
(* auth-service publishes the key it signs with, and while any is up one   *)
(* of them publishes the keys of all.                                      *)
THEOREM SignersTheorem == Spec => []SignersPublished
<1>1. Init => KeysInv
    BY DEF Init, KeysInit, KeysInv, ReplicaStates, Down, Stands
<1>2. KeysInv /\ [Next]_vars => KeysInv'
    BY KeysStep, Parts
<1>3. KeysInv => SignersPublished
    <2> SUFFICES ASSUME KeysInv PROVE SignersPublished
        OBVIOUS
    <2> DEFINE up == {r \in Replicas : Stands(r, "up")}
               kids == {replica[r].kid : r \in up}
    <2>1. \A r \in up : replica[r].kid \in 1 .. keys
        BY DEF KeysInv
    <2>2. \A r \in up : replica[r].kid \in replica[r].verify
        BY <2>1 DEF KeysInv
    <2>3. ASSUME up # {}
          PROVE  \E p \in up : \A r \in up : replica[r].kid \in replica[p].verify
        <3>1. keys \in Nat /\ kids \in SUBSET Nat /\ kids # {} /\ \A n \in kids : n <= keys
            BY <2>1, <2>3 DEF KeysInv
        <3>2. PICK m \in kids : \A n \in kids : n <= m
            <4> HIDE DEF kids
            <4> QED BY <3>1, LargestOf
        <3>3. PICK p \in up : m = replica[p].kid
            BY <3>2
        <3>4. PICK n \in Nat : replica[p].verify = 1 .. n /\ replica[p].kid <= n
            BY <3>3 DEF KeysInv
        <3>5. \A r \in up : replica[r].kid \in 1 .. n
            <4> TAKE r \in up
            <4>1. replica[r].kid \in kids /\ replica[r].kid \in 1 .. keys
                BY <2>1
            <4>2. replica[r].kid <= replica[p].kid /\ replica[p].kid \in Nat
                BY <3>1, <3>2, <3>3, <4>1
            <4> QED BY <3>1, <3>4, <4>1, <4>2
        <3> QED BY <3>3, <3>4, <3>5
    <2> QED BY <2>2, <2>3 DEF SignersPublished
<1> QED BY <1>1, <1>2, <1>3, PTL DEF Spec

-----------------------------------------------------------------------------
(* Signed calls.  A call is never stamped more than MaxAhead later than    *)
(* the moment, so the nonce taken with it stays taken until stamp +        *)
(* 2 * Skew - MaxAhead at least; a copy that still passes the clock of a   *)
(* verifier comes before that.                                             *)

StampInv ==
    /\ moment \in Int /\ moment >= MaxAhead
    /\ stamp \in Int /\ stamp >= -1 /\ stamp <= moment + MaxAhead
    /\ nonceUntil \in Int
ArrivalInv ==
    /\ arrivals \in [Copies -> [at : {"sent", "fresh", "refused", "accepted"}, since : Int]]
    /\ \A c \in Copies : arrivals[c].at # "sent" => stamp # -1
    /\ \A c \in Copies : arrivals[c].at = "fresh" =>
          /\ arrivals[c].since <= moment /\ moment - arrivals[c].since <= MaxDelay
          /\ stamp >= arrivals[c].since - MaxDrift - Skew
AcceptedInv ==
    /\ \A c \in Copies : arrivals[c].at = "accepted" => nonceUntil >= stamp - MaxAhead + 2 * Skew
    /\ \A c, d \in Copies : arrivals[c].at = "accepted" /\ arrivals[d].at = "accepted" => c = d

AuthInv == StampInv /\ ArrivalInv /\ AcceptedInv

(* Rounding down to whole seconds.                                         *)
LEMMA WholeSeconds ==
    ASSUME NEW x \in Nat, NEW s \in Nat \ {0}
    PROVE  (x \div s) * s \in Int /\ (x \div s) * s >= 0 /\ (x \div s) * s <= x
OBVIOUS

LEMMA AuthStep == AuthInv /\ (AuthNext \/ UNCHANGED authVars) => AuthInv'
<1> SUFFICES ASSUME AuthInv, AuthNext \/ UNCHANGED authVars PROVE AuthInv'
    OBVIOUS
<1> USE DEF AuthInv
<1>0. /\ Skew \in Nat /\ Second \in Nat \ {0}
      /\ MaxAhead \in Nat /\ MaxDrift \in Nat /\ MaxDelay \in Nat
      /\ MaxAhead + MaxDrift + MaxDelay < Skew
    BY InternalAuthAssumption
<1>1. CASE UNCHANGED authVars
    BY <1>1 DEF authVars, StampInv, ArrivalInv, AcceptedInv
<1>2. ASSUME NEW offset \in -MaxAhead .. MaxAhead, SignHeaders(offset)
      PROVE  AuthInv'
    <2>1. moment + offset \in Nat
        BY <1>0 DEF StampInv
    <2>2. stamp' \in Int /\ stamp' >= 0 /\ stamp' <= moment + offset
        BY <1>0, <1>2, <2>1, WholeSeconds DEF SignHeaders
    <2>3. StampInv'
        BY <1>0, <1>2, <2>2 DEF SignHeaders, StampInv
    <2>4. \A c \in Copies : arrivals[c].at = "sent"
        BY <1>2 DEF SignHeaders, ArrivalInv
    <2>5. ArrivalInv' /\ AcceptedInv'
        BY <1>2, <2>4 DEF SignHeaders, ArrivalInv, AcceptedInv
    <2> QED BY <2>3, <2>5
<1>3. ASSUME NEW c \in Copies, NEW drift \in -MaxDrift .. MaxDrift, verifySignature(c, drift)
      PROVE  AuthInv'
    <2>1. UNCHANGED <<moment, stamp, nonceUntil>> /\ stamp # -1
        BY <1>3 DEF verifySignature
    <2>2. /\ arrivals' \in [Copies -> [at : {"sent", "fresh", "refused", "accepted"}, since : Int]]
          /\ \A d \in Copies : d # c => arrivals'[d] = arrivals[d]
          /\ arrivals'[c].at # "accepted"
          /\ arrivals'[c].at = "fresh" =>
                arrivals'[c].since = moment /\ stamp >= moment + drift - Skew
        BY <1>3 DEF verifySignature, Becomes, StampInv, ArrivalInv
    <2>3. StampInv'
        BY <2>1 DEF StampInv
    <2>4. ArrivalInv'
        BY <1>0, <2>1, <2>2 DEF StampInv, ArrivalInv
    <2>5. AcceptedInv'
        BY <2>1, <2>2 DEF AcceptedInv
    <2> QED BY <2>3, <2>4, <2>5
<1>4. ASSUME NEW c \in Copies, UseNonce(c) \/ UseNonceFails(c)
      PROVE  AuthInv'
    <2>1. UNCHANGED <<moment, stamp>> /\ arrivals[c].at = "fresh"
        BY <1>4 DEF UseNonce, UseNonceFails
    <2>2. /\ arrivals' \in [Copies -> [at : {"sent", "fresh", "refused", "accepted"}, since : Int]]
          /\ \A d \in Copies : d # c => arrivals'[d] = arrivals[d]
          /\ arrivals'[c].at \in {"refused", "accepted"}
          /\ arrivals'[c].at = "accepted" => ~NonceTaken /\ nonceUntil' = moment + NonceTTL
        BY <1>4 DEF UseNonce, UseNonceFails, Becomes, ArrivalInv
    <2>3. nonceUntil' = nonceUntil \/ (~NonceTaken /\ nonceUntil' = moment + NonceTTL)
        BY <1>4 DEF UseNonce, UseNonceFails
    <2>4. stamp - MaxAhead + 2 * Skew > moment
        BY <1>0, <2>1 DEF StampInv, ArrivalInv
    <2>5. NonceTTL = 2 * Skew /\ moment + NonceTTL >= stamp - MaxAhead + 2 * Skew
        BY <1>0 DEF NonceTTL, StampInv
    <2>6. ASSUME NEW d \in Copies, arrivals[d].at = "accepted" PROVE NonceTaken
        BY <1>0, <2>4, <2>6 DEF NonceTaken, StampInv, AcceptedInv
    <2>7. StampInv'
        BY <1>0, <2>1, <2>3, <2>5 DEF StampInv
    <2>8. ArrivalInv'
        BY <2>1, <2>2 DEF ArrivalInv
    <2>9. AcceptedInv'
        BY <2>1, <2>2, <2>3, <2>5, <2>6 DEF AcceptedInv
    <2> QED BY <2>7, <2>8, <2>9
<1>5. CASE Tick
    <2>1. StampInv'
        BY <1>0, <1>5 DEF Tick, StampInv
    <2>2. ArrivalInv'
        BY <1>0, <1>5 DEF Tick, StampInv, ArrivalInv
    <2>3. AcceptedInv'
        BY <1>5 DEF Tick, AcceptedInv
    <2> QED BY <2>1, <2>2, <2>3
<1> QED
    BY <1>1, <1>2, <1>3, <1>4, <1>5 DEF AuthNext

(* One copy of a signed call is accepted at most, however many arrive, at  *)
(* whichever replica, however late and whatever Redis fails to answer, as  *)
(* long as the clocks and the delay between the two checks are off by less *)
(* than the skew together.                                                 *)
THEOREM NonceTheorem == Spec => []NonceOnce
<1>1. Init => AuthInv
    BY InternalAuthAssumption DEF Init, AuthInit, AuthInv, StampInv, ArrivalInv, AcceptedInv
<1>2. AuthInv /\ [Next]_vars => AuthInv'
    BY AuthStep, Parts
<1>3. AuthInv => NonceOnce
    <2> SUFFICES ASSUME AuthInv PROVE NonceOnce
        OBVIOUS
    <2> DEFINE accepted == {c \in Copies : arrivals[c].at = "accepted"}
    <2>1. \A c, d \in accepted : c = d
        BY DEF AuthInv, AcceptedInv
    <2>2. Cardinality(accepted) \in {0, 1}
        BY <2>1, AtMostOne
    <2> QED BY <2>2 DEF NonceOnce
<1> QED BY <1>1, <1>2, <1>3, PTL DEF Spec

-----------------------------------------------------------------------------
(* Dashboard users.  While the account is locked, every recorded failure   *)
(* uses up a login that had passed the check of the lock before; while it  *)
(* is open, the recorded failures are fewer than the threshold.            *)

Guessing == {l \in Logins : attempts[l].at = "password"}

LoginTypeInv ==
    /\ user \in [active : BOOLEAN, failed : Nat, locked : BOOLEAN]
    /\ attempts \in [Logins -> [at : {"idle", "password"}, failed : Nat]]
    /\ guesses \in Nat
GuessInv ==
    /\ user.locked => guesses + Cardinality(Guessing) <= MaxFailedLogin + Cardinality(Logins) - 1
    /\ ~user.locked => /\ guesses < MaxFailedLogin /\ guesses <= user.failed
                       /\ guesses = 0 \/ user.failed < MaxFailedLogin

(* One login fewer is past the check of the lock.                          *)
LEMMA GuessingCounts ==
    /\ Cardinality(Logins) \in Nat /\ Cardinality(Guessing) \in Nat
    /\ \A l \in Guessing :
          /\ Cardinality(Guessing \ {l}) = Cardinality(Guessing) - 1
          /\ Cardinality(Guessing) <= Cardinality(Logins)
<1>1. IsFiniteSet(Logins)
    BY IdentityAssumption
<1>2. IsFiniteSet(Guessing) /\ Cardinality(Guessing) <= Cardinality(Logins)
    <2>1. Guessing \in SUBSET Logins
        BY DEF Guessing
    <2> QED BY <1>1, <2>1, FS_Subset
<1> QED BY <1>1, <1>2, FS_CardinalityType, FS_RemoveElement

LEMMA GuessStep ==
    LoginTypeInv /\ GuessInv /\ (IdentityNext \/ UNCHANGED identityVars) => LoginTypeInv' /\ GuessInv'
<1> SUFFICES ASSUME LoginTypeInv, GuessInv, IdentityNext \/ UNCHANGED identityVars
             PROVE  LoginTypeInv' /\ GuessInv'
    OBVIOUS
<1>0. MaxFailedLogin \in Nat \ {0}
    BY IdentityAssumption
<1>1. ASSUME UNCHANGED <<user, attempts, guesses>>
      PROVE  LoginTypeInv' /\ GuessInv'
    BY <1>1 DEF LoginTypeInv, GuessInv, Guessing
<1>2. ASSUME NEW l \in Logins, GetUserByLogin(l)
      PROVE  LoginTypeInv' /\ GuessInv'
    BY <1>2 DEF GetUserByLogin, CanLogIn, LoginTypeInv, GuessInv
<1>3. ASSUME NEW l \in Logins, attempts[l].at = "password",
             attempts' = [attempts EXCEPT ![l] = NoAttempt]
      PROVE  /\ attempts' \in [Logins -> [at : {"idle", "password"}, failed : Nat]]
             /\ Cardinality(Guessing') = Cardinality(Guessing) - 1
             /\ Cardinality(Guessing') <= Cardinality(Logins) - 1
             /\ Cardinality(Guessing') \in Nat /\ Cardinality(Logins) \in Nat
             /\ Cardinality(Guessing) \in Nat
    <2>1. Guessing' = Guessing \ {l} /\ l \in Guessing
        BY <1>3 DEF Guessing, NoAttempt, LoginTypeInv
    <2>2. attempts' \in [Logins -> [at : {"idle", "password"}, failed : Nat]]
        BY <1>3 DEF NoAttempt, LoginTypeInv
    <2>3. /\ Cardinality(Logins) \in Nat /\ Cardinality(Guessing) \in Nat
          /\ Cardinality(Guessing') = Cardinality(Guessing) - 1
          /\ Cardinality(Guessing) <= Cardinality(Logins)
        BY <2>1, GuessingCounts
    <2>4. Cardinality(Guessing') \in Nat
        <3>1. IsFiniteSet(Guessing')
            <4>1. Guessing' \in SUBSET Logins
                BY <2>1 DEF Guessing
            <4> QED BY <4>1, IdentityAssumption, FS_Subset
        <3> QED BY <3>1, FS_CardinalityType
    <2> QED BY <2>2, <2>3, <2>4
<1>4. ASSUME NEW l \in Logins, RecordLoginFailure(l)
      PROVE  LoginTypeInv' /\ GuessInv'
    <2>1. /\ user' \in [active : BOOLEAN, failed : Nat, locked : BOOLEAN]
          /\ user'.failed = user.failed + 1
          /\ user'.locked <=> user.locked \/ user.failed + 1 >= MaxFailedLogin
          /\ guesses' = guesses + 1
          /\ user.failed \in Nat
        <3> DEFINE lock == user.locked \/ CountNow(l) >= MaxFailedLogin
        <3>1. /\ user.failed \in Nat /\ CountNow(l) = user.failed + 1
              /\ user.active \in BOOLEAN /\ user.locked \in BOOLEAN
            BY DEF LoginTypeInv, CountNow
        <3>2. lock \in BOOLEAN
            OBVIOUS
        <3>3. user' = [user EXCEPT !.failed = CountNow(l), !.locked = lock] /\ guesses' = guesses + 1
            BY <1>4 DEF RecordLoginFailure
        <3> HIDE DEF lock
        <3>4. user' = [active |-> user.active, failed |-> user.failed + 1, locked |-> lock]
            BY <3>1, <3>3 DEF LoginTypeInv
        <3>5. user' \in [active : BOOLEAN, failed : Nat, locked : BOOLEAN]
            BY <3>1, <3>2, <3>4
        <3>6. user'.failed = user.failed + 1 /\ user'.locked = lock
            BY <3>4
        <3> QED BY <3>1, <3>3, <3>5, <3>6 DEF lock
    <2>2. attempts[l].at = "password" /\ attempts' = [attempts EXCEPT ![l] = NoAttempt]
        BY <1>4 DEF RecordLoginFailure
    <2>3. LoginTypeInv'
        <3>1. attempts' \in [Logins -> [at : {"idle", "password"}, failed : Nat]]
            BY <1>3, <2>2
        <3>2. guesses' \in Nat
            BY <2>1 DEF LoginTypeInv
        <3> QED BY <2>1, <3>1, <3>2 DEF LoginTypeInv
    <2>4. GuessInv'
        <3>1. /\ Cardinality(Guessing') = Cardinality(Guessing) - 1
              /\ Cardinality(Guessing') <= Cardinality(Logins) - 1
              /\ Cardinality(Guessing') \in Nat /\ Cardinality(Logins) \in Nat
              /\ Cardinality(Guessing) \in Nat
            BY <1>3, <2>2
        <3>2. guesses \in Nat
            BY DEF LoginTypeInv
        <3>3. CASE user.locked
            BY <1>0, <2>1, <3>1, <3>2, <3>3 DEF GuessInv
        <3>4. CASE ~user.locked
            BY <1>0, <2>1, <3>1, <3>2, <3>4 DEF GuessInv
        <3> QED BY <3>3, <3>4
    <2> QED BY <2>3, <2>4
<1>5. ASSUME guesses' = 0, user' = Unlocked(user) \/ user' = [user EXCEPT !.locked = FALSE],
             attempts' \in [Logins -> [at : {"idle", "password"}, failed : Nat]]
      PROVE  LoginTypeInv' /\ GuessInv'
    <2>1. user' \in [active : BOOLEAN, failed : Nat, locked : BOOLEAN] /\ ~user'.locked
        <3>1. user.active \in BOOLEAN /\ user.failed \in Nat /\ user.locked \in BOOLEAN
            BY DEF LoginTypeInv
        <3>2. PICK n \in Nat : user' = [active |-> user.active, failed |-> n, locked |-> FALSE]
            BY <1>5, <3>1 DEF LoginTypeInv, Unlocked
        <3> QED BY <3>1, <3>2
    <2> QED BY <1>0, <1>5, <2>1 DEF LoginTypeInv, GuessInv
<1>6. ASSUME NEW l \in Logins, RecordLoginSuccess(l)
      PROVE  LoginTypeInv' /\ GuessInv'
    BY <1>3, <1>5, <1>6 DEF RecordLoginSuccess
<1>7. ASSUME NEW l \in Logins, UnrecordedSuccess(l) \/ UnrecordedFailure(l)
      PROVE  LoginTypeInv' /\ GuessInv'
    <2>1. /\ attempts[l].at = "password" /\ attempts' = [attempts EXCEPT ![l] = NoAttempt]
          /\ UNCHANGED <<user, guesses>>
        BY <1>7 DEF UnrecordedSuccess, UnrecordedFailure
    <2>2. /\ attempts' \in [Logins -> [at : {"idle", "password"}, failed : Nat]]
          /\ Cardinality(Guessing') = Cardinality(Guessing) - 1
          /\ Cardinality(Guessing) \in Nat /\ Cardinality(Logins) \in Nat
        BY <1>3, <2>1
    <2> QED BY <1>0, <2>1, <2>2 DEF LoginTypeInv, GuessInv
<1>8. CASE LockExpires \/ SetUserPassword
    BY <1>5, <1>8 DEF LockExpires, SetUserPassword, LoginTypeInv
<1>9. CASE UpdateUser
    <2>1. /\ user' \in [active : BOOLEAN, failed : Nat, locked : BOOLEAN]
          /\ user'.failed = user.failed /\ user'.locked = user.locked
          /\ UNCHANGED <<attempts, guesses>>
        BY <1>9 DEF UpdateUser, LoginTypeInv
    <2> QED BY <2>1 DEF LoginTypeInv, GuessInv, Guessing
<1>10. ASSUME NEW c \in Calls,
              ParseSession(c) \/ GetUserByID(c) \/ UserPermissionCodes(c) \/ ReadFails(c) \/ EndCall(c)
       PROVE  LoginTypeInv' /\ GuessInv'
    BY <1>1, <1>10 DEF ParseSession, GetUserByID, UserPermissionCodes, ReadFails, EndCall, Step
<1>11. CASE (\E named \in SUBSET Roles : SetUserRoles(named))
               \/ (\E r \in Roles, has \in BOOLEAN : SetRolePermissions(r, has))
               \/ CreateRole \/ DeleteRole \/ SeedCore
    BY <1>1, <1>11 DEF SetUserRoles, SetRolePermissions, CreateRole, DeleteRole, SeedCore, ChangeRBAC
<1>12. CASE SessionExpires \/ UNCHANGED identityVars
    BY <1>1, <1>12 DEF SessionExpires, identityVars
<1> QED
    BY <1>2, <1>4, <1>6, <1>7, <1>8, <1>9, <1>10, <1>11, <1>12 DEF IdentityNext

(* Between two openings of the account no more wrong passwords are         *)
(* recorded than the threshold and the logins that had passed the check of *)
(* the lock allow, for every threshold and every finite set of logins.     *)
THEOREM GuessesTheorem == Spec => []GuessesBounded
<1>1. Init => LoginTypeInv /\ GuessInv
    <2> SUFFICES ASSUME IdentityInit PROVE LoginTypeInv /\ GuessInv
        BY DEF Init
    <2> QED BY IdentityAssumption DEF IdentityInit, NoAttempt, LoginTypeInv, GuessInv
<1>2. LoginTypeInv /\ GuessInv /\ [Next]_vars => LoginTypeInv' /\ GuessInv'
    BY GuessStep, Parts
<1>3. LoginTypeInv /\ GuessInv => GuessesBounded
    BY GuessingCounts, IdentityAssumption DEF LoginTypeInv, GuessInv, GuessesBounded
<1> QED BY <1>1, <1>2, <1>3, PTL DEF Spec

(* What speaks for a request that is being checked has been noted, and     *)
(* every check that it has passed found its ground.                        *)
CallStates == [at : {"idle", "user", "permissions", "acting"}, held : SUBSET {"active", "permitted"}]

Sound(call) ==
    /\ call.at = "permissions" => "active" \in call.held
    /\ call.at = "acting" => call.held = {"active", "permitted"}
CallsInv ==
    /\ calls \in [Calls -> CallStates]
    /\ \A c \in Calls :
          /\ Sound(calls[c])
          /\ calls[c].at \in {"user", "permissions"} =>
                /\ user.active => "active" \in calls[c].held
                /\ Permitted => "permitted" \in calls[c].held

LEMMA NoteCallsKeep ==
    ASSUME NEW next \in [Calls -> CallStates], \A c \in Calls : Sound(next[c]),
           NoteCalls(next, user'.active, Permitted')
    PROVE  CallsInv'
<1> DEFINE Grounds1 == IF user'.active THEN {"active"} ELSE {}
           Grounds2 == IF Permitted' THEN {"permitted"} ELSE {}
<1>1. ASSUME NEW c \in Calls
      PROVE  /\ calls'[c] \in CallStates /\ Sound(calls'[c])
             /\ calls'[c].at \in {"user", "permissions"} =>
                   /\ user'.active => "active" \in calls'[c].held
                   /\ Permitted' => "permitted" \in calls'[c].held
    <2>0. next[c] \in CallStates /\ Sound(next[c])
        OBVIOUS
    <2>1. CASE next[c].at \in {"idle", "acting"}
        <3>1. calls'[c] = next[c]
            BY <2>1 DEF NoteCalls
        <3> QED BY <2>0, <2>1, <3>1
    <2>2. CASE next[c].at \notin {"idle", "acting"}
        <3>1. calls'[c] = [next[c] EXCEPT !.held = @ \cup Grounds1 \cup Grounds2]
            BY <2>2 DEF NoteCalls
        <3>2. /\ Grounds1 \subseteq {"active", "permitted"} /\ (user'.active => "active" \in Grounds1)
              /\ Grounds2 \subseteq {"active", "permitted"} /\ (Permitted' => "permitted" \in Grounds2)
            OBVIOUS
        <3> HIDE DEF Grounds1, Grounds2
        <3>3. calls'[c] = [at |-> next[c].at, held |-> next[c].held \cup Grounds1 \cup Grounds2]
            BY <2>0, <3>1 DEF CallStates
        <3>4. /\ next[c].at \in {"user", "permissions"} /\ next[c].held \subseteq {"active", "permitted"}
              /\ next[c].at = "permissions" => "active" \in next[c].held
            BY <2>0, <2>2 DEF CallStates, Sound
        <3>5. calls'[c].at = next[c].at /\ calls'[c].held = next[c].held \cup Grounds1 \cup Grounds2
            BY <3>3
        <3>6. calls'[c] \in CallStates
            <4>1. next[c].held \cup Grounds1 \cup Grounds2 \in SUBSET {"active", "permitted"}
                BY <3>2, <3>4
            <4> QED BY <3>3, <3>4, <4>1 DEF CallStates
        <3>7. Sound(calls'[c])
            BY <3>4, <3>5 DEF Sound
        <3> QED BY <3>2, <3>5, <3>6, <3>7
    <2> QED BY <2>1, <2>2
<1>2. calls' = [c \in Calls |-> calls'[c]]
    BY DEF NoteCalls
<1>3. calls' \in [Calls -> CallStates]
    BY <1>1, <1>2
<1> QED BY <1>1, <1>3 DEF CallsInv

LEMMA CallsStep == CallsInv /\ LoginTypeInv /\ (IdentityNext \/ UNCHANGED identityVars) => CallsInv'
<1> SUFFICES ASSUME CallsInv, LoginTypeInv, IdentityNext \/ UNCHANGED identityVars PROVE CallsInv'
    OBVIOUS
<1>0. \A c \in Calls : calls[c] \in CallStates /\ Sound(calls[c])
    BY DEF CallsInv
<1>1. ASSUME UNCHANGED <<rbacVars, calls>>, user'.active = user.active
      PROVE  CallsInv'
    BY <1>1 DEF CallsInv, rbacVars, Permitted
<1>2. ASSUME NEW c \in Calls, NEW new \in CallStates, Sound(new), Step(c, new)
      PROVE  CallsInv'
    <2> DEFINE next == [calls EXCEPT ![c] = new]
    <2>1. next \in [Calls -> CallStates] /\ \A d \in Calls : Sound(next[d])
        BY <1>2 DEF CallsInv
    <2>2. NoteCalls(next, user'.active, Permitted')
        BY <1>2 DEF Step, rbacVars, Permitted
    <2> QED BY <2>1, <2>2, NoteCallsKeep
<1>3. NoCall \in CallStates /\ Sound(NoCall)
    BY DEF NoCall, CallStates, Sound
<1>4. ASSUME NEW c \in Calls, ParseSession(c)
      PROVE  CallsInv'
    <2>1. [NoCall EXCEPT !.at = "user"] \in CallStates /\ Sound([NoCall EXCEPT !.at = "user"])
        BY DEF NoCall, CallStates, Sound
    <2> QED BY <1>2, <1>4, <2>1 DEF ParseSession
<1>5. ASSUME NEW c \in Calls, GetUserByID(c)
      PROVE  CallsInv'
    <2> DEFINE new == [calls[c] EXCEPT !.at = "permissions"]
    <2>1. ASSUME user.active PROVE new \in CallStates /\ Sound(new)
        <3>1. calls[c] \in CallStates /\ "active" \in calls[c].held
            BY <1>5, <2>1 DEF CallsInv, GetUserByID
        <3> QED BY <3>1 DEF CallStates, Sound
    <2> HIDE DEF new
    <2>2. (Step(c, new) /\ user.active) \/ Step(c, NoCall)
        BY <1>5 DEF GetUserByID, ActiveUser, new
    <2> QED BY <1>2, <1>3, <2>1, <2>2
<1>6. ASSUME NEW c \in Calls, UserPermissionCodes(c)
      PROVE  CallsInv'
    <2> DEFINE new == [calls[c] EXCEPT !.at = "acting"]
    <2>1. ASSUME Permitted PROVE new \in CallStates /\ Sound(new)
        <3>1. calls[c] \in CallStates /\ "active" \in calls[c].held /\ "permitted" \in calls[c].held
            BY <1>6, <2>1 DEF CallsInv, UserPermissionCodes, Sound
        <3> QED BY <3>1 DEF CallStates, Sound
    <2> HIDE DEF new
    <2>2. (Step(c, new) /\ Permitted) \/ Step(c, NoCall)
        BY <1>6 DEF UserPermissionCodes, new
    <2> QED BY <1>2, <1>3, <2>1, <2>2
<1>7. ASSUME NEW c \in Calls, ReadFails(c) \/ EndCall(c)
      PROVE  CallsInv'
    BY <1>2, <1>3, <1>7 DEF ReadFails, EndCall
<1>8. CASE UpdateUser
    <2>1. NoteCalls(calls, user'.active, Permitted')
        BY <1>8 DEF UpdateUser, rbacVars, Permitted
    <2>2. calls \in [Calls -> CallStates]
        BY DEF CallsInv
    <2> QED BY <1>0, <2>1, <2>2, NoteCallsKeep
<1>9. ASSUME NEW assigned, NEW permitting, NEW rows, ChangeRBAC(assigned, permitting, rows)
      PROVE  CallsInv'
    <2>1. NoteCalls(calls, user'.active, Permitted')
        BY <1>9 DEF ChangeRBAC, Permitted
    <2>2. calls \in [Calls -> CallStates]
        BY DEF CallsInv
    <2> QED BY <1>0, <2>1, <2>2, NoteCallsKeep
<1>10. CASE (\E named \in SUBSET Roles : SetUserRoles(named))
               \/ (\E r \in Roles, has \in BOOLEAN : SetRolePermissions(r, has))
               \/ CreateRole \/ DeleteRole \/ SeedCore
    BY <1>9, <1>10 DEF SetUserRoles, SetRolePermissions, CreateRole, DeleteRole, SeedCore
<1>11. ASSUME NEW l \in Logins,
              \/ GetUserByLogin(l) \/ RecordLoginFailure(l) \/ RecordLoginSuccess(l)
              \/ UnrecordedSuccess(l) \/ UnrecordedFailure(l)
       PROVE  CallsInv'
    <2>1. UNCHANGED <<rbacVars, calls>>
        BY <1>11 DEF GetUserByLogin, RecordLoginFailure, RecordLoginSuccess, UnrecordedSuccess,
                     UnrecordedFailure
    <2>2. user'.active = user.active
        BY <1>11 DEF GetUserByLogin, RecordLoginFailure, RecordLoginSuccess, UnrecordedSuccess,
                     UnrecordedFailure, Unlocked, LoginTypeInv
    <2> QED BY <1>1, <2>1, <2>2
<1>12. CASE LockExpires \/ SessionExpires \/ SetUserPassword \/ UNCHANGED identityVars
    <2>1. UNCHANGED <<rbacVars, calls>>
        BY <1>12 DEF LockExpires, SessionExpires, SetUserPassword, identityVars, rbacVars
    <2>2. user'.active = user.active
        BY <1>12 DEF LockExpires, SessionExpires, SetUserPassword, identityVars, Unlocked, LoginTypeInv
    <2> QED BY <1>1, <2>1, <2>2
<1> QED
    BY <1>4, <1>5, <1>6, <1>7, <1>8, <1>10, <1>11, <1>12 DEF IdentityNext

(* A request of a session reaches its handler only if its user was active  *)
(* at some moment since it came in and held the permission at some moment, *)
(* whatever edits of users, roles and permissions fall between the checks. *)
THEOREM RevocationTheorem == Spec => []RevocationStops
<1>1. Init => LoginTypeInv /\ GuessInv /\ CallsInv
    <2> SUFFICES ASSUME IdentityInit PROVE LoginTypeInv /\ GuessInv /\ CallsInv
        BY DEF Init
    <2>1. LoginTypeInv /\ GuessInv
        BY IdentityAssumption DEF IdentityInit, NoAttempt, LoginTypeInv, GuessInv
    <2>2. CallsInv
        BY DEF IdentityInit, CallsInv, CallStates, NoCall, Sound
    <2> QED BY <2>1, <2>2
<1>2. LoginTypeInv /\ GuessInv /\ CallsInv /\ [Next]_vars => LoginTypeInv' /\ GuessInv' /\ CallsInv'
    BY GuessStep, CallsStep, Parts
<1>3. CallsInv => RevocationStops
    BY DEF CallsInv, Sound, RevocationStops
<1> QED BY <1>1, <1>2, <1>3, PTL DEF Spec

-----------------------------------------------------------------------------
(* The request log.  The goroutine leaves its loop only after the          *)
(* cancellation and finds the channel empty once: what is put into it      *)
(* afterwards is late.                                                     *)

LogTypeInv ==
    /\ record \in [Handlers -> {"none", "handling", "buffered", "dropped", "batched", "stored", "failed"}]
    /\ flusher \in {"select", "flush", "drain", "flush in drain", "last flush", "done"}
    /\ phase \in {"serving", "cancelled", "closed", "stopping", "exited"}
LogInv ==
    /\ LogTypeInv
    /\ phase = "serving" => flusher \in {"select", "flush"}
    /\ phase \in {"closed", "stopping", "exited"} => flusher = "done"
    /\ flusher \in {"last flush", "done"} => In("buffered") \subseteq late
    /\ flusher = "done" => In("batched") = {}

LEMMA LogStep == LogInv /\ (LogNext \/ UNCHANGED logVars) => LogInv'
<1> SUFFICES ASSUME LogInv, LogNext \/ UNCHANGED logVars PROVE LogInv'
    OBVIOUS
<1> USE DEF LogInv, LogTypeInv
<1>1. CASE UNCHANGED logVars
    BY <1>1 DEF logVars, In
<1>2. ASSUME NEW h \in Handlers, BeginRequest(h)
      PROVE  LogInv'
    BY <1>2 DEF BeginRequest, In
<1>3. ASSUME NEW h \in Handlers, writeRequestLog(h)
      PROVE  LogInv'
    <2>1. enqueue \in {"buffered", "dropped"}
        BY DEF enqueue
    <2>2. /\ record' = [record EXCEPT ![h] = enqueue]
          /\ late' = IF phase = "serving" THEN late ELSE late \cup {h}
          /\ UNCHANGED <<flusher, phase>>
        BY <1>3 DEF writeRequestLog
    <2>3. LogTypeInv'
        BY <2>1, <2>2
    <2>4. In("batched")' \subseteq In("batched") /\ In("buffered")' \subseteq In("buffered") \cup {h}
        BY <2>1, <2>2 DEF In
    <2> QED BY <2>2, <2>3, <2>4
<1>4. ASSUME NEW h \in Handlers, add(h)
      PROVE  LogInv'
    <2>1. /\ flusher \in {"select", "drain"}
          /\ flusher' = flusher \/ flusher' = (IF flusher = "drain" THEN "flush in drain" ELSE "flush")
          /\ record' = [record EXCEPT ![h] = "batched"]
          /\ UNCHANGED <<late, phase>>
        BY <1>4 DEF add, Looping
    <2> QED BY <2>1
<1>5. CASE TickerFlush
    BY <1>5 DEF TickerFlush, In
<1>6. ASSUME NEW worked \in BOOLEAN, flush(worked)
      PROVE  LogInv'
    <2>1. InsertRequestLogBatch(worked) \in {"stored", "failed"}
        BY DEF InsertRequestLogBatch
    <2>2. /\ flusher \in {"flush", "flush in drain", "last flush"}
          /\ record' = [h \in Handlers |-> IF record[h] = "batched" THEN InsertRequestLogBatch(worked)
                                           ELSE record[h]]
          /\ flusher = "flush" => flusher' = "select"
          /\ flusher = "flush in drain" => flusher' = "drain"
          /\ flusher = "last flush" => flusher' = "done"
          /\ UNCHANGED <<late, phase>>
        BY <1>6 DEF flush
    <2>3. In("batched")' = {} /\ In("buffered")' \subseteq In("buffered")
        BY <2>1, <2>2 DEF In
    <2>4. LogTypeInv'
        BY <2>1, <2>2
    <2> QED BY <2>2, <2>3, <2>4
<1>7. CASE SeeDone \/ DrainEnds
    BY <1>7 DEF SeeDone, OnDone, DrainEnds, In
<1>8. CASE cancelRefresh \/ ClosePool \/ Shutdown \/ ShutdownReturns
    BY <1>8 DEF cancelRefresh, ClosePool, Shutdown, ShutdownReturns, Becoming, In
<1> QED
    BY <1>1, <1>2, <1>3, <1>4, <1>5, <1>6, <1>7, <1>8 DEF LogNext

(* When the pool is closed no record of a request that ended before the    *)
(* shutdown began is left in the channel or in a batch, for every number   *)
(* of handlers, every buffer and every batch size.                         *)
THEOREM SettledTheorem == Spec => []EarlyRecordsSettled
<1>1. Init => LogInv
    BY DEF Init, LogInit, LogInv, LogTypeInv, In
<1>2. LogInv /\ [Next]_vars => LogInv'
    BY LogStep, Parts
<1>3. LogInv => EarlyRecordsSettled
    BY DEF LogInv, EarlyRecordsSettled
<1> QED BY <1>1, <1>2, <1>3, PTL DEF Spec

-----------------------------------------------------------------------------
(* Backups.  A runner that has come to cleanup or to its report keeps a    *)
(* complete artifact that is not old, and no step takes the last complete  *)
(* artifact with a manifest while a run has been recorded as succeeded: an *)
(* artifact goes in the cleanup of a runner whose own stays.               *)

BackupTypeInv ==
    /\ day \in Nat
    /\ pc \in [Runners -> 0 .. 5]
    /\ artifact \in [Runners -> [content : {"none", "partial", "complete"}, day : Nat]]
    /\ manifest \subseteq Runners
    /\ row \in [Runners -> {"none", "running", "succeeded", "failed"}]
ArtifactInv ==
    \A i \in Runners :
        /\ pc[i] # 0 /\ artifact[i].content # "none" => ~Old(i)
        /\ pc[i] \in {3, 4, 5} => artifact[i].content = "complete"
        /\ pc[i] \in {4, 5} => i \in manifest
BackupInv == BackupTypeInv /\ ArtifactInv /\ BackupSurvives

(* Where a runner is, by number.                                           *)
LEMMA RunnerAt ==
    ASSUME BackupTypeInv, NEW i \in Runners
    PROVE  /\ Running(i) <=> pc[i] # 0
           /\ At(i, "dump") <=> pc[i] = 1
           /\ At(i, "encrypt") <=> pc[i] = 2
           /\ At(i, "manifest") <=> pc[i] = 3
           /\ At(i, "cleanup") <=> pc[i] = 4
           /\ At(i, "report") <=> pc[i] = 5
           /\ Advance(i) /\ pc[i] # 5 => pc' = [pc EXCEPT ![i] = pc[i] + 1]
           /\ Advance(i) /\ pc[i] = 5 => pc' = [pc EXCEPT ![i] = 0]
<1>1. pc[i] \in 0 .. 5
    BY DEF BackupTypeInv
<1>2. Len(RunnerSteps) = 5
    BY DEF RunnerSteps
<1>3. \A n \in 0 .. 4 : (n + 1) % 6 = n + 1
    OBVIOUS
<1>4. (5 + 1) % 6 = 0
    OBVIOUS
<1> QED BY <1>1, <1>2, <1>3, <1>4 DEF Running, At, RunnerSteps, Advance

(* A step that changes no artifact, takes no manifest away and records no  *)
(* success.                                                                *)
LEMMA BackupsKept ==
    ASSUME BackupSurvives, artifact' = artifact, manifest \subseteq manifest',
           \A i \in Runners : row'[i] = "succeeded" => row[i] = "succeeded"
    PROVE  BackupSurvives'
BY DEF BackupSurvives

LEMMA BackupsStep == BackupInv /\ (BackupsNext \/ UNCHANGED backupVars) => BackupInv'
<1> SUFFICES ASSUME BackupInv, BackupsNext \/ UNCHANGED backupVars PROVE BackupInv'
    OBVIOUS
<1> USE DEF BackupInv
<1>0. Retention \in Nat \ {0}
    BY BackupsAssumption
<1>1. CASE UNCHANGED backupVars
    BY <1>1 DEF backupVars, BackupTypeInv, ArtifactInv, BackupSurvives, Old
<1>2. ASSUME NEW i \in Runners, NEW byAdmin \in BOOLEAN, StartRunner(i, byAdmin)
      PROVE  BackupInv'
    <2>1. BackupTypeInv'
        BY <1>2 DEF StartRunner, BackupTypeInv
    <2>2. ArtifactInv'
        BY <1>2 DEF StartRunner, BackupTypeInv, ArtifactInv, NoArtifact, Old
    <2>3. BackupSurvives'
        BY <1>2, BackupsKept DEF StartRunner, BackupTypeInv
    <2> QED BY <2>1, <2>2, <2>3
<1>3. ASSUME NEW i \in Runners, Dump(i)
      PROVE  BackupInv'
    <2>1. pc[i] = 1 /\ pc' = [pc EXCEPT ![i] = 2] /\ UNCHANGED <<day, artifact, manifest, row>>
        BY <1>3, RunnerAt DEF Dump
    <2>2. BackupTypeInv' /\ ArtifactInv'
        BY <2>1 DEF BackupTypeInv, ArtifactInv, Old
    <2> QED BY <2>1, <2>2, BackupsKept
<1>4. ASSUME NEW i \in Runners, OpenArtifact(i)
      PROVE  BackupInv'
    <2>1. /\ pc[i] = 2 /\ artifact[i].content = "none"
          /\ artifact' = [artifact EXCEPT ![i] = [content |-> "partial", day |-> day]]
          /\ UNCHANGED <<day, pc, manifest, row>>
        BY <1>4, RunnerAt DEF OpenArtifact
    <2>2. BackupTypeInv'
        BY <2>1 DEF BackupTypeInv
    <2>3. ArtifactInv'
        BY <1>0, <2>1 DEF BackupTypeInv, ArtifactInv, Old
    <2>4. BackupSurvives'
        BY <2>1 DEF BackupTypeInv, BackupSurvives
    <2> QED BY <2>2, <2>3, <2>4
<1>5. ASSUME NEW i \in Runners, encryptFile(i)
      PROVE  BackupInv'
    <2>1. /\ pc[i] = 2 /\ pc' = [pc EXCEPT ![i] = 3]
          /\ artifact' = [artifact EXCEPT ![i] = [content |-> "complete", day |-> day]]
          /\ UNCHANGED <<day, manifest, row>>
        BY <1>5, RunnerAt DEF encryptFile
    <2>2. BackupTypeInv'
        BY <2>1 DEF BackupTypeInv
    <2>3. ArtifactInv'
        BY <1>0, <2>1 DEF BackupTypeInv, ArtifactInv, Old
    <2>4. BackupSurvives'
        BY <2>1 DEF BackupTypeInv, BackupSurvives
    <2> QED BY <2>2, <2>3, <2>4
<1>6. ASSUME NEW i \in Runners, WriteManifest(i)
      PROVE  BackupInv'
    <2>1. /\ pc[i] = 3 /\ pc' = [pc EXCEPT ![i] = 4]
          /\ manifest' = manifest \cup {i}
          /\ UNCHANGED <<day, artifact, row>>
        BY <1>6, RunnerAt DEF WriteManifest
    <2>2. BackupTypeInv' /\ ArtifactInv'
        BY <2>1 DEF BackupTypeInv, ArtifactInv, Old
    <2> QED BY <2>1, <2>2, BackupsKept
<1>7. ASSUME NEW i \in Runners, cleanup(i)
      PROVE  BackupInv'
    <2>1. /\ pc[i] = 4 /\ pc' = [pc EXCEPT ![i] = 5]
          /\ artifact' = [j \in Runners |-> IF Old(j) THEN NoArtifact ELSE artifact[j]]
          /\ manifest' = {j \in manifest : ~Old(j)}
          /\ UNCHANGED <<day, row>>
        BY <1>7, RunnerAt DEF cleanup
    <2>2. BackupTypeInv'
        BY <2>1 DEF BackupTypeInv, NoArtifact
    <2>3. \A j \in Runners : pc[j] # 0 /\ artifact[j].content # "none" =>
             artifact'[j] = artifact[j] /\ (j \in manifest => j \in manifest')
        BY <2>1 DEF ArtifactInv
    <2>4. \A j \in Runners : artifact[j].content = "none" => artifact'[j].content = "none"
        BY <2>1 DEF NoArtifact
    <2>5. ArtifactInv'
        BY <2>1, <2>3, <2>4 DEF BackupTypeInv, ArtifactInv, Old
    <2>6. i \in manifest' /\ artifact'[i].content = "complete"
        BY <2>1, <2>3 DEF ArtifactInv
    <2> QED BY <2>2, <2>5, <2>6 DEF BackupSurvives
<1>8. ASSUME NEW i \in Runners, Report(i)
      PROVE  BackupInv'
    <2>1. /\ pc[i] = 5 /\ pc' = [pc EXCEPT ![i] = 0]
          /\ row' = row \/ row' = [row EXCEPT ![i] = "succeeded"]
          /\ UNCHANGED <<day, artifact, manifest>>
        BY <1>8, RunnerAt DEF Report
    <2>2. BackupTypeInv' /\ ArtifactInv'
        BY <2>1 DEF BackupTypeInv, ArtifactInv, Old
    <2>3. i \in manifest' /\ artifact'[i].content = "complete"
        BY <2>1 DEF ArtifactInv
    <2> QED BY <2>2, <2>3 DEF BackupSurvives
<1>9. ASSUME NEW i \in Runners, Fail(i)
      PROVE  BackupInv'
    <2>1. /\ pc' = [pc EXCEPT ![i] = 0]
          /\ row' = row \/ row' = [row EXCEPT ![i] = "failed"]
          /\ UNCHANGED <<day, artifact, manifest>>
        BY <1>9 DEF Fail
    <2>2. BackupTypeInv' /\ ArtifactInv'
        BY <2>1 DEF BackupTypeInv, ArtifactInv, Old
    <2>3. \A j \in Runners : row'[j] = "succeeded" => row[j] = "succeeded"
        BY <2>1 DEF BackupTypeInv
    <2> QED BY <2>1, <2>2, <2>3, BackupsKept
<1>10. CASE AdminRestarts \/ EndDrill \/ \E i \in Runners : StartDrill(i)
    <2>1. UNCHANGED <<day, pc, artifact, manifest, row>>
        BY <1>10 DEF AdminRestarts, EndDrill, StartDrill
    <2> QED BY <2>1 DEF BackupTypeInv, ArtifactInv, BackupSurvives, Old
<1>11. CASE NextDay
    <2>1. /\ day' = day + 1 /\ UNCHANGED <<pc, artifact, manifest, row>>
          /\ \A i \in Runners : pc[i] # 0 /\ artifact[i].content # "none" => artifact[i].day + Retention > day
        BY <1>11, RunnerAt DEF NextDay
    <2>2. BackupTypeInv'
        BY <2>1 DEF BackupTypeInv
    <2>3. ArtifactInv'
        BY <1>0, <2>1 DEF BackupTypeInv, ArtifactInv, Old
    <2> QED BY <2>1, <2>2, <2>3, BackupsKept
<1> QED
    BY <1>1, <1>2, <1>3, <1>4, <1>5, <1>6, <1>7, <1>8, <1>9, <1>10, <1>11 DEF BackupsNext

(* Once a run has been recorded as succeeded there is a complete artifact  *)
(* with its manifest, for every number of runners and every retention of a *)
(* day or more, whatever fails and however long no run succeeds, provided  *)
(* a runner is done before its own artifact is old.                        *)
THEOREM SurvivalTheorem == Spec => []BackupSurvives
<1>1. Init => BackupInv
    BY DEF Init, BackupsInit, BackupInv, BackupTypeInv, ArtifactInv, BackupSurvives, NoArtifact
<1>2. BackupInv /\ [Next]_vars => BackupInv'
    BY BackupsStep, Parts
<1>3. BackupInv => BackupSurvives
    BY DEF BackupInv
<1> QED BY <1>1, <1>2, <1>3, PTL DEF Spec

-----------------------------------------------------------------------------
(* Access.  Whatever the deciding view says for a request is noted as soon *)
(* as it says it, so that a check that passes finds its ground noted; the  *)
(* limit a request is held to is one that the most specific rules allow.   *)

Views == [client : {"none", "active", "inactive", "deleted"}, granted : BOOLEAN,
          rules : SUBSET UNION RuleTables, entries : SUBSET Entries, nil : BOOLEAN]
ViewsInv ==
    /\ policy \in Views /\ snapshot \in Views
    /\ load \in [next : Nat, got : Views]

AllGrounds == {"active", "granted", "covered"}
Limits == [1 .. Windows -> Nat]
AskStates ==
    [at : {"idle", "client", "grant", "address", "rules", "limit", "admitted"},
     by : {"", "gateway", "engine"}, held : SUBSET AllGrounds, limit : Limits, allowed : Limits]

SoundAsk(ask) ==
    /\ ask.at \in {"grant", "address"} => "active" \in ask.held
    /\ ask.at = "address" => "granted" \in ask.held
    /\ ask.at \in {"rules", "limit", "admitted"} => ask.held = AllGrounds
    /\ ask.at = "limit" => \A w \in 1 .. Windows : ask.limit[w] <= ask.allowed[w]

AsksInv ==
    /\ asks \in [Askers -> AskStates]
    /\ \A r \in Askers :
          /\ SoundAsk(asks[r])
          /\ asks[r].at \notin {"idle", "admitted"} => Grounds(View(r), policy) \subseteq asks[r].held

CountInv ==
    /\ count \in Limits /\ admitted \in Limits /\ ceiling \in Limits
    /\ \A w \in 1 .. Windows : admitted[w] <= count[w] /\ admitted[w] <= ceiling[w]

(* What a request is, field by field.                                      *)
LEMMA AskFields ==
    ASSUME NEW a \in AskStates
    PROVE  /\ a.at \in {"idle", "client", "grant", "address", "rules", "limit", "admitted"}
           /\ a.by \in {"", "gateway", "engine"} /\ a.held \in SUBSET AllGrounds
           /\ a.limit \in Limits /\ a.allowed \in Limits
           /\ DOMAIN a = {"at", "by", "held", "limit", "allowed"}
           /\ a = [at |-> a.at, by |-> a.by, held |-> a.held, limit |-> a.limit, allowed |-> a.allowed]
BY DEF AskStates

(* What changing some of the fields of a request makes of it.              *)
LEMMA AskHeld ==
    ASSUME NEW a \in AskStates, NEW held
    PROVE  [a EXCEPT !.held = held]
              = [at |-> a.at, by |-> a.by, held |-> held, limit |-> a.limit, allowed |-> a.allowed]
<1>1. /\ DOMAIN a = {"at", "by", "held", "limit", "allowed"}
      /\ a = [at |-> a.at, by |-> a.by, held |-> a.held, limit |-> a.limit, allowed |-> a.allowed]
    BY AskFields
<1> QED BY <1>1

LEMMA AskAt ==
    ASSUME NEW a \in AskStates, NEW at
    PROVE  [a EXCEPT !.at = at]
              = [at |-> at, by |-> a.by, held |-> a.held, limit |-> a.limit, allowed |-> a.allowed]
<1>1. /\ DOMAIN a = {"at", "by", "held", "limit", "allowed"}
      /\ a = [at |-> a.at, by |-> a.by, held |-> a.held, limit |-> a.limit, allowed |-> a.allowed]
    BY AskFields
<1> QED BY <1>1

LEMMA AskAtBy ==
    ASSUME NEW a \in AskStates, NEW at, NEW by
    PROVE  [a EXCEPT !.at = at, !.by = by]
              = [at |-> at, by |-> by, held |-> a.held, limit |-> a.limit, allowed |-> a.allowed]
<1> DEFINE b == [a EXCEPT !.at = at]
<1>1. b = [at |-> at, by |-> a.by, held |-> a.held, limit |-> a.limit, allowed |-> a.allowed]
    BY AskAt, Zenon
<1>2. [a EXCEPT !.at = at, !.by = by] = [b EXCEPT !.by = by]
    OBVIOUS
<1> HIDE DEF b
<1> QED BY <1>1, <1>2

LEMMA AskAtLimit ==
    ASSUME NEW a \in AskStates, NEW at, NEW limit, NEW allowed
    PROVE  [a EXCEPT !.at = at, !.limit = limit, !.allowed = allowed]
              = [at |-> at, by |-> a.by, held |-> a.held, limit |-> limit, allowed |-> allowed]
<1> DEFINE b == [a EXCEPT !.at = at]
           c == [b EXCEPT !.limit = limit]
<1>1. b = [at |-> at, by |-> a.by, held |-> a.held, limit |-> a.limit, allowed |-> a.allowed]
    BY AskAt, Zenon
<1>2. [a EXCEPT !.at = at, !.limit = limit, !.allowed = allowed] = [c EXCEPT !.allowed = allowed]
    OBVIOUS
<1> HIDE DEF b
<1>3. c = [at |-> at, by |-> a.by, held |-> a.held, limit |-> limit, allowed |-> a.allowed]
    BY <1>1
<1> HIDE DEF c
<1> QED BY <1>2, <1>3

LEMMA NoteKeeps ==
    ASSUME NEW next \in [Askers -> AskStates], \A r \in Askers : SoundAsk(next[r]), Note(next)
    PROVE  AsksInv'
<1>1. ASSUME NEW r \in Askers
      PROVE  /\ asks'[r] \in AskStates /\ SoundAsk(asks'[r])
             /\ asks'[r].at \notin {"idle", "admitted"} =>
                   Grounds(View(r)', policy') \subseteq asks'[r].held
    <2> DEFINE new == next[r]
               more == Grounds(Chosen(new.by, snapshot', policy'), policy')
    <2>0. new \in AskStates /\ SoundAsk(new)
        OBVIOUS
    <2>1. CASE new.at \in {"idle", "admitted"}
        <3>1. asks'[r] = new
            BY <2>1 DEF Note
        <3> QED BY <2>0, <2>1, <3>1
    <2>2. CASE new.at \notin {"idle", "admitted"}
        <3>1. asks'[r] = [new EXCEPT !.held = @ \cup more]
            BY <2>2 DEF Note
        <3>2. more \in SUBSET AllGrounds
            BY DEF Grounds, AllGrounds
        <3>3. View(r)' = Chosen(asks'[r].by, snapshot', policy')
            BY DEF View
        <3> HIDE DEF more, new
        <3>4. /\ new.at \in {"idle", "client", "grant", "address", "rules", "limit", "admitted"}
              /\ new.by \in {"", "gateway", "engine"}
              /\ new.limit \in Limits /\ new.allowed \in Limits
              /\ new.held \cup more \in SUBSET AllGrounds
            BY <2>0, <3>2, AskFields
        <3>5. asks'[r] = [at |-> new.at, by |-> new.by, held |-> new.held \cup more,
                          limit |-> new.limit, allowed |-> new.allowed]
            BY <2>0, <3>1, AskHeld, Zenon
        <3>6. /\ asks'[r].at = new.at /\ asks'[r].by = new.by
              /\ asks'[r].held = new.held \cup more
              /\ asks'[r].limit = new.limit /\ asks'[r].allowed = new.allowed
            BY <3>5
        <3>7. asks'[r] \in AskStates
            <4>1. [at |-> new.at, by |-> new.by, held |-> new.held \cup more,
                   limit |-> new.limit, allowed |-> new.allowed] \in AskStates
                BY <3>4 DEF AskStates
            <4> QED BY <3>5, <4>1
        <3>8. SoundAsk(asks'[r])
            BY <2>0, <3>4, <3>6 DEF SoundAsk
        <3>9. Grounds(View(r)', policy') = more
            BY <3>3, <3>6 DEF more
        <3> QED BY <3>6, <3>7, <3>8, <3>9
    <2> QED BY <2>1, <2>2
<1>2. asks' = [r \in Askers |-> asks'[r]]
    BY DEF Note
<1>3. asks' \in [Askers -> AskStates]
    BY <1>1, <1>2
<1> QED BY <1>1, <1>3 DEF AsksInv

LEMMA ProceedKeeps ==
    ASSUME AsksInv, NEW r \in Askers, NEW new \in AskStates, SoundAsk(new), Proceed(r, new)
    PROVE  AsksInv'
<1> DEFINE next == [asks EXCEPT ![r] = new]
<1>1. next \in [Askers -> AskStates] /\ \A q \in Askers : SoundAsk(next[q])
    BY DEF AsksInv
<1>2. Note(next)
    BY DEF Proceed
<1> QED BY <1>1, <1>2, NoteKeeps

(* A request that ends or that is admitted.                                *)
LEMMA AskEnds ==
    ASSUME AsksInv, NEW r \in Askers
    PROVE  /\ NotAsking \in AskStates /\ SoundAsk(NotAsking)
           /\ asks[r].at \in {"rules", "limit"} =>
                 Admitted(r) \in AskStates /\ SoundAsk(Admitted(r))
<1>0. Windows \in Nat
    BY AccessAssumption
<1>1. NoLimit \in Limits
    BY <1>0 DEF NoLimit, Limits
<1>2. NotAsking \in AskStates /\ SoundAsk(NotAsking)
    BY <1>1 DEF NotAsking, AskStates, SoundAsk
<1>3. ASSUME asks[r].at \in {"rules", "limit"}
      PROVE  Admitted(r) \in AskStates /\ SoundAsk(Admitted(r))
    <2>1. asks[r].held = AllGrounds
        BY <1>3 DEF AsksInv, SoundAsk
    <2> DEFINE new == [at |-> "admitted", by |-> "", held |-> AllGrounds, limit |-> NoLimit,
                       allowed |-> NoLimit]
    <2>2. Admitted(r) = new
        <3> DEFINE b == [NotAsking EXCEPT !.at = "admitted"]
        <3>1. b = [at |-> "admitted", by |-> NotAsking.by, held |-> NotAsking.held,
                   limit |-> NotAsking.limit, allowed |-> NotAsking.allowed]
            BY <1>2, AskAt, Zenon
        <3>2. Admitted(r) = [b EXCEPT !.held = AllGrounds]
            BY <2>1 DEF Admitted
        <3>3. /\ NotAsking.by = "" /\ NotAsking.limit = NoLimit /\ NotAsking.allowed = NoLimit
            BY DEF NotAsking
        <3> HIDE DEF b
        <3> QED BY <3>1, <3>2, <3>3
    <2>3. new \in AskStates
        BY <1>1 DEF AskStates
    <2>4. SoundAsk(new)
        BY DEF SoundAsk
    <2> QED BY <2>2, <2>3, <2>4
<1> QED BY <1>2, <1>3

(* A request that goes on to the next check.                               *)
LEMMA AskGoesOn ==
    ASSUME AsksInv, NEW r \in Askers, NEW at \in {"grant", "address", "rules"},
           at \in {"grant", "address"} => "active" \in asks[r].held,
           at = "address" => "granted" \in asks[r].held,
           at = "rules" => asks[r].held = AllGrounds
    PROVE  [asks[r] EXCEPT !.at = at] \in AskStates /\ SoundAsk([asks[r] EXCEPT !.at = at])
<1>1. asks[r] \in AskStates
    BY DEF AsksInv
<1> DEFINE a == asks[r]
           new == [a EXCEPT !.at = at]
<1>2. new = [at |-> at, by |-> a.by, held |-> a.held, limit |-> a.limit, allowed |-> a.allowed]
    BY <1>1, AskAt, Zenon
<1>3. /\ a.by \in {"", "gateway", "engine"} /\ a.held \in SUBSET AllGrounds
      /\ a.limit \in Limits /\ a.allowed \in Limits
    BY <1>1, AskFields
<1> HIDE DEF new
<1>4. new \in AskStates
    BY <1>2, <1>3 DEF AskStates
<1>5. SoundAsk(new)
    BY <1>2 DEF SoundAsk
<1> QED BY <1>4, <1>5 DEF new

LEMMA ChecksKeep ==
    ASSUME AsksInv, NEW r \in Askers, CheckClient(r) \/ CheckGrant(r) \/ CheckIP(r)
    PROVE  AsksInv'
<1>0. asks[r].at \notin {"idle", "admitted"} => Grounds(View(r), policy) \subseteq asks[r].held
    BY DEF AsksInv
<1>1. ASSUME NEW at, NEW passes, NEW to \in {"grant", "address", "rules"}, Check(r, at, passes, to),
             passes => /\ to \in {"grant", "address"} => "active" \in asks[r].held
                       /\ to = "address" => "granted" \in asks[r].held
                       /\ to = "rules" => asks[r].held = AllGrounds
      PROVE  AsksInv'
    <2>1. CASE passes
        <3>1. Proceed(r, [asks[r] EXCEPT !.at = to])
            BY <1>1, <2>1 DEF Check
        <3>2. [asks[r] EXCEPT !.at = to] \in AskStates /\ SoundAsk([asks[r] EXCEPT !.at = to])
            BY <1>1, <2>1, AskGoesOn
        <3> QED BY <3>1, <3>2, ProceedKeeps
    <2>2. CASE ~passes
        <3>1. Proceed(r, NotAsking)
            BY <1>1, <2>2 DEF Check
        <3> QED BY <3>1, AskEnds, ProceedKeeps
    <2> QED BY <2>1, <2>2
<1>2. CASE CheckClient(r)
    <2>1. ASSUME ClientStatus(View(r), policy) = "active" PROVE "active" \in asks[r].held
        <3>1. "active" \in Grounds(View(r), policy)
            BY <2>1 DEF Grounds
        <3> QED BY <1>0, <1>2, <3>1 DEF CheckClient, Check
    <2> QED BY <1>1, <1>2, <2>1 DEF CheckClient
<1>3. CASE CheckGrant(r)
    <2>1. "active" \in asks[r].held
        BY <1>3 DEF AsksInv, SoundAsk, CheckGrant, Check
    <2>2. ASSUME View(r).granted PROVE "granted" \in asks[r].held
        <3>1. "granted" \in Grounds(View(r), policy)
            BY <2>2 DEF Grounds
        <3> QED BY <1>0, <1>3, <3>1 DEF CheckGrant, Check
    <2> QED BY <1>1, <1>3, <2>1, <2>2 DEF CheckGrant
<1>4. CASE CheckIP(r)
    <2>1. "active" \in asks[r].held /\ "granted" \in asks[r].held /\ asks[r].held \subseteq AllGrounds
        BY <1>4 DEF AsksInv, SoundAsk, AskStates, CheckIP, Check
    <2>2. ASSUME IPAllowed(View(r).entries) PROVE asks[r].held = AllGrounds
        <3>1. "covered" \in Grounds(View(r), policy)
            BY <2>2 DEF IPAllowed, Grounds
        <3> QED BY <1>0, <1>4, <2>1, <3>1 DEF CheckIP, Check, AllGrounds
    <2> QED BY <1>1, <1>4, <2>1, <2>2 DEF CheckIP
<1> QED BY <1>2, <1>3, <1>4

(* A request that comes in.                                                *)
LEMMA AskStarts ==
    ASSUME AsksInv, NEW r \in Askers, Ask(r)
    PROVE  AsksInv'
<1> DEFINE by == AskedOf(r)
           new == [NotAsking EXCEPT !.at = "client", !.by = by]
<1>0. by \in {"gateway", "engine"}
    BY DEF AskedOf
<1>1. NotAsking \in AskStates
    BY AskEnds
<1>2. /\ NotAsking.held \in SUBSET AllGrounds
      /\ NotAsking.limit \in Limits /\ NotAsking.allowed \in Limits
    BY <1>1, AskFields
<1>3. new = [at |-> "client", by |-> by, held |-> NotAsking.held, limit |-> NotAsking.limit,
             allowed |-> NotAsking.allowed]
    BY <1>1, AskAtBy, Zenon
<1>4. Proceed(r, new)
    BY DEF Ask
<1> HIDE DEF new
<1>5. new \in AskStates
    BY <1>0, <1>2, <1>3 DEF AskStates
<1>6. SoundAsk(new)
    BY <1>3 DEF SoundAsk
<1> QED BY <1>4, <1>5, <1>6, ProceedKeeps

(* The view that decides is the snapshot or the tables.                    *)
LEMMA ViewsRules ==
    ASSUME ViewsInv, NEW r \in Askers
    PROVE  \A rule \in View(r).rules : rule.limit \in [1 .. Windows -> 0 .. MaxRate]
<1>1. View(r) \in Views
    BY DEF ViewsInv, View, Chosen
<1>2. View(r).rules \subseteq UNION RuleTables
    BY <1>1 DEF Views
<1> QED BY <1>2, AccessAssumption

(* The rule that decides is one of the most specific, whichever way it is  *)
(* found.                                                                  *)
LEMMA FirstIsSpecific ==
    ASSUME NEW matching, NEW direct, NEW rule \in FirstRules(matching, direct)
    PROVE  rule \in MostSpecific(matching)
<1>1. CASE ~direct
    BY <1>1 DEF FirstRules, FirstPlaced
<1>2. CASE direct
    <2>1. rule \in matching /\ \A o \in matching : Rank(rule) >= Rank(o)
        BY <1>2 DEF FirstRules
    <2>2. ASSUME NEW o \in matching PROVE specificity(rule) >= specificity(o)
        <3>1. Rank(rule) >= Rank(o)
            BY <2>1
        <3>2. /\ Names(rule.client) \in {0, 1} /\ Names(rule.api) \in {0, 1}
              /\ Names(o.client) \in {0, 1} /\ Names(o.api) \in {0, 1}
            BY DEF Names
        <3> QED BY <3>1, <3>2 DEF Rank, specificity
    <2> QED BY <2>1, <2>2 DEF MostSpecific
<1> QED BY <1>1, <1>2

LEMMA RulesKeep ==
    ASSUME ViewsInv, AsksInv, NEW r \in Askers, ReadRules(r)
    PROVE  AsksInv'
<1> DEFINE matching == {rule \in View(r).rules : RuleApplies(rule)}
           Bests(w) == {rule.limit[w] : rule \in MostSpecific(matching)}
           allowed == [w \in 1 .. Windows |-> Largest(Bests(w))]
<1>1. asks[r].at = "rules" /\ asks[r].held = AllGrounds /\ asks[r] \in AskStates
    BY DEF ReadRules, AsksInv, SoundAsk
<1>2. CASE Proceed(r, Admitted(r))
    BY <1>1, <1>2, AskEnds, ProceedKeeps
<1>3. CASE \E rule \in FirstRules(matching, Direct(r)) :
              Proceed(r, [asks[r] EXCEPT !.at = "limit", !.limit = rule.limit, !.allowed = allowed])
    <2> PICK rule \in FirstRules(matching, Direct(r)) :
              Proceed(r, [asks[r] EXCEPT !.at = "limit", !.limit = rule.limit, !.allowed = allowed])
        BY <1>3
    <2> DEFINE a == asks[r]
               limit == rule.limit
               new == [a EXCEPT !.at = "limit", !.limit = limit, !.allowed = allowed]
    <2>1. rule \in MostSpecific(matching)
        BY FirstIsSpecific
    <2>2. \A o \in MostSpecific(matching) : o.limit \in [1 .. Windows -> 0 .. MaxRate]
        BY ViewsRules DEF MostSpecific
    <2>3. Windows \in Nat /\ MaxRate \in Nat
        BY AccessAssumption
    <2>4. ASSUME NEW w \in 1 .. Windows
          PROVE  allowed[w] \in Nat /\ limit[w] <= allowed[w]
        <3> DEFINE S == Bests(w)
        <3>1. limit[w] \in S
            BY <2>1
        <3>2. S \in SUBSET (0 .. MaxRate)
            BY <2>2
        <3>3. allowed[w] = Largest(S)
            OBVIOUS
        <3> HIDE DEF S, allowed, limit
        <3>4. S \in SUBSET Nat /\ \A n \in S : n <= MaxRate
            BY <2>3, <3>2
        <3>5. \E m \in S : \A n \in S : n <= m
            BY <2>3, <3>1, <3>4, LargestOf
        <3>6. Largest(S) \in S /\ \A n \in S : n <= Largest(S)
            BY <3>5 DEF Largest
        <3> QED BY <3>1, <3>3, <3>4, <3>6
    <2>5. limit \in Limits
        BY <2>1, <2>2, <2>3 DEF Limits
    <2>6. allowed = [w \in 1 .. Windows |-> allowed[w]]
        OBVIOUS
    <2>7. new = [at |-> "limit", by |-> a.by, held |-> a.held, limit |-> limit, allowed |-> allowed]
        <3> HIDE DEF allowed, limit
        <3> QED BY <1>1, AskAtLimit, Zenon
    <2>8. Proceed(r, new)
        OBVIOUS
    <2> HIDE DEF limit, allowed, new
    <2>9. allowed \in Limits
        BY <2>4, <2>6 DEF Limits
    <2>10. a.by \in {"", "gateway", "engine"} /\ a.held = AllGrounds
        BY <1>1, AskFields
    <2>11. new \in AskStates
        BY <2>5, <2>7, <2>9, <2>10 DEF AskStates
    <2>12. SoundAsk(new)
        BY <2>4, <2>7, <2>10 DEF SoundAsk
    <2> HIDE DEF a
    <2> QED BY <2>8, <2>11, <2>12, ProceedKeeps
<1> QED BY <1>2, <1>3 DEF ReadRules

(* What a set of tables is, field by field.                                *)
LEMMA ViewFields ==
    ASSUME NEW v \in Views
    PROVE  /\ v.client \in {"none", "active", "inactive", "deleted"} /\ v.granted \in BOOLEAN
           /\ v.rules \in SUBSET UNION RuleTables /\ v.entries \in SUBSET Entries /\ v.nil \in BOOLEAN
           /\ DOMAIN v = {"client", "granted", "rules", "entries", "nil"}
           /\ v = [client |-> v.client, granted |-> v.granted, rules |-> v.rules,
                   entries |-> v.entries, nil |-> v.nil]
BY DEF Views

(* Changing a field to what it may be makes a set of tables.               *)
LEMMA ViewEdits ==
    ASSUME NEW v \in Views
    PROVE  /\ \A x \in {"none", "active", "inactive", "deleted"} : [v EXCEPT !.client = x] \in Views
           /\ \A x \in BOOLEAN : [v EXCEPT !.granted = x] \in Views
           /\ \A x \in SUBSET UNION RuleTables : [v EXCEPT !.rules = x] \in Views
           /\ \A x \in SUBSET Entries : [v EXCEPT !.entries = x] \in Views
           /\ \A x \in BOOLEAN : [v EXCEPT !.nil = x] \in Views
<1>1. v.client \in {"none", "active", "inactive", "deleted"} /\ v.granted \in BOOLEAN
      /\ v.rules \in SUBSET UNION RuleTables /\ v.entries \in SUBSET Entries /\ v.nil \in BOOLEAN
    BY ViewFields
<1>2. /\ DOMAIN v = {"client", "granted", "rules", "entries", "nil"}
      /\ v = [client |-> v.client, granted |-> v.granted, rules |-> v.rules,
              entries |-> v.entries, nil |-> v.nil]
    BY ViewFields
<1>3. ASSUME NEW x \in {"none", "active", "inactive", "deleted"} PROVE [v EXCEPT !.client = x] \in Views
    BY <1>1, <1>2 DEF Views
<1>4. ASSUME NEW x \in BOOLEAN PROVE [v EXCEPT !.granted = x] \in Views
    BY <1>1, <1>2 DEF Views
<1>5. ASSUME NEW x \in SUBSET UNION RuleTables PROVE [v EXCEPT !.rules = x] \in Views
    BY <1>1, <1>2 DEF Views
<1>6. ASSUME NEW x \in SUBSET Entries PROVE [v EXCEPT !.entries = x] \in Views
    BY <1>1, <1>2 DEF Views
<1>7. ASSUME NEW x \in BOOLEAN PROVE [v EXCEPT !.nil = x] \in Views
    BY <1>1, <1>2 DEF Views
<1> QED BY <1>3, <1>4, <1>5, <1>6, <1>7

AccessInv == ViewsInv /\ AsksInv /\ CountInv

(* An edit or a swap that leaves the tables and the snapshot what they are *)
(* is noted for every request under way.                                   *)
LEMMA EditKeeps ==
    ASSUME AccessInv, NEW new \in Views, Edit(new)
    PROVE  AccessInv'
<1>1. ViewsInv' /\ CountInv'
    BY DEF AccessInv, Edit, ViewsInv, CountInv
<1>2. asks \in [Askers -> AskStates] /\ \A r \in Askers : SoundAsk(asks[r])
    BY DEF AccessInv, AsksInv
<1>3. Note(asks)
    BY DEF Edit
<1> QED BY <1>1, <1>2, <1>3, NoteKeeps DEF AccessInv

LEMMA EditsKeep ==
    ASSUME AccessInv,
           \/ SetStatus \/ SetClientAPIs \/ RemoveClient
           \/ \E rules \in RuleTables : ChangeRateLimits(rules)
           \/ \E e \in Entries : ChangeIPWhitelist(e)
    PROVE  AccessInv'
<1>0. policy \in Views
    BY DEF AccessInv, ViewsInv
<1>1. /\ policy.rules \in SUBSET UNION RuleTables /\ policy.entries \in SUBSET Entries
      /\ policy.granted \in BOOLEAN
    BY <1>0, ViewFields
<1>2. CASE SetStatus
    <2> DEFINE x == IF policy.client = "active" THEN "inactive" ELSE "active"
    <2>1. Edit([policy EXCEPT !.client = x])
        BY <1>2 DEF SetStatus
    <2>2. x \in {"none", "active", "inactive", "deleted"}
        OBVIOUS
    <2> HIDE DEF x
    <2>3. [policy EXCEPT !.client = x] \in Views
        BY <1>0, <2>2, ViewEdits
    <2> QED BY <2>1, <2>3, EditKeeps
<1>3. CASE SetClientAPIs
    <2> DEFINE x == ~policy.granted
    <2>1. Edit([policy EXCEPT !.granted = x])
        BY <1>3 DEF SetClientAPIs
    <2>2. x \in BOOLEAN
        OBVIOUS
    <2> HIDE DEF x
    <2>3. [policy EXCEPT !.granted = x] \in Views
        BY <1>0, <2>2, ViewEdits
    <2> QED BY <2>1, <2>3, EditKeeps
<1>4. CASE RemoveClient
    <2> DEFINE kept == {e \in policy.entries : e.client # "this"}
               left == {rule \in policy.rules : rule.client # "this"}
               a == [policy EXCEPT !.client = "deleted"]
               b == [a EXCEPT !.granted = FALSE]
               c == [b EXCEPT !.entries = kept]
               d == [c EXCEPT !.rules = left]
    <2>1. Edit([policy EXCEPT !.client = "deleted", !.granted = FALSE, !.entries = kept, !.rules = left])
        BY <1>4 DEF RemoveClient
    <2>2. kept \in SUBSET Entries /\ left \in SUBSET UNION RuleTables
        BY <1>1
    <2> HIDE DEF kept, left
    <2>3. [policy EXCEPT !.client = "deleted", !.granted = FALSE, !.entries = kept, !.rules = left] = d
        OBVIOUS
    <2>4. a \in Views
        BY <1>0, ViewEdits
    <2> HIDE DEF a
    <2>5. b \in Views
        BY <2>4, ViewEdits
    <2> HIDE DEF b
    <2>6. c \in Views
        BY <2>2, <2>5, ViewEdits
    <2> HIDE DEF c
    <2>7. d \in Views
        BY <2>2, <2>6, ViewEdits
    <2> HIDE DEF d
    <2> QED BY <2>1, <2>3, <2>7, EditKeeps
<1>5. ASSUME NEW rules \in RuleTables, ChangeRateLimits(rules)
      PROVE  AccessInv'
    <2>1. [policy EXCEPT !.rules = rules] \in Views
        BY <1>0, ViewEdits
    <2> QED BY <1>5, <2>1, EditKeeps DEF ChangeRateLimits
<1>6. ASSUME NEW e \in Entries, ChangeIPWhitelist(e)
      PROVE  AccessInv'
    <2> DEFINE x == IF e \in policy.entries THEN policy.entries \ {e} ELSE policy.entries \cup {e}
    <2>1. Edit([policy EXCEPT !.entries = x])
        BY <1>6 DEF ChangeIPWhitelist
    <2>2. x \in SUBSET Entries
        BY <1>1
    <2> HIDE DEF x
    <2>3. [policy EXCEPT !.entries = x] \in Views
        BY <1>0, <2>2, ViewEdits
    <2> QED BY <2>1, <2>3, EditKeeps
<1> QED BY <1>2, <1>3, <1>4, <1>5, <1>6

(* A load of the snapshot, statement by statement.                         *)
LEMMA LoadKeeps ==
    ASSUME AccessInv, ReadTable \/ LoadFails \/ SwapSnapshot
    PROVE  AccessInv'
<1>0. policy \in Views /\ load.got \in Views /\ load.next \in Nat /\ NoSnapshot \in Views
    BY DEF AccessInv, ViewsInv, NoSnapshot, Views
<1>1. CASE ReadTable
    <2> DEFINE got == [t \in DOMAIN policy |->
                          IF t \in Statements[load.next] THEN policy[t] ELSE load.got[t]]
    <2>1. DOMAIN policy = {"client", "granted", "rules", "entries", "nil"}
        BY <1>0, ViewFields
    <2>2. \A t \in DOMAIN policy : got[t] = policy[t] \/ got[t] = load.got[t]
        OBVIOUS
    <2>3. DOMAIN got = DOMAIN policy
        OBVIOUS
    <2>4. load' = [next |-> load.next + 1, got |-> got]
        BY <1>1 DEF ReadTable
    <2> HIDE DEF got
    <2>5. got = [client |-> got.client, granted |-> got.granted, rules |-> got.rules,
                 entries |-> got.entries, nil |-> got.nil]
        <3> DEFINE D == {"client", "granted", "rules", "entries", "nil"}
                   rec == [client |-> got.client, granted |-> got.granted, rules |-> got.rules,
                           entries |-> got.entries, nil |-> got.nil]
        <3>1. got = [t \in D |-> got[t]]
            BY <2>1 DEF got
        <3>2. rec = [t \in D |-> rec[t]]
            OBVIOUS
        <3>3. \A t \in D : rec[t] = got[t]
            OBVIOUS
        <3> HIDE DEF rec, D
        <3>4. rec = got
            BY <3>1, <3>2, <3>3
        <3> QED BY <3>4 DEF rec
    <2>6. /\ got.client = policy.client \/ got.client = load.got.client
          /\ got.rules = policy.rules \/ got.rules = load.got.rules
          /\ got.entries = policy.entries \/ got.entries = load.got.entries
        BY <2>1, <2>2
    <2>7. /\ got.granted = policy.granted \/ got.granted = load.got.granted
          /\ got.nil = policy.nil \/ got.nil = load.got.nil
        BY <2>1, <2>2
    <2>8. /\ got.client \in {"none", "active", "inactive", "deleted"}
          /\ got.rules \in SUBSET UNION RuleTables /\ got.entries \in SUBSET Entries
        BY <1>0, <2>6, ViewFields
    <2>9. got.granted \in BOOLEAN /\ got.nil \in BOOLEAN
        BY <1>0, <2>7, ViewFields
    <2>10. got \in Views
        BY <2>5, <2>8, <2>9 DEF Views
    <2> QED BY <1>0, <1>1, <2>4, <2>10 DEF AccessInv, ReadTable, ViewsInv, AsksInv, CountInv, View
<1>2. CASE LoadFails
    BY <1>0, <1>2 DEF AccessInv, LoadFails, ViewsInv, AsksInv, CountInv, View
<1>3. CASE SwapSnapshot
    <2>1. [load.got EXCEPT !.nil = FALSE] \in Views
        BY <1>0, ViewEdits
    <2>2. /\ snapshot' = [load.got EXCEPT !.nil = FALSE]
          /\ load' = [next |-> 1, got |-> NoSnapshot]
          /\ UNCHANGED <<policy, count, admitted, ceiling>> /\ Note(asks)
        BY <1>3 DEF SwapSnapshot
    <2>3. ViewsInv' /\ CountInv'
        BY <1>0, <2>1, <2>2 DEF AccessInv, ViewsInv, CountInv
    <2>4. asks \in [Askers -> AskStates] /\ \A r \in Askers : SoundAsk(asks[r])
        BY DEF AccessInv, AsksInv
    <2> QED BY <2>2, <2>3, <2>4, NoteKeeps DEF AccessInv
<1> QED BY <1>1, <1>2, <1>3

(* The windows, whether or not the request is let through.                 *)
LEMMA HitKeeps ==
    ASSUME CountInv, NEW limit \in Limits, Hit(limit)
    PROVE  /\ count' \in Limits
           /\ \A w \in 1 .. Windows : count'[w] = count[w] \/ count'[w] = count[w] + 1
           /\ \A w \in 1 .. Windows : w \in Counted(limit) => count'[w] = count[w] + 1
<1>1. ASSUME NEW w \in 1 .. Windows
      PROVE  /\ count'[w] = IF w \in Counted(limit) THEN count[w] + 1 ELSE count[w]
             /\ count[w] \in Nat
    BY DEF CountInv, Hit, Limits
<1>2. count' = [w \in 1 .. Windows |-> count'[w]]
    BY DEF Hit
<1>3. ASSUME NEW w \in 1 .. Windows
      PROVE  count'[w] \in Nat
    BY <1>1
<1> QED BY <1>1, <1>2, <1>3 DEF Limits

LEMMA AllowKeeps ==
    ASSUME CountInv, AsksInv, NEW r \in Askers, Allow(r)
    PROVE  CountInv'
<1> DEFINE limit == asks[r].limit
           allowed == asks[r].allowed
<1>1. /\ limit \in Limits /\ allowed \in Limits
      /\ \A w \in 1 .. Windows : limit[w] <= allowed[w]
    <2>1. asks[r] \in AskStates /\ SoundAsk(asks[r]) /\ asks[r].at = "limit"
        BY DEF AsksInv, Allow
    <2> QED BY <2>1, AskFields DEF SoundAsk
<1>2. /\ Hit(limit)
      /\ ceiling' = [w \in 1 .. Windows |->
            IF w \in Counted(limit) /\ allowed[w] > ceiling[w] THEN allowed[w] ELSE ceiling[w]]
      /\ \/ admitted' = admitted
         \/ /\ ~Exceeded(limit)
            /\ admitted' = [w \in 1 .. Windows |->
                  IF w \in Counted(limit) THEN admitted[w] + 1 ELSE admitted[w]]
    BY DEF Allow
<1> HIDE DEF limit, allowed
<1>3. ASSUME NEW w \in 1 .. Windows
      PROVE  /\ ceiling'[w] \in Nat /\ admitted'[w] \in Nat
             /\ admitted'[w] <= count'[w] /\ admitted'[w] <= ceiling'[w]
    <2>1. /\ count[w] \in Nat /\ admitted[w] \in Nat /\ ceiling[w] \in Nat
          /\ limit[w] \in Nat /\ allowed[w] \in Nat /\ limit[w] <= allowed[w]
          /\ admitted[w] <= count[w] /\ admitted[w] <= ceiling[w]
        BY <1>1 DEF CountInv, Limits
    <2>2. /\ count'[w] = count[w] \/ count'[w] = count[w] + 1
          /\ w \in Counted(limit) => count'[w] = count[w] + 1
        BY <1>1, <1>2, HitKeeps
    <2>3. ceiling'[w] = IF w \in Counted(limit) /\ allowed[w] > ceiling[w] THEN allowed[w] ELSE ceiling[w]
        BY <1>2
    <2>4. CASE admitted' = admitted
        BY <2>1, <2>2, <2>3, <2>4
    <2>5. CASE /\ ~Exceeded(limit)
               /\ admitted' = [v \in 1 .. Windows |->
                     IF v \in Counted(limit) THEN admitted[v] + 1 ELSE admitted[v]]
        <3>1. admitted'[w] = IF w \in Counted(limit) THEN admitted[w] + 1 ELSE admitted[w]
            BY <2>5
        <3>2. w \in Counted(limit) => ~(count[w] + 1 > limit[w])
            BY <2>5 DEF Exceeded
        <3> QED BY <2>1, <2>2, <2>3, <3>1, <3>2
    <2> QED BY <1>2, <2>4, <2>5
<1>4. count' \in Limits
    BY <1>1, <1>2, HitKeeps
<1>5. /\ ceiling' = [w \in 1 .. Windows |-> ceiling'[w]]
      /\ admitted' = [w \in 1 .. Windows |-> admitted'[w]]
    BY <1>2 DEF CountInv, Limits
<1>6. ceiling' \in Limits /\ admitted' \in Limits
    BY <1>3, <1>5 DEF Limits
<1> QED BY <1>3, <1>4, <1>6 DEF CountInv

LEMMA LimiterKeeps ==
    ASSUME CountInv, AsksInv, NEW r \in Askers, LimiterFails(r)
    PROVE  CountInv'
<1>1. asks[r].limit \in Limits
    BY AskFields DEF AsksInv
<1>2. UNCHANGED <<admitted, ceiling>> /\ (Hit(asks[r].limit) \/ UNCHANGED count)
    BY DEF LimiterFails
<1>3. CASE UNCHANGED count
    BY <1>2, <1>3 DEF CountInv
<1>4. CASE Hit(asks[r].limit)
    <2>1. /\ count' \in Limits
          /\ \A w \in 1 .. Windows : count'[w] = count[w] \/ count'[w] = count[w] + 1
        BY <1>1, <1>4, HitKeeps
    <2>2. \A w \in 1 .. Windows : count[w] \in Nat /\ admitted[w] \in Nat
        BY DEF CountInv, Limits
    <2> QED BY <1>2, <2>1, <2>2 DEF CountInv
<1> QED BY <1>2, <1>3, <1>4

(* The last steps of a request.                                            *)
LEMMA EndsKeep ==
    ASSUME AsksInv, NEW r \in Askers, StoreFails(r) \/ Allow(r) \/ LimiterFails(r) \/ Leave(r)
    PROVE  AsksInv'
<1>1. Proceed(r, NotAsking) \/ (asks[r].at \in {"rules", "limit"} /\ Proceed(r, Admitted(r)))
    BY DEF StoreFails, Allow, LimiterFails, Leave, Check
<1> QED BY <1>1, AskEnds, ProceedKeeps

LEMMA AccessStep ==
    ASSUME AccessInv, AccessNext \/ UNCHANGED accessVars
    PROVE  AccessInv'
<1> USE DEF AccessInv
<1>1. CASE \/ SetStatus \/ SetClientAPIs \/ RemoveClient
           \/ \E rules \in RuleTables : ChangeRateLimits(rules)
           \/ \E e \in Entries : ChangeIPWhitelist(e)
    BY <1>1, EditsKeep
<1>2. CASE ReadTable \/ LoadFails \/ SwapSnapshot
    BY <1>2, LoadKeeps
<1>3. ASSUME NEW r \in Askers,
             \/ Ask(r) \/ CheckClient(r) \/ CheckGrant(r) \/ CheckIP(r) \/ ReadRules(r) \/ StoreFails(r)
             \/ Allow(r) \/ LimiterFails(r) \/ Leave(r)
      PROVE  AccessInv'
    <2>1. ViewsInv'
        <3>1. UNCHANGED <<policy, snapshot, load>>
            BY <1>3 DEF Ask, CheckClient, CheckGrant, CheckIP, Check, ReadRules, StoreFails, Allow,
                        LimiterFails, Leave, Proceed
        <3> QED BY <3>1 DEF ViewsInv
    <2>2. AsksInv'
        BY <1>3, AskStarts, ChecksKeep, RulesKeep, EndsKeep
    <2>3. CountInv'
        <3>1. CASE Allow(r)
            BY <3>1, AllowKeeps
        <3>2. CASE LimiterFails(r)
            BY <3>2, LimiterKeeps
        <3>3. CASE ~Allow(r) /\ ~LimiterFails(r)
            <4>1. UNCHANGED <<count, admitted, ceiling>>
                BY <1>3, <3>3 DEF Ask, CheckClient, CheckGrant, CheckIP, Check, ReadRules, StoreFails,
                                  Leave
            <4> QED BY <4>1 DEF CountInv
        <3> QED BY <3>1, <3>2, <3>3
    <2> QED BY <2>1, <2>2, <2>3
<1>4. ASSUME NEW w \in 1 .. Windows, WindowExpires(w)
      PROVE  AccessInv'
    <2>1. ViewsInv' /\ AsksInv'
        BY <1>4 DEF WindowExpires, ViewsInv, AsksInv, View
    <2>2. CountInv'
        BY <1>4 DEF WindowExpires, CountInv, Limits
    <2> QED BY <2>1, <2>2
<1>5. CASE UNCHANGED accessVars
    BY <1>5 DEF accessVars, ViewsInv, AsksInv, CountInv, View
<1> QED BY <1>1, <1>2, <1>3, <1>4, <1>5 DEF AccessNext

LEMMA AccessStarts == Init => AccessInv
<1> SUFFICES ASSUME Init PROVE AccessInv
    OBVIOUS
<1>0. Windows \in Nat
    BY AccessAssumption
<1>1. NoLimit \in Limits /\ \A w \in 1 .. Windows : NoLimit[w] = 0
    BY <1>0 DEF NoLimit, Limits
<1>2. CountInv
    BY <1>1 DEF Init, AccessInit, CountInv
<1>3. NotAsking \in AskStates /\ NotAsking.at = "idle"
    BY <1>1 DEF NotAsking, AskStates
<1>4. AsksInv
    <2>1. asks \in [Askers -> AskStates] /\ \A r \in Askers : asks[r].at = "idle"
        BY <1>3 DEF Init, AccessInit
    <2> QED BY <2>1 DEF AsksInv, SoundAsk
<1>5. policy \in Views
    <2>1. PICK rules \in RuleTables, entries \in AllowLists :
              policy = [client |-> "active", granted |-> TRUE, entries |-> entries, rules |-> rules,
                        nil |-> FALSE]
        BY DEF Init, AccessInit
    <2> QED BY <2>1, AccessAssumption DEF Views
<1>6. NoSnapshot \in Views
    BY DEF NoSnapshot, Views
<1>7. snapshot \in {NoSnapshot, policy} /\ load = [next |-> 1, got |-> NoSnapshot]
    BY DEF Init, AccessInit
<1>8. ViewsInv
    BY <1>5, <1>6, <1>7 DEF ViewsInv
<1> QED BY <1>2, <1>4, <1>8 DEF AccessInv

(* No request is admitted without all its grounds, for every number of     *)
(* requests at once, every allow list and every table of rules, however    *)
(* the edits, the statements of a load, the swaps and the checks           *)
(* interleave.                                                             *)
THEOREM GroundsTheorem == Spec => []AdmittedOnGrounds
<1>1. AccessInv /\ [Next]_vars => AccessInv'
    BY AccessStep, Parts
<1>2. AccessInv => AdmittedOnGrounds
    BY DEF AccessInv, AsksInv, SoundAsk, AllGrounds, AdmittedOnGrounds
<1> QED BY AccessStarts, <1>1, <1>2, PTL DEF Spec

(* No window lets through more than the most specific rules allowed while  *)
(* it lasted, for every number of windows, every table of rules and every  *)
(* number of requests and edits.                                           *)
THEOREM QuotaTheorem == Spec => []QuotaHolds
<1>1. AccessInv /\ [Next]_vars => AccessInv'
    BY AccessStep, Parts
<1>2. AccessInv => QuotaHolds
    BY DEF AccessInv, CountInv, QuotaHolds
<1> QED BY AccessStarts, <1>1, <1>2, PTL DEF Spec

-----------------------------------------------------------------------------
(* The router.  Of the routes looked at, none without parameters fits, and *)
(* found is one that fits unless none does.                                *)

MatchInv ==
    step = "match" =>
        /\ table \in Tables
        /\ idx \in Nat \ {0} /\ found \in Nat
        /\ \A i \in DOMAIN table : i < idx /\ Fits(table[i], path) => HasParam(table[i]) /\ found # 0
        /\ found # 0 => found \in DOMAIN table /\ Fits(table[found], path)

LEMMA MatchStep ==
    ASSUME MatchInv, LiteralRouteWins, ShapeNext \/ UNCHANGED shapeVars
    PROVE  MatchInv' /\ LiteralRouteWins'
<1>1. ASSUME step = "match"
      PROVE  Len(table) \in Nat /\ DOMAIN table = 1 .. Len(table)
    BY <1>1, TablesAssumption DEF MatchInv
<1>2. CASE MatchNext
    <2>1. /\ step = "match" /\ idx <= Len(table) /\ UNCHANGED <<table, path>>
          /\ idx \in Nat \ {0} /\ found \in Nat
        BY <1>2 DEF MatchNext, MatchInv
    <2>2. CASE Fits(table[idx], path) /\ ~HasParam(table[idx])
        <3>1. step' = "resolve" /\ route' = table[idx]
            BY <1>2, <2>2 DEF MatchNext, WinsAtOnce, Take
        <3> QED BY <2>1, <2>2, <3>1 DEF MatchInv, LiteralRouteWins
    <2>3. CASE ~(Fits(table[idx], path) /\ ~HasParam(table[idx]))
        <3>1. /\ step' = "match" /\ idx' = idx + 1
              /\ found' = IF Fits(table[idx], path) /\ found = 0 THEN idx ELSE found
            BY <1>2, <2>1, <2>3 DEF MatchNext, WinsAtOnce
        <3>2. idx \in DOMAIN table
            BY <1>1, <2>1
        <3>3. LiteralRouteWins'
            BY <3>1 DEF LiteralRouteWins
        <3>4. CASE Fits(table[idx], path) /\ found = 0
            BY <1>1, <2>1, <2>3, <3>1, <3>2, <3>3, <3>4 DEF MatchInv
        <3>5. CASE ~(Fits(table[idx], path) /\ found = 0)
            BY <1>1, <2>1, <2>3, <3>1, <3>2, <3>3, <3>5 DEF MatchInv
        <3> QED BY <3>4, <3>5
    <2> QED BY <2>2, <2>3
<1>3. CASE MatchEnds
    <2>1. /\ step = "match" /\ idx > Len(table) /\ UNCHANGED <<table, path>>
          /\ idx \in Nat /\ found \in Nat
        BY <1>3 DEF MatchEnds, MatchInv
    <2>2. \A i \in DOMAIN table : Fits(table[i], path) => HasParam(table[i]) /\ found # 0
        BY <1>1, <2>1 DEF MatchInv
    <2>3. CASE found # 0
        <3>1. step' = "resolve" /\ route' = table[found]
            BY <1>3, <2>3 DEF MatchEnds, Take
        <3> QED BY <2>1, <2>2, <2>3, <3>1 DEF MatchInv, LiteralRouteWins
    <2>4. CASE found = 0
        <3>1. step' = "unmatched"
            BY <1>3, <2>4 DEF MatchEnds
        <3> QED BY <2>1, <2>2, <2>4, <3>1 DEF MatchInv, LiteralRouteWins
    <2> QED BY <2>3, <2>4
<1>4. CASE Resolve \/ BuildTemplate \/ Build \/ Hand \/ Page
    <2>1. CASE Resolve
        <3>1. step' \in {"refused", "build"}
            BY <2>1 DEF Resolve
        <3> QED BY <3>1 DEF MatchInv, LiteralRouteWins
    <2>2. CASE Build
        <3>1. step' \in {"refused", "built"}
            BY <2>2 DEF Build, Built
        <3> QED BY <3>1 DEF MatchInv, LiteralRouteWins
    <2>3. CASE BuildTemplate \/ Hand \/ Page
        <3>1. step' \in {"built", "page", "answered"}
            BY <2>3 DEF BuildTemplate, Hand, Page
        <3> QED BY <3>1 DEF MatchInv, LiteralRouteWins
    <2> QED BY <1>4, <2>1, <2>2, <2>3
<1>5. CASE UNCHANGED shapeVars
    BY <1>5 DEF shapeVars, MatchInv, LiteralRouteWins
<1> QED BY <1>2, <1>3, <1>4, <1>5 DEF ShapeNext

(* The router's choice, for every route table and every path.              *)
THEOREM RouterTheorem == Spec => []LiteralRouteWins
<1>1. Init => MatchInv /\ LiteralRouteWins
    <2>1. \A t \in Tables : \A i \in DOMAIN t : i \in Nat \ {0}
        BY TablesAssumption
    <2>2. ASSUME ShapeInit PROVE MatchInv /\ LiteralRouteWins
        BY <2>1, <2>2 DEF ShapeInit, MatchInv, LiteralRouteWins
    <2>3. ASSUME ShapeIdle PROVE MatchInv /\ LiteralRouteWins
        BY <2>3 DEF ShapeIdle, MatchInv, LiteralRouteWins
    <2> QED BY <2>2, <2>3 DEF Init
<1>2. MatchInv /\ LiteralRouteWins /\ [Next]_vars => MatchInv' /\ LiteralRouteWins'
    BY MatchStep, Parts
<1> QED BY <1>1, <1>2, PTL DEF Spec

-----------------------------------------------------------------------------
(* Paging.                                                                 *)

(* The effective limit is positive and under both ceilings.                *)
LEMMA EffectiveLimit ==
    ASSUME NEW asked \in Int
    PROVE  /\ effectiveLimit(asked) \in Nat \ {0}
           /\ \A most \in {MaxLimit, GatewayMax} : most > 0 => effectiveLimit(asked) <= most
<1> DEFINE wanted == IF asked > 0 THEN asked ELSE DefaultLimit
           S == {wanted} \cup {m \in {MaxLimit, GatewayMax} : m > 0}
<1>1. wanted \in Nat \ {0} /\ MaxLimit \in Int /\ GatewayMax \in Int
    BY PagingAssumption
<1>2. /\ S \in SUBSET (Nat \ {0}) /\ S # {}
      /\ \A most \in {MaxLimit, GatewayMax} : most > 0 => most \in S
    BY <1>1
<1>3. effectiveLimit(asked) = Min(S)
    BY DEF effectiveLimit
<1> HIDE DEF S
<1>4. \E m \in S : \A n \in S : m <= n
    BY <1>2, Smallest
<1>5. Min(S) \in S /\ \A n \in S : Min(S) <= n
    BY <1>4 DEF Min
<1> QED BY <1>2, <1>3, <1>5

(* The larger and the smaller of two.                                      *)
LEMMA OfTwo ==
    ASSUME NEW m \in Int, NEW n \in Int
    PROVE  /\ Max({m, n}) = IF m >= n THEN m ELSE n
           /\ Min({m, n}) = IF m <= n THEN m ELSE n
BY DEF Max, Min

(* Every dialect's clause gets the limit for the limit and the offset for  *)
(* the offset.                                                             *)
LEMMA RolesFit ==
    ASSUME NEW d \in {"postgres", "mysql", "sqlserver", "oracle"}, NEW limit, NEW offset \in Int
    PROVE  /\ ArgOf(d, AppendedArgs(d, limit, offset), "limit") = limit
           /\ ArgOf(d, AppendedArgs(d, limit, offset), "offset") = IF offset >= 0 THEN offset ELSE 0
<1> DEFINE from == Max({offset, 0})
<1>1. from = IF offset >= 0 THEN offset ELSE 0
    BY OfTwo
<1>2. AppendedArgs(d, limit, offset) = IF d = "postgres" THEN <<limit, from>> ELSE <<from, limit>>
    BY DEF AppendedArgs
<1> HIDE DEF from
<1>3. 1 .. 2 = {1, 2}
    OBVIOUS
<1>4. CASE d = "postgres"
    <2>1. \A k \in 1 .. 2 : (RoleOf(d, k) = "limit" <=> k = 1) /\ (RoleOf(d, k) = "offset" <=> k = 2)
        BY <1>3, <1>4 DEF RoleOf
    <2>2. /\ (CHOOSE k \in 1 .. 2 : RoleOf(d, k) = "limit") = 1
          /\ (CHOOSE k \in 1 .. 2 : RoleOf(d, k) = "offset") = 2
        BY <1>3, <2>1
    <2>3. \A args : ArgOf(d, args, "limit") = args[1] /\ ArgOf(d, args, "offset") = args[2]
        BY <2>2, Zenon DEF ArgOf
    <2> QED BY <1>1, <1>2, <1>4, <2>3
<1>5. CASE d # "postgres"
    <2>1. \A k \in 1 .. 2 : (RoleOf(d, k) = "limit" <=> k = 2) /\ (RoleOf(d, k) = "offset" <=> k = 1)
        BY <1>3, <1>5 DEF RoleOf
    <2>2. /\ (CHOOSE k \in 1 .. 2 : RoleOf(d, k) = "limit") = 2
          /\ (CHOOSE k \in 1 .. 2 : RoleOf(d, k) = "offset") = 1
        BY <1>3, <2>1
    <2>3. \A args : ArgOf(d, args, "limit") = args[2] /\ ArgOf(d, args, "offset") = args[1]
        BY <2>2, Zenon DEF ArgOf
    <2> QED BY <1>1, <1>2, <1>5, <2>3
<1> QED BY <1>4, <1>5

(* The page and the offset of the answer belong together, unless the       *)
(* product of the page and the limit overflows.                            *)
LEMMA PaginationFits ==
    ASSUME NEW asked \in [limit : Ints, page : Ints, offset : Ints],
           \/ (asked.page - 1) * effectiveLimit(asked.limit) < Top
           \/ asked.offset >= 0
    PROVE  /\ pagination(asked).limit = effectiveLimit(asked.limit)
           /\ pagination(asked).offset \in Nat
           /\ pagination(asked).page = (pagination(asked).offset \div effectiveLimit(asked.limit)) + 1
<1> DEFINE limit == effectiveLimit(asked.limit)
           byPage == IF asked.page > 0 THEN [page |-> asked.page, offset |-> Wrap((asked.page - 1) * limit)]
                     ELSE [page |-> 1, offset |-> 0]
           byOffset == IF asked.offset >= 0
                       THEN [page |-> (asked.offset \div limit) + 1, offset |-> asked.offset]
                       ELSE byPage
<1>1. Top \in Nat \ {0} /\ asked.limit \in Int /\ asked.page \in Int /\ asked.offset \in Int
    BY PagingAssumption DEF Ints
<1>2. limit \in Nat \ {0}
    BY <1>1, EffectiveLimit
<1>3. pagination(asked) = [limit |-> limit, page |-> byOffset.page, offset |-> byOffset.offset]
    BY DEF pagination
<1>4. (asked.page - 1) * limit < Top \/ asked.offset >= 0
    OBVIOUS
<1> HIDE DEF limit
<1>5. byOffset.offset \in Nat /\ byOffset.page = (byOffset.offset \div limit) + 1
    <2>1. CASE asked.offset >= 0
        BY <1>1, <2>1
    <2>2. CASE asked.offset < 0 /\ asked.page > 0
        <3> DEFINE before == asked.page - 1
                   product == before * limit
        <3>1. before \in Nat
            BY <1>1, <2>2
        <3>2. byOffset = [page |-> asked.page, offset |-> Wrap(product)]
            BY <1>1, <2>2
        <3> HIDE DEF before
        <3>3. product \in Nat /\ product \div limit = before
            BY <1>2, <3>1
        <3>4. product < Top
            BY <1>1, <1>4, <2>2 DEF before
        <3> HIDE DEF product
        <3>5. Wrap(product) = product
            BY <1>1, <3>3, <3>4 DEF Wrap
        <3> HIDE DEF byOffset
        <3>6. byOffset.page = asked.page /\ byOffset.offset = product
            BY <3>2, <3>5
        <3> QED BY <1>1, <3>3, <3>6 DEF before
    <2>3. CASE asked.offset < 0 /\ ~(asked.page > 0)
        <3>1. byOffset.page = 1 /\ byOffset.offset = 0
            BY <1>1, <2>3
        <3> HIDE DEF byOffset
        <3> QED BY <1>2, <3>1
    <2> QED BY <1>1, <2>1, <2>2, <2>3
<1> HIDE DEF byOffset
<1> QED BY <1>3, <1>5 DEF limit

(* The limit and a number for the offset, overflow or not.                 *)
LEMMA PaginationTyped ==
    ASSUME NEW asked \in [limit : Ints, page : Ints, offset : Ints]
    PROVE  /\ pagination(asked).limit = effectiveLimit(asked.limit)
           /\ pagination(asked).offset \in Int
<1> DEFINE limit == effectiveLimit(asked.limit)
           byPage == IF asked.page > 0 THEN [page |-> asked.page, offset |-> Wrap((asked.page - 1) * limit)]
                     ELSE [page |-> 1, offset |-> 0]
           byOffset == IF asked.offset >= 0
                       THEN [page |-> (asked.offset \div limit) + 1, offset |-> asked.offset]
                       ELSE byPage
<1>1. Top \in Nat \ {0} /\ asked.limit \in Int /\ asked.page \in Int /\ asked.offset \in Int
    BY PagingAssumption DEF Ints
<1>2. limit \in Nat \ {0}
    BY <1>1, EffectiveLimit
<1>3. pagination(asked) = [limit |-> limit, page |-> byOffset.page, offset |-> byOffset.offset]
    BY DEF pagination
<1> HIDE DEF limit
<1> DEFINE product == (asked.page - 1) * limit
<1>4. product \in Int
    BY <1>1, <1>2
<1> HIDE DEF product
<1>5. Wrap(product) \in Int
    BY <1>1, <1>4 DEF Wrap
<1>6. byOffset.offset \in Int
    <2>1. byOffset.offset \in {asked.offset, Wrap(product), 0}
        BY Zenon DEF product
    <2> QED BY <1>1, <1>5, <2>1
<1> HIDE DEF byOffset
<1> QED BY <1>3, <1>6 DEF limit

(* A page that is not full is the last one.                                *)
LEMMA PartialPage ==
    ASSUME NEW limit \in Nat \ {0}, NEW from \in Nat, Returned(limit, from) # limit
    PROVE  from + Returned(limit, from) >= Rows
<1>1. Rows \in Nat
    BY PagingAssumption
<1> DEFINE left == Rows - from
           least == Min({limit, left})
<1>2. left \in Int /\ Returned(limit, from) = Max({0, least})
    BY <1>1 DEF Returned
<1>3. least = IF limit <= left THEN limit ELSE left
    BY <1>2, OfTwo
<1> HIDE DEF least
<1>4. Max({0, least}) = IF 0 >= least THEN 0 ELSE least
    BY <1>2, <1>3, OfTwo
<1> QED BY <1>1, <1>2, <1>3, <1>4

LEMMA PageStep ==
    ASSUME PageIsServed, ShapeNext \/ UNCHANGED shapeVars
    PROVE  PageIsServed'
<1>1. CASE Page
    <2>1. PICK asked \in [limit : Ints, page : Ints, offset : Ints],
               d \in {"postgres", "mysql", "sqlserver", "oracle"} :
          LET p == pagination(asked)
              args == AppendedArgs(d, p.limit, p.offset)
              limit == ArgOf(d, args, "limit")
              from == ArgOf(d, args, "offset")
              rows == Returned(limit, from)
          IN paging' = [asked |-> asked, limit |-> limit, from |-> from, rows |-> rows,
                        page |-> p.page, offset |-> p.offset,
                        next |-> HasNext(rows, p.limit)]
        BY <1>1, Zenon DEF Page
    <2> DEFINE p == pagination(asked)
               args == AppendedArgs(d, p.limit, p.offset)
               limit == ArgOf(d, args, "limit")
               from == ArgOf(d, args, "offset")
               rows == Returned(limit, from)
               next == rows = p.limit
    <2>2. paging' = [asked |-> asked, limit |-> limit, from |-> from, rows |-> rows,
                     page |-> p.page, offset |-> p.offset, next |-> next]
        BY <2>1 DEF HasNext
    <2> HIDE DEF p, args, limit, from, rows, next
    <2>3. /\ paging'.asked = asked /\ paging'.limit = limit /\ paging'.from = from
          /\ paging'.rows = rows /\ paging'.page = p.page /\ paging'.offset = p.offset
        BY <2>2
    <2>4. paging'.next = next
        BY <2>2
    <2>5. /\ effectiveLimit(asked.limit) \in Nat \ {0}
          /\ \A most \in {MaxLimit, GatewayMax} : most > 0 => effectiveLimit(asked.limit) <= most
        <3>1. asked.limit \in Int
            BY PagingAssumption DEF Ints
        <3> QED BY <3>1, EffectiveLimit
    <2>6. p.limit = effectiveLimit(asked.limit) /\ p.offset \in Int
        BY PaginationTyped DEF p
    <2>7. limit = p.limit /\ from = IF p.offset >= 0 THEN p.offset ELSE 0
        BY <2>6, RolesFit DEF limit, from, args
    <2>8. ~paging'.next => paging'.from + paging'.rows >= Rows
        <3>1. from \in Nat
            BY <2>6, <2>7
        <3>2. rows # limit => from + rows >= Rows
            BY <2>5, <2>6, <2>7, <3>1, PartialPage DEF rows
        <3> QED BY <2>3, <2>4, <2>7, <3>2 DEF next
    <2>9. ASSUME InRange' \/ paging'.asked.offset >= 0
          PROVE  /\ paging'.from = paging'.offset
                 /\ paging'.page = (paging'.offset \div paging'.limit) + 1
        <3>1. \/ (asked.page - 1) * effectiveLimit(asked.limit) < Top
              \/ asked.offset >= 0
            BY <2>3, <2>9 DEF InRange
        <3>2. /\ p.offset \in Nat
              /\ p.page = (p.offset \div effectiveLimit(asked.limit)) + 1
            BY <3>1, PaginationFits DEF p
        <3> QED BY <2>3, <2>6, <2>7, <3>2
    <2>10. /\ paging'.limit > 0
           /\ \A most \in {MaxLimit, GatewayMax} : most > 0 => paging'.limit <= most
        BY <2>3, <2>5, <2>6, <2>7
    <2> QED BY <2>8, <2>9, <2>10 DEF PageIsServed
<1>2. CASE Resolve
    <2>1. step' \in {"refused", "build"}
        BY <1>2 DEF Resolve
    <2> QED BY <2>1 DEF PageIsServed
<1>3. CASE Build
    <2>1. step' \in {"refused", "built"}
        BY <1>3 DEF Build, Built
    <2> QED BY <2>1 DEF PageIsServed
<1>4. CASE MatchNext \/ MatchEnds \/ BuildTemplate \/ Hand
    <2>1. step' \in {"match", "resolve", "unmatched", "built", "page"}
        BY <1>4 DEF MatchNext, MatchEnds, Take, BuildTemplate, Hand
    <2> QED BY <2>1 DEF PageIsServed
<1>5. CASE UNCHANGED shapeVars
    BY <1>5 DEF shapeVars, PageIsServed, InRange
<1> QED BY <1>1, <1>2, <1>3, <1>4, <1>5 DEF ShapeNext

(* The limit is under both ceilings, an answer without a next page is the  *)
(* last, and page and offset describe what was served unless they          *)
(* overflow: for every width of the integers, every default and ceiling,   *)
(* every number of rows and whatever limit, page and offset are asked for, *)
(* in every dialect.                                                       *)
THEOREM PageTheorem == Spec => []PageIsServed
<1>1. Init => PageIsServed
    BY DEF Init, ShapeInit, ShapeIdle, PageIsServed
<1>2. PageIsServed /\ [Next]_vars => PageIsServed'
    BY PageStep, Parts
<1> QED BY <1>1, <1>2, PTL DEF Spec

-----------------------------------------------------------------------------
(* Templates.  On a text without tagged quotes every iteration ends after  *)
(* the position it starts from.                                            *)

LEMMA FirstOf ==
    ASSUME NEW S \in SUBSET Nat, NEW default \in Nat, NEW low \in Nat, low < default,
           \A n \in S : low < n
    PROVE  First(S, default) \in Nat /\ low < First(S, default)
<1>1. CASE S = {}
    BY <1>1 DEF First
<1>2. CASE S # {}
    <2>1. \E m \in S : \A n \in S : m <= n
        BY <1>2, Smallest
    <2>2. Min(S) \in S
        BY <2>1 DEF Min
    <2> QED BY <1>2, <2>2 DEF First
<1> QED BY <1>1, <1>2

LEMMA EndsAfter ==
    ASSUME NEW t, Len(t) \in Nat, NEW i \in 1 .. Len(t)
    PROVE  /\ \A quote : QuotedEnd(t, i, quote) \in Nat /\ i < QuotedEnd(t, i, quote)
           /\ t[i] # "\n" => LineEnd(t, i) \in Nat /\ i < LineEnd(t, i)
           /\ BlockEnd(t, i) \in Nat /\ i < BlockEnd(t, i)
           /\ IdentEnd(t, i + 1) \in Nat /\ i < IdentEnd(t, i + 1)
<1>1. ASSUME NEW quote
      PROVE  QuotedEnd(t, i, quote) \in Nat /\ i < QuotedEnd(t, i, quote)
    <2> DEFINE Run(j) == {k \in i + 1 .. j : \A l \in k .. j : t[l] = quote}
               closing == {j \in i + 1 .. Len(t) : /\ ~Is(t, j + 1, quote)
                                                   /\ Cardinality(Run(j)) % 2 = 1}
               S == {j + 1 : j \in closing}
    <2>1. QuotedEnd(t, i, quote) = First(S, Len(t) + 1)
        BY DEF QuotedEnd
    <2>2. closing \subseteq i + 1 .. Len(t)
        OBVIOUS
    <2> HIDE DEF closing
    <2>3. S \in SUBSET Nat /\ \A n \in S : i < n
        BY <2>2
    <2> HIDE DEF S
    <2> QED BY <2>1, <2>3, FirstOf
<1>2. ASSUME t[i] # "\n"
      PROVE  LineEnd(t, i) \in Nat /\ i < LineEnd(t, i)
    <2> DEFINE S == {j \in i .. Len(t) : t[j] = "\n"}
    <2>1. S \in SUBSET Nat /\ \A n \in S : i < n
        BY <1>2
    <2>2. LineEnd(t, i) = First(S, Len(t) + 1)
        BY DEF LineEnd
    <2> HIDE DEF S
    <2> QED BY <2>1, <2>2, FirstOf
<1>3. BlockEnd(t, i) \in Nat /\ i < BlockEnd(t, i)
    <2> DEFINE stars == {k \in i + 2 .. Len(t) : t[k] = "*" /\ Is(t, k + 1, "/")}
               S == {j + 2 : j \in stars}
    <2>1. BlockEnd(t, i) = First(S, Len(t) + 1)
        BY DEF BlockEnd
    <2>2. stars \subseteq i + 2 .. Len(t)
        OBVIOUS
    <2> HIDE DEF stars
    <2>3. S \in SUBSET Nat /\ \A n \in S : i < n
        BY <2>2
    <2> HIDE DEF S
    <2> QED BY <2>1, <2>3, FirstOf
<1>4. IdentEnd(t, i + 1) \in Nat /\ i < IdentEnd(t, i + 1)
    <2> DEFINE S == {j \in i + 1 .. Len(t) : ~isIdentPart(t[j])}
    <2>1. S \in SUBSET Nat /\ \A n \in S : i < n
        OBVIOUS
    <2>2. IdentEnd(t, i + 1) = First(S, Len(t) + 1)
        BY DEF IdentEnd
    <2> HIDE DEF S
    <2> QED BY <2>1, <2>2, FirstOf
<1> QED BY <1>1, <1>2, <1>3, <1>4

LEMMA NextAdvances ==
    ASSUME NEW t, Len(t) \in Nat, NEW i \in 1 .. Len(t), NEW s, NEW d,
           ~OpensDollar(t, i, s, d), ~OpensOracle(t, i, d)
    PROVE  NextPos(t, i, s, d) \in Nat /\ NextPos(t, i, s, d) > i
<1> DEFINE n == NextPos(t, i, s, d)
           line == LineEnd(t, i)
           rest == Min({line + 1, Len(t) + 1})
           newline == t[i] = "\n"
<1>1. \/ \E quote : n = QuotedEnd(t, i, quote)
      \/ ~newline /\ (n = line \/ n = rest)
      \/ n = BlockEnd(t, i) \/ n = IdentEnd(t, i + 1)
      \/ n = i + 2 \/ n = i + 1
    <2> DEFINE c == t[i]
    <2>1. CASE d = "mysql" /\ c = "tick"
        BY <2>1 DEF NextPos, OpensDollar, OpensOracle, IsCast, IsParam, DelimitedEnd
    <2>2. CASE d = "sqlserver" /\ c = "["
        BY <2>2 DEF NextPos, OpensDollar, OpensOracle, IsCast, IsParam, DelimitedEnd
    <2>3. CASE c = "\""
        BY <2>3 DEF NextPos, OpensDollar, OpensOracle, IsCast, IsParam, DelimitedEnd
    <2>4. CASE d = "mysql" /\ c = "#"
        BY <2>4 DEF NextPos, OpensDollar, OpensOracle, IsCast, IsParam
    <2>5. CASE c = "'"
        BY <2>5 DEF NextPos, OpensDollar, OpensOracle, IsCast, IsParam, LiteralEnd
    <2>6. CASE c = "-" /\ Is(t, i + 1, "-")
        BY <2>6 DEF NextPos, OpensDollar, OpensOracle, IsCast, IsParam
    <2>7. CASE c = "/" /\ Is(t, i + 1, "*")
        BY <2>7 DEF NextPos, OpensDollar, OpensOracle, IsCast, IsParam
    <2>8. CASE /\ ~(d = "mysql" /\ c = "tick") /\ ~(d = "mysql" /\ c = "#")
               /\ ~(d = "sqlserver" /\ c = "[") /\ c # "\"" /\ c # "'"
               /\ ~(c = "-" /\ Is(t, i + 1, "-")) /\ ~(c = "/" /\ Is(t, i + 1, "*"))
        <3>1. CASE IsCast(t, i, s)
            BY <2>8, <3>1 DEF NextPos, OpensDollar, OpensOracle, IsCast, IsParam
        <3>2. CASE ~IsCast(t, i, s) /\ IsParam(t, i, s)
            BY <2>8, <3>2 DEF NextPos, OpensDollar, OpensOracle, IsCast, IsParam
        <3>3. CASE ~IsCast(t, i, s) /\ ~IsParam(t, i, s)
            BY <2>8, <3>3 DEF NextPos, OpensDollar, OpensOracle, IsCast, IsParam
        <3> QED BY <3>1, <3>2, <3>3
    <2> HIDE DEF n, line, rest
    <2> QED BY <2>1, <2>2, <2>3, <2>4, <2>5, <2>6, <2>7, <2>8
<1>2. \A quote : QuotedEnd(t, i, quote) \in Nat /\ i < QuotedEnd(t, i, quote)
    BY EndsAfter
<1>3. i + 1 \in Nat /\ i < i + 1 /\ i + 2 \in Nat /\ i < i + 2
    OBVIOUS
<1>4. ~newline => line \in Nat /\ i < line
    BY EndsAfter
<1>5. /\ BlockEnd(t, i) \in Nat /\ i < BlockEnd(t, i)
      /\ IdentEnd(t, i + 1) \in Nat /\ i < IdentEnd(t, i + 1)
    BY EndsAfter
<1>6. ~newline => rest \in Nat /\ i < rest
    <2> HIDE DEF line, newline
    <2>1. SUFFICES ASSUME ~newline PROVE rest \in Nat /\ i < rest
        OBVIOUS
    <2> DEFINE a == line + 1
               b == Len(t) + 1
    <2>2. a \in Int /\ b \in Int /\ i < a /\ i < b
        BY <1>4, <2>1
    <2>3. rest = Min({a, b})
        OBVIOUS
    <2> HIDE DEF a, b, rest
    <2>4. rest = IF a <= b THEN a ELSE b
        BY <2>2, <2>3, OfTwo
    <2> QED BY <2>2, <2>4
<1> HIDE DEF n, line, rest, newline
<1>7. CASE \E quote : n = QuotedEnd(t, i, quote)
    BY <1>2, <1>7 DEF n
<1>8. CASE ~newline /\ (n = line \/ n = rest)
    BY <1>4, <1>6, <1>8 DEF n
<1>9. CASE n = BlockEnd(t, i) \/ n = IdentEnd(t, i + 1)
    BY <1>5, <1>9 DEF n
<1>10. CASE n = i + 2 \/ n = i + 1
    BY <1>3, <1>10 DEF n
<1> QED BY <1>1, <1>7, <1>8, <1>9, <1>10

(* What strip scans is the text up to its last character that is no        *)
(* semicolon.                                                              *)
LEMMA TrimmedIsPrefix ==
    ASSUME NEW C, NEW t \in Seq(C)
    PROVE  /\ Trimmed(t) \in Seq(C) /\ Len(Trimmed(t)) <= Len(t)
           /\ \A i \in 1 .. Len(Trimmed(t)) : Trimmed(t)[i] = t[i]
<1> DEFINE kept == {i \in DOMAIN t : t[i] # ";"}
           S == {0} \cup kept
<1>1. Len(t) \in Nat /\ DOMAIN t = 1 .. Len(t)
    OBVIOUS
<1>2. kept \subseteq 1 .. Len(t)
    BY <1>1
<1>3. Trimmed(t) = SubSeq(t, 1, Max(S))
    BY DEF Trimmed
<1> HIDE DEF kept
<1>4. S \in SUBSET Nat /\ S # {} /\ \A n \in S : n <= Len(t)
    BY <1>1, <1>2
<1> HIDE DEF S
<1>5. \E m \in S : \A n \in S : n <= m
    BY <1>1, <1>4, LargestOf
<1>6. Max(S) \in S
    <2>1. \E m \in S : \A n \in S : m >= n
        BY <1>4, <1>5
    <2> QED BY <2>1 DEF Max
<1>7. Max(S) \in Nat /\ Max(S) <= Len(t)
    BY <1>4, <1>6
<1> HIDE DEF S
<1> QED BY <1>1, <1>3, <1>7

TextInv == \E C : text \in Seq(C)

(* Where a scanner is, while the text has no tagged quote.                 *)
PosInv == stage \in Scanners /\ NoTaggedQuote(text, dialect) => pos \in Nat \ {0}

LEMMA IterationMoves ==
    ASSUME TextInv, PosInv, stage \in Scanners, pos <= Len(Scanned), NoTaggedQuote(text, dialect)
    PROVE  LET next == NextPos(Scanned, pos, stage, Dialect) IN next \in Nat /\ next > pos
<1>1. PICK C : text \in Seq(C)
    BY DEF TextInv
<1>2. /\ Scanned \in Seq(C) /\ Len(Scanned) <= Len(text)
      /\ \A i \in 1 .. Len(Scanned) : Scanned[i] = text[i]
    BY <1>1, TrimmedIsPrefix DEF Scanned
<1> DEFINE t == Scanned
<1>3. Len(t) \in Nat /\ DOMAIN t = 1 .. Len(t) /\ DOMAIN text = 1 .. Len(text) /\ Len(text) \in Nat
    BY <1>1, <1>2
<1>4. pos \in 1 .. Len(t)
    BY <1>3 DEF PosInv
<1>5. t[pos] = text[pos] /\ (Is(t, pos + 1, "'") => Is(text, pos + 1, "'")) /\ pos \in DOMAIN text
    BY <1>2, <1>3, <1>4 DEF Is
<1>6. Dialect = dialect \/ Dialect = ""
    BY DEF Dialect
<1> HIDE DEF t
<1>7. ~OpensDollar(t, pos, stage, Dialect)
    BY <1>5 DEF OpensDollar, NoTaggedQuote
<1>8. ~OpensOracle(t, pos, Dialect)
    BY <1>5, <1>6 DEF OpensOracle, NoTaggedQuote
<1> QED BY <1>3, <1>4, <1>7, <1>8, NextAdvances DEF t

LEMMA ScanStep ==
    ASSUME TextInv, PosInv, TemplateNext \/ UNCHANGED templateVars
    PROVE  TextInv' /\ PosInv'
<1>1. UNCHANGED <<text, dialect>>
    BY DEF TemplateNext, templateVars, Iterate, MissingValue, StripPasses, StripRefuses,
           ExtractPasses, ExtractRefuses, BindEnds, EndIn, Begin
<1>2. TextInv'
    BY <1>1 DEF TextInv
<1>3. CASE Iterate
    <2>1. /\ stage \in Scanners /\ pos <= Len(Scanned) /\ UNCHANGED stage
          /\ pos' = NextPos(Scanned, pos, stage, Dialect)
        BY <1>3 DEF Iterate
    <2>2. NoTaggedQuote(text, dialect) => pos' \in Nat /\ pos' > pos /\ pos \in Nat \ {0}
        BY <2>1, IterationMoves DEF PosInv
    <2> QED BY <1>1, <1>2, <2>1, <2>2 DEF PosInv
<1>4. CASE StripPasses \/ ExtractPasses
    <2>1. pos' = 1
        BY <1>4 DEF StripPasses, ExtractPasses, Begin
    <2> QED BY <1>2, <2>1 DEF PosInv
<1>5. CASE MissingValue \/ StripRefuses \/ ExtractRefuses \/ BindEnds
    BY <1>2, <1>5 DEF MissingValue, StripRefuses, ExtractRefuses, BindEnds, EndIn, PosInv, Scanners
<1>6. CASE UNCHANGED templateVars
    BY <1>2, <1>6 DEF templateVars, PosInv
<1> QED BY <1>3, <1>4, <1>5, <1>6 DEF TemplateNext

LEMMA ScanStarts == Init => TextInv /\ PosInv
<1> SUFFICES ASSUME Init PROVE TextInv /\ PosInv
    OBVIOUS
<1>1. CASE TemplateInit
    <2>1. PICK in \in Inputs, n \in 1 .. MaxLen :
              text \in {t \in [1 .. n -> in[2]] : t[1] # "\n" /\ t[n] # "\n"}
        BY <1>1 DEF TemplateInit
    <2>2. text \in Seq(in[2])
        BY <2>1
    <2>3. pos = 1
        BY <1>1 DEF TemplateInit
    <2> QED BY <2>2, <2>3 DEF TextInv, PosInv
<1>2. CASE TemplateIdle
    <2>1. text = <<>> /\ stage \notin Scanners
        BY <1>2 DEF TemplateIdle, Scanners
    <2>2. text \in Seq({0})
        BY <2>1
    <2> QED BY <2>1, <2>2 DEF TextInv, PosInv
<1> QED BY <1>1, <1>2 DEF Init

(* On a portable text the scan of the validation and that of the connector *)
(* make the same moves and meet the same parameters.                       *)
LEMMA ScansAgree ==
    ASSUME NEW t, NEW d, Portable(t, d), NEW i \in DOMAIN t
    PROVE  /\ NextPos(t, i, "extract", d) = NextPos(t, i, "bind", "")
           /\ IsParam(t, i, "extract") <=> IsParam(t, i, "bind")
<1> DEFINE c == t[i]
<1>1. /\ c # "$" /\ ~(d = "oracle" /\ c = "q" /\ Is(t, i + 1, "'"))
      /\ d = "mysql" => c # "tick" /\ c # "#"
      /\ d = "sqlserver" => c # "["
    BY DEF Portable, NoTaggedQuote
<1>2. IsParam(t, i, "extract") <=> IsParam(t, i, "bind")
    BY DEF IsParam
<1>3. NextPos(t, i, "extract", d) = NextPos(t, i, "bind", "")
    <2> USE DEF NextPos, OpensDollar, OpensOracle, IsCast, IsParam
    <2>1. CASE c = "\"" \/ c = "'"
        BY <1>1, <2>1
    <2>2. CASE (c = "-" /\ Is(t, i + 1, "-")) \/ (c = "/" /\ Is(t, i + 1, "*"))
        BY <1>1, <2>2
    <2>3. CASE /\ c # "\"" /\ c # "'"
               /\ ~(c = "-" /\ Is(t, i + 1, "-")) /\ ~(c = "/" /\ Is(t, i + 1, "*"))
        <3>1. CASE IsCast(t, i, "bind")
            BY <1>1, <2>3, <3>1
        <3>2. CASE ~IsCast(t, i, "bind") /\ IsParam(t, i, "bind")
            BY <1>1, <2>3, <3>2
        <3>3. CASE ~IsCast(t, i, "bind") /\ ~IsParam(t, i, "bind")
            BY <1>1, <2>3, <3>3
        <3> QED BY <3>1, <3>2, <3>3
    <2> QED BY <2>1, <2>2, <2>3
<1> QED BY <1>2, <1>3

(* A set of positions in which the connector's scan stays, and that has    *)
(* only parameters that are given.  While the validation scans, the set    *)
(* need not yet say where the scan goes from its present position.         *)
Follows(i, S, given) ==
    i <= Len(text) =>
        /\ NextPos(text, i, "bind", "") \in S
        /\ IsParam(text, i, "bind") => SubSeq(text, i + 1, NextPos(text, i, "bind", "") - 1) \in given

ExtractInv ==
    stage = "extract" /\ Portable(text, dialect) =>
        \E S \in SUBSET (Nat \ {0}) :
            1 \in S /\ pos \in S /\ \A i \in S \ {pos} : Follows(i, S, Range(names))

BindInv ==
    stage = "bind" /\ Portable(text, dialect) =>
        \E S \in SUBSET (Nat \ {0}) : pos \in S /\ \A i \in S : Follows(i, S, declared)

NamesInv == \E T : names \in Seq(T)

PortableInv ==
    /\ TextInv /\ PosInv /\ NamesInv
    /\ ExtractInv /\ BindInv /\ PublishedPortableBinds

(* What an iteration does on a portable text.                              *)
LEMMA PortableIteration ==
    ASSUME PortableInv, Iterate, stage \in {"extract", "bind"}, Portable(text, dialect)
    PROVE  /\ pos \in DOMAIN text /\ pos' = NextPos(text, pos, "bind", "") /\ pos' \in Nat \ {0}
           /\ pos' # pos
           /\ UNCHANGED <<stage, text, dialect, declared>>
           /\ stage = "extract" =>
                 names' = IF IsParam(text, pos, "bind")
                                /\ SubSeq(text, pos + 1, pos' - 1) \notin Range(names)
                          THEN Append(names, SubSeq(text, pos + 1, pos' - 1)) ELSE names
<1>1. Scanned = text /\ stage \in Scanners
    BY DEF Scanned, Scanners
<1>2. /\ pos' = NextPos(text, pos, stage, Dialect) /\ pos <= Len(text)
      /\ UNCHANGED <<stage, text, dialect, declared>>
    BY <1>1 DEF Iterate
<1>3. NoTaggedQuote(text, dialect)
    BY DEF Portable
<1>4. pos \in Nat \ {0} /\ pos' \in Nat /\ pos' > pos
    BY <1>1, <1>2, <1>3, IterationMoves DEF PortableInv, PosInv
<1>5. PICK C : text \in Seq(C)
    BY DEF PortableInv, TextInv
<1>6. pos \in DOMAIN text
    BY <1>2, <1>4, <1>5
<1>7. pos' = NextPos(text, pos, "bind", "")
    <2>1. CASE stage = "extract"
        BY <1>2, <1>6, <2>1, ScansAgree DEF Dialect
    <2>2. CASE stage = "bind"
        BY <1>2, <2>2 DEF Dialect
    <2> QED BY <2>1, <2>2
<1>8. ASSUME stage = "extract"
      PROVE  names' = IF IsParam(text, pos, "bind")
                            /\ SubSeq(text, pos + 1, pos' - 1) \notin Range(names)
                      THEN Append(names, SubSeq(text, pos + 1, pos' - 1)) ELSE names
    <2>1. IsParam(text, pos, "extract") <=> IsParam(text, pos, "bind")
        BY <1>6, ScansAgree
    <2>2. names' = IF IsParam(text, pos, "extract")
                          /\ SubSeq(text, pos + 1, pos' - 1) \notin Range(names)
                   THEN Append(names, SubSeq(text, pos + 1, pos' - 1)) ELSE names
        BY <1>1, <1>2, <1>8 DEF Iterate
    <2> QED BY <2>1, <2>2
<1>9. pos' \in Nat \ {0} /\ pos' # pos
    BY <1>4
<1> QED BY <1>2, <1>6, <1>7, <1>8, <1>9, Zenon

LEMMA RangeGrows ==
    ASSUME NEW T, NEW s \in Seq(T), NEW x
    PROVE  Append(s, x) \in Seq(T \cup {x}) /\ Range(Append(s, x)) = Range(s) \cup {x}
<1>1. s \in Seq(T \cup {x}) /\ Append(s, x) \in Seq(T \cup {x})
    OBVIOUS
<1>2. /\ Len(s) \in Nat /\ DOMAIN s = 1 .. Len(s) /\ DOMAIN Append(s, x) = 1 .. Len(s) + 1
      /\ \A k \in 1 .. Len(s) : Append(s, x)[k] = s[k]
      /\ Append(s, x)[Len(s) + 1] = x
    BY <1>1
<1>3. 1 .. Len(s) + 1 = 1 .. Len(s) \cup {Len(s) + 1}
    BY <1>2
<1> DEFINE a == Append(s, x)
<1> HIDE DEF a
<1>4. Range(a) = {a[k] : k \in 1 .. Len(s) \cup {Len(s) + 1}}
    BY <1>2, <1>3 DEF Range, a
<1>5. (\A k \in 1 .. Len(s) : a[k] = s[k]) /\ a[Len(s) + 1] = x
    BY <1>2 DEF a
<1>6. Range(s) = {s[k] : k \in 1 .. Len(s)}
    BY <1>2 DEF Range
<1>7. Range(a) = Range(s) \cup {x}
    BY <1>4, <1>5, <1>6
<1> QED BY <1>1, <1>7 DEF a

LEMMA PortableStep ==
    ASSUME PortableInv, TemplateNext \/ UNCHANGED templateVars
    PROVE  PortableInv'
<1>1. TextInv' /\ PosInv' /\ UNCHANGED <<text, dialect>>
    <2>1. UNCHANGED <<text, dialect>>
        BY DEF TemplateNext, templateVars, Iterate, MissingValue, StripPasses, StripRefuses,
               ExtractPasses, ExtractRefuses, BindEnds, EndIn, Begin
    <2> QED BY <2>1, ScanStep DEF PortableInv
<1>2. NamesInv'
    <2>1. PICK T : names \in Seq(T)
        BY DEF PortableInv, NamesInv
    <2>2. names' = names \/ names' = <<>> \/ \E x : names' = Append(names, x)
        BY DEF TemplateNext, templateVars, Iterate, MissingValue, StripPasses, StripRefuses,
               ExtractPasses, ExtractRefuses, BindEnds, EndIn, Begin
    <2>3. CASE names' = names
        BY <2>1, <2>3 DEF NamesInv
    <2>4. CASE names' = <<>>
        <3>1. <<>> \in Seq(T)
            OBVIOUS
        <3> QED BY <2>4, <3>1 DEF NamesInv
    <2>5. ASSUME NEW x, names' = Append(names, x)
          PROVE  NamesInv'
        <3>1. Append(names, x) \in Seq(T \cup {x})
            BY <2>1, RangeGrows
        <3> QED BY <2>5, <3>1 DEF NamesInv
    <2> QED BY <2>2, <2>3, <2>4, <2>5
<1>3. CASE Iterate
    <2>1. stage' = stage /\ stage \in Scanners
        BY <1>3 DEF Iterate
    <2>2. PublishedPortableBinds'
        BY <2>1 DEF PublishedPortableBinds, Scanners
    <2>3. CASE stage = "extract" /\ Portable(text, dialect)
        <3>1. /\ pos \in DOMAIN text /\ pos' = NextPos(text, pos, "bind", "") /\ pos' \in Nat \ {0}
              /\ pos' # pos
            BY <1>3, <2>3, PortableIteration
        <3> DEFINE name == SubSeq(text, pos + 1, pos' - 1)
        <3>2. names' = IF IsParam(text, pos, "bind") /\ name \notin Range(names)
                       THEN Append(names, name) ELSE names
            BY <1>3, <2>3, PortableIteration
        <3>3. /\ Range(names) \subseteq Range(names')
              /\ IsParam(text, pos, "bind") => name \in Range(names')
            <4>1. PICK T : names \in Seq(T)
                BY DEF PortableInv, NamesInv
            <4> HIDE DEF name
            <4>2. Range(Append(names, name)) = Range(names) \cup {name}
                BY <4>1, RangeGrows
            <4> QED BY <3>2, <4>2
        <3>4. PICK S \in SUBSET (Nat \ {0}) :
                  1 \in S /\ pos \in S /\ \A i \in S \ {pos} : Follows(i, S, Range(names))
            BY <2>3 DEF PortableInv, ExtractInv
        <3>5. PICK new : new = S \cup {pos'}
            OBVIOUS
        <3>6. ASSUME NEW i \in new, i # pos'
              PROVE  Follows(i, new, Range(names))'
            <4>1. CASE i = pos
                BY <1>1, <3>1, <3>3, <3>5, <4>1 DEF Follows
            <4>2. CASE i # pos
                BY <1>1, <3>3, <3>4, <3>5, <3>6, <4>2 DEF Follows
            <4> QED BY <4>1, <4>2
        <3>7. ExtractInv'
            <4>1. new \in SUBSET (Nat \ {0}) /\ 1 \in new /\ pos' \in new
                BY <3>1, <3>4, <3>5
            <4> QED BY <3>6, <4>1 DEF ExtractInv
        <3>8. BindInv'
            BY <2>1, <2>3 DEF BindInv
        <3> QED BY <1>1, <1>2, <2>2, <3>7, <3>8 DEF PortableInv
    <2>4. CASE stage = "bind" /\ Portable(text, dialect)
        <3>1. /\ pos \in DOMAIN text /\ pos' = NextPos(text, pos, "bind", "")
              /\ UNCHANGED declared
            BY <1>3, <2>4, PortableIteration
        <3>2. pos <= Len(text)
            BY <1>3, <2>4 DEF Iterate, Scanned
        <3>3. PICK S \in SUBSET (Nat \ {0}) : pos \in S /\ \A i \in S : Follows(i, S, declared)
            BY <2>4 DEF PortableInv, BindInv
        <3>4. pos' \in S
            BY <3>1, <3>2, <3>3 DEF Follows
        <3>5. \A i \in S : Follows(i, S, declared)'
            BY <1>1, <3>1, <3>3 DEF Follows
        <3>6. BindInv'
            BY <3>4, <3>5 DEF BindInv
        <3>7. ExtractInv'
            BY <2>1, <2>4 DEF ExtractInv
        <3> QED BY <1>1, <1>2, <2>2, <3>6, <3>7 DEF PortableInv
    <2>5. CASE stage = "strip" \/ ~Portable(text, dialect)
        <3>1. ExtractInv' /\ BindInv'
            BY <1>1, <2>1, <2>5 DEF ExtractInv, BindInv
        <3> QED BY <1>1, <1>2, <2>2, <3>1 DEF PortableInv
    <2> QED BY <2>1, <2>3, <2>4, <2>5 DEF Scanners
<1>4. CASE StripPasses
    <2>1. stage' = "extract" /\ pos' = 1
        BY <1>4 DEF StripPasses, Begin
    <2>2. ExtractInv'
        <3>1. {1} \in SUBSET (Nat \ {0}) /\ 1 \in {1} /\ {1} \ {1} = {}
            OBVIOUS
        <3>2. \E S \in SUBSET (Nat \ {0}) : 1 \in S /\ pos' \in S /\ S \ {pos'} = {}
            BY <2>1, <3>1
        <3> QED BY <3>2 DEF ExtractInv
    <2>3. BindInv' /\ PublishedPortableBinds'
        BY <2>1 DEF BindInv, PublishedPortableBinds
    <2> QED BY <1>1, <1>2, <2>2, <2>3 DEF PortableInv
<1>5. CASE ExtractPasses
    <2>1. /\ stage = "extract" /\ pos > Len(text) /\ stage' = "bind" /\ pos' = 1
          /\ Range(names) \subseteq declared'
        BY <1>5 DEF ExtractPasses, Begin, UsedAndDeclared
    <2>2. ASSUME Portable(text, dialect)
          PROVE  \E S \in SUBSET (Nat \ {0}) : 1 \in S /\ \A i \in S : Follows(i, S, declared)'
        <3>1. PICK S \in SUBSET (Nat \ {0}) :
                  1 \in S /\ pos \in S /\ \A i \in S \ {pos} : Follows(i, S, Range(names))
            BY <2>1, <2>2 DEF PortableInv, ExtractInv
        <3>2. PICK C : text \in Seq(C)
            BY DEF PortableInv, TextInv
        <3>3. ~(pos <= Len(text))
            BY <2>1, <3>1, <3>2
        <3>4. ASSUME NEW i \in S PROVE Follows(i, S, declared)'
            <4>1. CASE i = pos
                BY <1>1, <3>3, <4>1 DEF Follows
            <4>2. CASE i # pos
                BY <1>1, <2>1, <3>1, <4>2 DEF Follows
            <4> QED BY <4>1, <4>2
        <3> QED BY <3>1, <3>4
    <2>3. BindInv'
        BY <1>1, <2>1, <2>2 DEF BindInv
    <2>4. ExtractInv' /\ PublishedPortableBinds'
        BY <2>1 DEF ExtractInv, PublishedPortableBinds
    <2> QED BY <1>1, <1>2, <2>3, <2>4 DEF PortableInv
<1>6. CASE MissingValue
    <2>1. /\ stage = "bind" /\ pos <= Len(text) /\ IsParam(text, pos, "bind") /\ stage' = "failed"
          /\ SubSeq(text, pos + 1, NextPos(text, pos, "bind", "") - 1) \notin declared
        BY <1>6 DEF MissingValue, EndIn, Dialect
    <2>2. ~Portable(text, dialect)
        BY <2>1 DEF PortableInv, BindInv, Follows
    <2>3. ExtractInv' /\ BindInv' /\ PublishedPortableBinds'
        BY <1>1, <2>1, <2>2 DEF ExtractInv, BindInv, PublishedPortableBinds
    <2> QED BY <1>1, <1>2, <2>3 DEF PortableInv
<1>7. CASE StripRefuses \/ ExtractRefuses \/ BindEnds
    <2>1. stage' \in {"refused", "executed"}
        BY <1>7 DEF StripRefuses, ExtractRefuses, BindEnds, EndIn
    <2>2. ExtractInv' /\ BindInv' /\ PublishedPortableBinds'
        BY <2>1 DEF ExtractInv, BindInv, PublishedPortableBinds
    <2> QED BY <1>1, <1>2, <2>2 DEF PortableInv
<1>8. CASE UNCHANGED templateVars
    <2>1. ExtractInv' /\ BindInv' /\ PublishedPortableBinds'
        BY <1>8 DEF templateVars, PortableInv, ExtractInv, BindInv, PublishedPortableBinds, Follows
    <2> QED BY <1>1, <1>2, <2>1 DEF PortableInv
<1> QED BY <1>3, <1>4, <1>5, <1>6, <1>7, <1>8 DEF TemplateNext

(* A published template finds its values, whatever the text, its length    *)
(* and its dialect: the two scans, though written separately, visit the    *)
(* same positions of a portable text.                                      *)
THEOREM PublishedTheorem == Spec => []PublishedPortableBinds
<1>1. Init => PortableInv
    <2> SUFFICES ASSUME Init PROVE PortableInv
        OBVIOUS
    <2>1. TextInv /\ PosInv
        BY ScanStarts
    <2>2. names = <<>> /\ stage \in {"strip", "refused"}
        BY DEF Init, TemplateInit, TemplateIdle
    <2>3. names \in Seq({0})
        BY <2>2
    <2> QED BY <2>1, <2>2, <2>3 DEF PortableInv, NamesInv, ExtractInv, BindInv, PublishedPortableBinds
<1>2. PortableInv /\ [Next]_vars => PortableInv'
    BY PortableStep, Parts
<1>3. PortableInv => PublishedPortableBinds
    BY DEF PortableInv
<1> QED BY <1>1, <1>2, <1>3, PTL DEF Spec

-----------------------------------------------------------------------------
(* The placeholders of a statement.                                        *)

(* The loop over the values of a clause, unfolded: there is a sequence of  *)
(* intermediate results, each of which adds one placeholder to the last.   *)
LEMMA HoldersUnfold ==
    ASSUME NEW built, NEW base, NEW vals, Len(vals) \in Nat
    PROVE  \E after :
             /\ after = [k \in 0 .. Len(vals) |->
                            IF k = 0 THEN [map |-> built, holders |-> <<>>]
                            ELSE AddHolder(after[k - 1], base, vals[k], k - 1)]
             /\ WithHolders(built, base, vals) = after[Len(vals)]
<1> DEFINE Start == [map |-> built, holders |-> <<>>]
           Unfolds(f, n) == f = [k \in 0 .. n |->
                                   IF k = 0 THEN Start
                                   ELSE AddHolder(f[k - 1], base, vals[k], k - 1)]
           S == {n \in Nat : ~ \E f : Unfolds(f, n)}
<1>1. S = {}
    <2> SUFFICES ASSUME S # {} PROVE FALSE
        OBVIOUS
    <2>1. PICK m \in S : \A n \in S : m <= n
        <3>1. S \in SUBSET Nat
            OBVIOUS
        <3> HIDE DEF S
        <3> QED BY <3>1, Smallest
    <2>2. m # 0
        <3>1. Unfolds([k \in 0 .. 0 |-> Start], 0)
            <4> HIDE DEF Start
            <4> QED OBVIOUS
        <3> HIDE DEF Unfolds
        <3> QED BY <3>1, <2>1
    <2>3. m - 1 \in Nat /\ m - 1 \notin S
        <3> HIDE DEF S
        <3>1. m \in Nat
            BY <2>1 DEF S
        <3> QED BY <3>1, <2>1, <2>2
    <2>4. PICK f : Unfolds(f, m - 1)
        <3> HIDE DEF Unfolds
        <3> QED BY <2>3
    <2> DEFINE last == AddHolder(f[m - 1], base, vals[m], m - 1)
               g == [k \in 0 .. m |-> IF k = m THEN last ELSE f[k]]
    <2>5. Unfolds(g, m)
        <3> HIDE DEF Start
        <3>1. ASSUME NEW k \in 0 .. m
              PROVE  g[k] = IF k = 0 THEN Start ELSE AddHolder(g[k - 1], base, vals[k], k - 1)
            <4>1. CASE k = m
                BY <4>1, <2>2, <2>3
            <4>2. CASE k # m
                <5>1. k \in 0 .. m - 1 /\ g[k] = f[k] /\ (k # 0 => g[k - 1] = f[k - 1])
                    BY <4>2, <2>3
                <5>2. f[k] = IF k = 0 THEN Start ELSE AddHolder(f[k - 1], base, vals[k], k - 1)
                    BY <5>1, <2>4
                <5> QED BY <5>1, <5>2
            <4> QED BY <4>1, <4>2
        <3>2. g = [k \in 0 .. m |-> g[k]]
            OBVIOUS
        <3> HIDE DEF g
        <3> QED BY <3>1, <3>2
    <2> HIDE DEF Unfolds
    <2> QED BY <2>1, <2>5
<1>2. PICK f : Unfolds(f, Len(vals))
    <2> HIDE DEF Unfolds
    <2> QED BY <1>1
<1> DEFINE after == CHOOSE after : Unfolds(after, Len(vals))
<1>3. Unfolds(after, Len(vals))
    <2> HIDE DEF Unfolds
    <2> QED BY <1>2
<1>4. WithHolders(built, base, vals) = after[Len(vals)]
    BY DEF WithHolders
<1> QED BY <1>3, <1>4

(* The prefixes of placeholders, and what their numbers keep to: the       *)
(* number of a placeholder is less than the number of those that share its *)
(* prefix.                                                                 *)
Bases == UNION {{sanitizeName(l[i].name) : i \in DOMAIN l} : l \in FilterLists}
Numbered(K) ==
    \A base \in Bases, n \in Nat :
        Append(base, Numeral(n)) \in K => n < Cardinality(paramsForPrefix(K, base))

LEMMA BasesAreNames ==
    ASSUME NEW base \in Bases
    PROVE  base \in Seq({base[j] : j \in DOMAIN base})
<1>1. PICK l \in FilterLists : \E i \in DOMAIN l : base = l[i].name.words
    BY DEF Bases, sanitizeName
<1> QED BY <1>1, FiltersAssumption

LEMMA KeysDiffer ==
    ASSUME NEW base \in Bases, NEW other \in Bases, NEW m, NEW n,
           Append(base, Numeral(m)) = Append(other, Numeral(n))
    PROVE  base = other /\ m = n
<1> DEFINE W == {base[j] : j \in DOMAIN base} \cup {other[j] : j \in DOMAIN other}
                  \cup {Numeral(m), Numeral(n)}
<1>1. base \in Seq(W) /\ other \in Seq(W) /\ Numeral(m) \in W /\ Numeral(n) \in W
    <2>1. base \in Seq({base[j] : j \in DOMAIN base}) /\ other \in Seq({other[j] : j \in DOMAIN other})
        BY BasesAreNames
    <2>2. \A s, A, B : s \in Seq(A) /\ A \subseteq B => s \in Seq(B)
        OBVIOUS
    <2> HIDE DEF Bases
    <2> QED BY <2>1, <2>2
<1> HIDE DEF W
<1> DEFINE x == Numeral(m)
           y == Numeral(n)
<1>2. base = other /\ x = y
    <2> HIDE DEF x, y
    <2>0. x \in W /\ y \in W /\ Append(base, x) = Append(other, y)
        BY <1>1 DEF x, y
    <2>1. Len(base) = Len(other)
        BY <1>1, <2>0
    <2>2. Append(base, x)[Len(base) + 1] = x /\ Append(other, y)[Len(other) + 1] = y
        BY <1>1, <2>0
    <2>3. \A j \in 1 .. Len(base) : Append(base, x)[j] = base[j] /\ Append(other, y)[j] = other[j]
        BY <1>1, <2>0, <2>1
    <2> QED BY <1>1, <2>0, <2>1, <2>2, <2>3
<1>3. x[2] = m /\ y[2] = n
    BY DEF Numeral
<1> QED BY <1>2, <1>3

(* A new placeholder is none of those there are.                           *)
LEMMA NewKey ==
    ASSUME NEW K, IsFiniteSet(K), Numbered(K), NEW base \in Bases, NEW key,
           key = Append(base, Numeral(Cardinality(paramsForPrefix(K, base))))
    PROVE  key \notin K /\ IsFiniteSet(K \cup {key}) /\ Numbered(K \cup {key})
<1> DEFINE P(X, s) == paramsForPrefix(X, s)
           c == Cardinality(P(K, base))
<1>1. \A s : P(K, s) \subseteq K /\ IsFiniteSet(P(K, s)) /\ Cardinality(P(K, s)) \in Nat
    <2>1. \A s : P(K, s) \subseteq K
        BY DEF paramsForPrefix
    <2> HIDE DEF P
    <2> QED BY <2>1, FS_Subset, FS_CardinalityType
<1>2. key \notin K
    <2> SUFFICES ASSUME key \in K PROVE FALSE
        OBVIOUS
    <2>1. c < c
        BY <1>1 DEF Numbered
    <2> QED BY <2>1, <1>1
<1>3. IsFiniteSet(K \cup {key})
    BY FS_AddElement
<1>4. ASSUME NEW s
      PROVE  /\ IsFiniteSet(P(K \cup {key}, s)) /\ Cardinality(P(K \cup {key}, s)) \in Nat
             /\ Cardinality(P(K, s)) <= Cardinality(P(K \cup {key}, s))
    <2>1. P(K, s) \subseteq P(K \cup {key}, s) /\ P(K \cup {key}, s) \subseteq K \cup {key}
        BY DEF paramsForPrefix
    <2> HIDE DEF P
    <2> QED BY <2>1, <1>3, FS_Subset, FS_CardinalityType
<1>5. Cardinality(P(K \cup {key}, base)) = c + 1
    <2>1. Len(key) > Len(base) /\ SubSeq(key, 1, Len(base)) = base
        <3> DEFINE W == {base[j] : j \in DOMAIN base} \cup {Numeral(c)}
        <3>1. base \in Seq(W) /\ Numeral(c) \in W /\ key = Append(base, Numeral(c))
            <4>1. base \in Seq({base[j] : j \in DOMAIN base})
                BY BasesAreNames
            <4>2. \A t, A, B : t \in Seq(A) /\ A \subseteq B => t \in Seq(B)
                OBVIOUS
            <4> QED BY <4>1, <4>2
        <3> HIDE DEF W, c
        <3> DEFINE x == Numeral(c)
        <3>2. x \in W /\ key = Append(base, x)
            BY <3>1
        <3> HIDE DEF x
        <3> QED BY <3>1, <3>2
    <2>2. P(K \cup {key}, base) = P(K, base) \cup {key}
        BY <2>1 DEF paramsForPrefix
    <2>3. key \notin P(K, base)
        BY <1>1, <1>2
    <2>4. IsFiniteSet(P(K, base)) /\ Cardinality(P(K, base)) \in Nat
        BY <1>1
    <2> HIDE DEF P
    <2>5. Cardinality(P(K, base) \cup {key}) = Cardinality(P(K, base)) + 1
        BY <2>3, <2>4, FS_AddElement
    <2> QED BY <2>2, <2>5
<1>6. ASSUME NEW s \in Bases, NEW n \in Nat, Append(s, Numeral(n)) \in K \cup {key}
      PROVE  n < Cardinality(P(K \cup {key}, s))
    <2>1. CASE Append(s, Numeral(n)) \in K
        <3>1. n < Cardinality(P(K, s))
            BY <2>1 DEF Numbered
        <3>2. /\ Cardinality(P(K, s)) \in Nat /\ Cardinality(P(K \cup {key}, s)) \in Nat
              /\ Cardinality(P(K, s)) <= Cardinality(P(K \cup {key}, s))
            BY <1>1, <1>4
        <3> HIDE DEF P
        <3> QED BY <3>1, <3>2
    <2>2. CASE Append(s, Numeral(n)) = key
        <3>1. s = base /\ n = c
            BY <2>2, KeysDiffer
        <3> QED BY <3>1, <1>5, <1>1
    <2> QED BY <1>6, <2>1, <2>2
<1> QED BY <1>2, <1>3, <1>6 DEF Numbered

(* What a list of placeholders and the values bound so far keep to.        *)
Keeps(holders, vals, map) ==
    \A k \in DOMAIN holders : holders[k] \in DOMAIN map /\ map[holders[k]] = vals[k]
Extends(map, built) == \A x \in DOMAIN built : x \in DOMAIN map /\ map[x] = built[x]
Numbers(map) == IsFiniteSet(DOMAIN map) /\ Numbered(DOMAIN map)

(* b is what k values have made of built.                                  *)
Progress(b, built, vals, k) ==
    /\ Numbers(b.map) /\ Extends(b.map, built)
    /\ b.holders \in Seq(DOMAIN b.map) /\ Len(b.holders) = k
    /\ Keeps(b.holders, vals, b.map)

LEMMA AddHolderKeeps ==
    ASSUME NEW base \in Bases, NEW k \in Nat, NEW vals, NEW built, NEW b,
           Progress(b, built, vals, k)
    PROVE  Progress(AddHolder(b, base, vals[k + 1], k), built, vals, k + 1)
<1> PICK h : h = AddHolder(b, base, vals[k + 1], k)
    OBVIOUS
<1> SUFFICES Progress(h, built, vals, k + 1)
    OBVIOUS
<1> USE DEF Progress
<1> DEFINE K == DOMAIN b.map
           key == Append(base, Numeral(Cardinality(paramsForPrefix(K, base))))
<1>1. key \notin K /\ IsFiniteSet(K \cup {key}) /\ Numbered(K \cup {key})
    BY NewKey DEF Numbers
<1>2. /\ h.map = [x \in K \cup {key} |-> IF x = key THEN vals[k + 1] ELSE b.map[x]]
      /\ h.holders = Append(b.holders, key)
    BY DEF AddHolder, KeyNumber
<1> HIDE DEF key
<1>3. DOMAIN h.map = K \cup {key} /\ h.map[key] = vals[k + 1]
      /\ \A x \in K : h.map[x] = b.map[x]
    BY <1>1, <1>2
<1>4. Numbers(h.map)
    BY <1>1, <1>3 DEF Numbers
<1>5. Extends(h.map, built)
    BY <1>3 DEF Extends
<1>6. h.holders \in Seq(DOMAIN h.map) /\ Len(h.holders) = k + 1 /\ DOMAIN h.holders = 1 .. k + 1
    <2>1. b.holders \in Seq(K \cup {key})
        OBVIOUS
    <2>2. Append(b.holders, key) \in Seq(K \cup {key}) /\ Len(Append(b.holders, key)) = k + 1
        BY <2>1
    <2> QED BY <2>2, <1>2, <1>3
<1>7. ASSUME NEW j \in DOMAIN h.holders
      PROVE  h.holders[j] \in DOMAIN h.map /\ h.map[h.holders[j]] = vals[j]
    <2>1. CASE j = k + 1
        <3>1. h.holders[j] = key
            BY <2>1, <1>2
        <3> QED BY <3>1, <2>1, <1>3
    <2>2. CASE j # k + 1
        <3>1. j \in 1 .. k /\ j \in DOMAIN b.holders
            BY <2>2, <1>6
        <3>2. h.holders[j] = b.holders[j]
            BY <3>1, <1>2
        <3>3. b.holders[j] \in K /\ b.map[b.holders[j]] = vals[j]
            BY <3>1 DEF Keeps
        <3> QED BY <3>2, <3>3, <1>3
    <2> QED BY <2>1, <2>2
<1> QED BY <1>4, <1>5, <1>6, <1>7 DEF Keeps

(* A clause binds its placeholders to its own values and leaves alone      *)
(* those bound before.                                                     *)
LEMMA WithHoldersKeeps ==
    ASSUME NEW built, NEW base \in Bases, NEW vals, Len(vals) \in Nat, Numbers(built),
           NEW h, h = WithHolders(built, base, vals)
    PROVE  /\ Numbers(h.map) /\ Extends(h.map, built)
           /\ Keeps(h.holders, vals, h.map)
<1> DEFINE N == Len(vals)
<1>1. PICK after :
             /\ after = [k \in 0 .. N |->
                            IF k = 0 THEN [map |-> built, holders |-> <<>>]
                            ELSE AddHolder(after[k - 1], base, vals[k], k - 1)]
             /\ h = after[N]
    BY HoldersUnfold
<1> DEFINE Good(k) == Progress(after[k], built, vals, k)
           Bad == {k \in 0 .. N : ~Good(k)}
<1> HIDE DEF N
<1>2. Good(0)
    <2>0. N \in Nat
        BY DEF N
    <2>1. after[0] = [map |-> built, holders |-> <<>>]
        BY <1>1, <2>0
    <2>2. after[0].map = built /\ after[0].holders = <<>>
        BY <2>1
    <2>3. Extends(built, built)
        BY DEF Extends
    <2>4. Keeps(<<>>, vals, built)
        BY DEF Keeps
    <2>5. <<>> \in Seq(DOMAIN built) /\ Len(<<>>) = 0
        OBVIOUS
    <2> QED BY <2>2, <2>3, <2>4, <2>5 DEF Progress
<1>3. ASSUME NEW k \in 0 .. N, k # 0, Good(k - 1)
      PROVE  Good(k)
    <2>0. k - 1 \in Nat /\ k = (k - 1) + 1 /\ N \in Nat
        BY <1>3 DEF N
    <2>1. after[k] = AddHolder(after[k - 1], base, vals[k], k - 1)
        BY <1>1, <1>3, <2>0
    <2>2. Progress(AddHolder(after[k - 1], base, vals[(k - 1) + 1], k - 1), built, vals, (k - 1) + 1)
        BY <1>3, <2>0, AddHolderKeeps
    <2> QED BY <2>0, <2>1, <2>2
<1>4. Bad = {}
    <2> SUFFICES ASSUME Bad # {} PROVE FALSE
        OBVIOUS
    <2>1. PICK m \in Bad : \A n \in Bad : m <= n
        <3>1. Bad \in SUBSET Nat
            OBVIOUS
        <3> HIDE DEF Bad
        <3> QED BY <3>1, Smallest
    <2> HIDE DEF Good
    <2>2. m # 0 /\ m - 1 \in 0 .. N /\ m - 1 \notin Bad
        BY <1>2, <2>1 DEF N
    <2>3. Good(m - 1)
        BY <2>2
    <2> QED BY <2>1, <2>2, <2>3, <1>3
<1>5. Good(N)
    <2> HIDE DEF Good
    <2> QED BY <1>4 DEF N
<1> QED BY <1>1, <1>5 DEF Progress

(* The loop over the filters, unfolded in the same way.                    *)
LEMMA WhereUnfold ==
    ASSUME NEW filters, NEW query, Len(filters) \in Nat
    PROVE  \E after :
             /\ after = [i \in 0 .. Len(filters) |->
                            IF i = 0 THEN [map |-> <<>>, clauses |-> <<>>, ok |-> TRUE]
                            ELSE AddClause(after[i - 1], filters[i], i, query[i])]
             /\ where(filters, query) = after[Len(filters)]
<1> DEFINE Start == [map |-> <<>>, clauses |-> <<>>, ok |-> TRUE]
           Unfolds(f, n) == f = [i \in 0 .. n |->
                                   IF i = 0 THEN Start
                                   ELSE AddClause(f[i - 1], filters[i], i, query[i])]
           S == {n \in Nat : ~ \E f : Unfolds(f, n)}
<1>1. S = {}
    <2> SUFFICES ASSUME S # {} PROVE FALSE
        OBVIOUS
    <2>1. PICK m \in S : \A n \in S : m <= n
        <3>1. S \in SUBSET Nat
            OBVIOUS
        <3> HIDE DEF S
        <3> QED BY <3>1, Smallest
    <2>2. m # 0
        <3>1. Unfolds([i \in 0 .. 0 |-> Start], 0)
            <4> HIDE DEF Start
            <4> QED OBVIOUS
        <3> HIDE DEF Unfolds
        <3> QED BY <3>1, <2>1
    <2>3. m - 1 \in Nat /\ m - 1 \notin S
        <3> HIDE DEF S
        <3>1. m \in Nat
            BY <2>1 DEF S
        <3> QED BY <3>1, <2>1, <2>2
    <2>4. PICK f : Unfolds(f, m - 1)
        <3> HIDE DEF Unfolds
        <3> QED BY <2>3
    <2> DEFINE last == AddClause(f[m - 1], filters[m], m, query[m])
               g == [i \in 0 .. m |-> IF i = m THEN last ELSE f[i]]
    <2>5. Unfolds(g, m)
        <3> HIDE DEF Start
        <3>1. ASSUME NEW i \in 0 .. m
              PROVE  g[i] = IF i = 0 THEN Start ELSE AddClause(g[i - 1], filters[i], i, query[i])
            <4>1. CASE i = m
                BY <4>1, <2>2, <2>3
            <4>2. CASE i # m
                <5>1. i \in 0 .. m - 1 /\ g[i] = f[i] /\ (i # 0 => g[i - 1] = f[i - 1])
                    BY <4>2, <2>3
                <5>2. f[i] = IF i = 0 THEN Start ELSE AddClause(f[i - 1], filters[i], i, query[i])
                    BY <5>1, <2>4
                <5> QED BY <5>1, <5>2
            <4> QED BY <4>1, <4>2
        <3>2. g = [i \in 0 .. m |-> g[i]]
            OBVIOUS
        <3> HIDE DEF g
        <3> QED BY <3>1, <3>2
    <2> HIDE DEF Unfolds
    <2> QED BY <2>1, <2>5
<1>2. PICK f : Unfolds(f, Len(filters))
    <2> HIDE DEF Unfolds
    <2> QED BY <1>1
<1> DEFINE after == CHOOSE after : Unfolds(after, Len(filters))
<1>3. Unfolds(after, Len(filters))
    <2> HIDE DEF Unfolds
    <2> QED BY <1>2
<1>4. where(filters, query) = after[Len(filters)]
    BY DEF where
<1> QED BY <1>3, <1>4

(* What the filters before one have made.                                  *)
Clauses(b) ==
    /\ Numbers(b.map)
    /\ b.clauses \in Seq({b.clauses[j] : j \in DOMAIN b.clauses})
    /\ \A j \in DOMAIN b.clauses : Keeps(b.clauses[j].holders, b.clauses[j].vals, b.map)

LEMMA AddClauseKeeps ==
    ASSUME NEW b, Clauses(b), NEW i, NEW f, f.name.words \in Bases, NEW v, Len(Bound(v)) \in Nat,
           b = [map |-> b.map, clauses |-> b.clauses, ok |-> b.ok],
           NEW c, c = AddClause(b, f, i, v)
    PROVE  Clauses(c) /\ c = [map |-> c.map, clauses |-> c.clauses, ok |-> c.ok]
<1> DEFINE h == WithHolders(b.map, f.name.words, Bound(v))
           new == [filter |-> i, op |-> v.op, holders |-> h.holders, vals |-> Bound(v)]
<1>1. /\ Numbers(h.map) /\ Extends(h.map, b.map) /\ Keeps(h.holders, Bound(v), h.map)
    BY WithHoldersKeeps DEF Clauses
<1>2. \/ c = b
      \/ c = [b EXCEPT !.ok = FALSE]
      \/ c = [map |-> h.map, ok |-> TRUE, clauses |-> Append(b.clauses, new)]
    BY DEF AddClause, sanitizeName
<1>3. CASE c = b
    BY <1>3
<1>4. CASE c = [b EXCEPT !.ok = FALSE]
    <2>1. c.map = b.map /\ c.clauses = b.clauses /\ c.ok = FALSE
        BY <1>4
    <2>2. c = [map |-> c.map, clauses |-> c.clauses, ok |-> c.ok]
        BY <1>4
    <2> QED BY <2>1, <2>2 DEF Clauses
<1>5. CASE c = [map |-> h.map, ok |-> TRUE, clauses |-> Append(b.clauses, new)]
    <2> DEFINE old == {b.clauses[j] : j \in DOMAIN b.clauses}
    <2>1. new.holders = h.holders /\ new.vals = Bound(v)
        OBVIOUS
    <2> HIDE DEF new, h
    <2>2. c.map = h.map /\ c.clauses = Append(b.clauses, new)
          /\ c = [map |-> c.map, clauses |-> c.clauses, ok |-> c.ok]
        BY <1>5
    <2>3. b.clauses \in Seq(old)
        BY DEF Clauses
    <2>4. /\ DOMAIN c.clauses = 1 .. Len(b.clauses) + 1 /\ Len(b.clauses) \in Nat
          /\ DOMAIN b.clauses = 1 .. Len(b.clauses)
          /\ c.clauses[Len(b.clauses) + 1] = new
          /\ \A j \in 1 .. Len(b.clauses) : c.clauses[j] = b.clauses[j]
        <3> HIDE DEF old
        <3>1. b.clauses \in Seq(old \cup {new})
            BY <2>3
        <3> QED BY <2>2, <3>1
    <2>5. c.clauses \in Seq({c.clauses[j] : j \in DOMAIN c.clauses})
        <3> DEFINE R == {c.clauses[j] : j \in DOMAIN c.clauses}
        <3>1. c.clauses \in Seq(old \cup {new})
            BY <2>2, <2>3
        <3>2. Len(c.clauses) \in Nat /\ DOMAIN c.clauses = 1 .. Len(c.clauses)
              /\ c.clauses = [j \in DOMAIN c.clauses |-> c.clauses[j]]
            BY <3>1
        <3>3. \A j \in DOMAIN c.clauses : c.clauses[j] \in R
            OBVIOUS
        <3> HIDE DEF R
        <3> QED BY <3>2, <3>3
    <2>6. ASSUME NEW j \in DOMAIN c.clauses
          PROVE  Keeps(c.clauses[j].holders, c.clauses[j].vals, c.map)
        <3>1. CASE j = Len(b.clauses) + 1
            BY <3>1, <2>1, <2>2, <2>4, <1>1
        <3>2. CASE j # Len(b.clauses) + 1
            <4>1. j \in DOMAIN b.clauses /\ c.clauses[j] = b.clauses[j]
                BY <3>2, <2>4
            <4>2. Keeps(b.clauses[j].holders, b.clauses[j].vals, b.map)
                BY <4>1 DEF Clauses
            <4> QED BY <4>1, <4>2, <2>2, <1>1 DEF Keeps, Extends
        <3> QED BY <3>1, <3>2
    <2> QED BY <2>2, <2>5, <2>6, <1>1 DEF Clauses
<1> QED BY <1>2, <1>3, <1>4, <1>5

LEMMA WhereKeeps ==
    ASSUME NEW filters \in FilterLists, NEW query,
           \A i \in DOMAIN filters : Len(Bound(query[i])) \in Nat
    PROVE  Clauses(where(filters, query))
<1> DEFINE N == Len(filters)
           Shaped(b) == b = [map |-> b.map, clauses |-> b.clauses, ok |-> b.ok]
<1>0. N \in Nat /\ DOMAIN filters = 1 .. N
    BY FiltersAssumption
<1>1. PICK after :
             /\ after = [i \in 0 .. N |->
                            IF i = 0 THEN [map |-> <<>>, clauses |-> <<>>, ok |-> TRUE]
                            ELSE AddClause(after[i - 1], filters[i], i, query[i])]
             /\ where(filters, query) = after[N]
    BY <1>0, WhereUnfold
<1> DEFINE Good(i) == Clauses(after[i]) /\ Shaped(after[i])
           Bad == {i \in 0 .. N : ~Good(i)}
<1> HIDE DEF N
<1>2. Good(0)
    <2>1. after[0] = [map |-> <<>>, clauses |-> <<>>, ok |-> TRUE]
        BY <1>0, <1>1
    <2>2. after[0].map = <<>> /\ after[0].clauses = <<>> /\ Shaped(after[0])
        BY <2>1
    <2>3. DOMAIN <<>> = {} /\ IsFiniteSet({})
        BY FS_EmptySet
    <2>4. Numbers(<<>>)
        BY <2>3 DEF Numbers, Numbered
    <2>5. \A T : <<>> \in Seq(T)
        OBVIOUS
    <2> HIDE DEF Shaped
    <2> QED BY <2>2, <2>3, <2>4, <2>5 DEF Clauses
<1>3. ASSUME NEW i \in 0 .. N, i # 0, Good(i - 1)
      PROVE  Good(i)
    <2>0. i \in DOMAIN filters
        BY <1>0, <1>3
    <2>1. after[i] = AddClause(after[i - 1], filters[i], i, query[i]) /\ i \in DOMAIN filters
        BY <1>1, <1>3, <2>0
    <2>2. filters[i].name.words \in Bases
        BY <2>1 DEF Bases, sanitizeName
    <2>3. Len(Bound(query[i])) \in Nat
        BY <2>1
    <2> QED BY <1>3, <2>1, <2>2, <2>3, AddClauseKeeps
<1>4. Bad = {}
    <2> SUFFICES ASSUME Bad # {} PROVE FALSE
        OBVIOUS
    <2>1. PICK m \in Bad : \A n \in Bad : m <= n
        <3>1. Bad \in SUBSET Nat
            OBVIOUS
        <3> HIDE DEF Bad
        <3> QED BY <3>1, Smallest
    <2> HIDE DEF Good
    <2>2. m # 0 /\ m - 1 \in 0 .. N /\ m - 1 \notin Bad
        BY <1>0, <1>2, <2>1
    <2>3. Good(m - 1)
        BY <2>2
    <2> QED BY <2>1, <2>2, <2>3, <1>3
<1>5. Good(N)
    <2> HIDE DEF Good
    <2> QED BY <1>0, <1>4
<1> QED BY <1>1, <1>5

(* Until the statement is built there are no conditions.                   *)
HoldersInv ==
    /\ HoldersKeepValues
    /\ step \in {"match", "resolve", "build"} => clauses = <<>>

LEMMA BuildKeeps == ASSUME Build, HoldersInv PROVE HoldersInv'
<1> DEFINE Stops == step' = "refused" /\ UNCHANGED <<params, clauses>>
<1>0. \E f \in FilterLists : \E q \in Queries(f) : Built(where(f, q)) \/ Stops
    BY DEF Build
<1>1. CASE Stops
    BY <1>1 DEF HoldersInv, HoldersKeepValues
<1>2. CASE ~Stops
    <2>0. PICK filters \in FilterLists : \E query \in Queries(filters) : Built(where(filters, query))
        <3> HIDE DEF Stops
        <3> QED BY <1>0, <1>2
    <2>1. PICK query \in Queries(filters) : Built(where(filters, query))
        BY <2>0
    <2> DEFINE b == where(filters, query)
    <2>2. ASSUME NEW i \in DOMAIN filters PROVE Len(Bound(query[i])) \in Nat
        <3>1. query[i] \in FilterValues(i)
            BY <2>1 DEF Queries
        <3>2. query[i].parts \in {<<>>, <<<<i, 1>>>>, <<<<i, 1>>, <<i, 2>>>>}
            BY <3>1 DEF FilterValues
        <3>3. Bound(query[i]) \in {<<>>, <<<<i, 1>>>>, <<<<i, 1>>, <<i, 2>>>>}
            BY <3>2 DEF Bound
        <3> QED BY <3>3
    <2>3. Clauses(b)
        BY <2>2, WhereKeeps
    <2>4. /\ step' = "built" /\ clauses' = b.clauses
          /\ \A k \in DOMAIN b.map : k \in DOMAIN params' /\ params'[k] = b.map[k]
        BY <2>1 DEF Built
    <2> HIDE DEF b
    <2>5. HoldersKeepValues'
        BY <2>3, <2>4 DEF HoldersKeepValues, Clauses, Keeps, Range
    <2> QED BY <2>4, <2>5 DEF HoldersInv
<1> QED BY <1>1, <1>2

LEMMA HoldersInit == Init => HoldersInv
BY DEF Init, ShapeInit, ShapeIdle, HoldersInv, HoldersKeepValues, Range

LEMMA HoldersStep == HoldersInv /\ [Next]_vars => HoldersInv'
<1> SUFFICES ASSUME HoldersInv, [Next]_vars PROVE HoldersInv'
    OBVIOUS
<1>0. (clauses' = <<>>) => HoldersInv'
    BY DEF HoldersInv, HoldersKeepValues, Range
<1>1. ShapeNext \/ UNCHANGED shapeVars
    BY Parts
<1>2. CASE MatchNext \/ MatchEnds \/ Resolve
    BY <1>0, <1>2 DEF HoldersInv, MatchNext, MatchEnds, Resolve
<1>3. CASE BuildTemplate \/ Hand
    BY <1>0, <1>3 DEF BuildTemplate, Hand
<1>4. CASE Build
    BY <1>4, BuildKeeps
<1>5. CASE Page
    BY <1>5 DEF Page, HoldersInv, HoldersKeepValues
<1>6. CASE UNCHANGED shapeVars
    BY <1>6 DEF shapeVars, HoldersInv, HoldersKeepValues
<1> QED BY <1>1, <1>2, <1>3, <1>4, <1>5, <1>6 DEF ShapeNext

(* Every placeholder of a statement is bound to the value its condition    *)
(* was given, however many filters there are, whatever they are called and *)
(* however many placeholders they share a prefix with.                     *)
THEOREM HoldersTheorem == Spec => []HoldersKeepValues
<1>1. HoldersInv => HoldersKeepValues
    BY DEF HoldersInv
<1> QED BY <1>1, HoldersInit, HoldersStep, PTL DEF Spec

-----------------------------------------------------------------------------
(* The scanners and the automaton.                                         *)

(* Induction from a to b, for membership of a set.                         *)
LEMMA Climb ==
    ASSUME NEW a \in Nat, NEW b \in Int, NEW G, a <= b => a \in G,
           \A k \in a + 1 .. b : k - 1 \in G => k \in G
    PROVE  \A k \in a .. b : k \in G
<1> DEFINE Bad == {k \in a .. b : k \notin G}
<1> SUFFICES ASSUME Bad # {} PROVE FALSE
    OBVIOUS
<1>1. PICK m \in Bad : \A n \in Bad : m <= n
    <2>1. Bad \in SUBSET Nat
        OBVIOUS
    <2> HIDE DEF Bad
    <2> QED BY <2>1, Smallest
<1>2. m \in a .. b /\ m \notin G /\ m # a
    BY <1>1
<1>3. m - 1 \in a .. b /\ m - 1 \notin Bad /\ m \in a + 1 .. b
    <2>1. m - 1 \in a .. b /\ m \in a + 1 .. b /\ m \in Int
        BY <1>2
    <2> HIDE DEF Bad
    <2> QED BY <1>1, <2>1
<1>4. m - 1 \in G
    BY <1>3
<1> QED BY <1>2, <1>3, <1>4

LEMMA FirstIs ==
    ASSUME NEW S \in SUBSET Nat, NEW default
    PROVE  /\ S = {} => First(S, default) = default
           /\ S # {} => First(S, default) \in S
           /\ \A n \in S : First(S, default) <= n
<1>1. CASE S = {}
    BY <1>1 DEF First
<1>2. CASE S # {}
    <2>1. \E m \in S : \A n \in S : m <= n
        BY <1>2, Smallest
    <2>2. Min(S) \in S /\ \A n \in S : Min(S) <= n
        BY <2>1 DEF Min
    <2> QED BY <1>2, <2>2 DEF First
<1> QED BY <1>1, <1>2

(* The members of P that follow one another up to j, from low on.          *)
RunTo(P, low, j) == {k \in low .. j : \A l \in k .. j : l \in P}

LEMMA RunGrows ==
    ASSUME NEW P, NEW low \in Nat, NEW j \in Nat
    PROVE  /\ IsFiniteSet(RunTo(P, low, j)) /\ Cardinality(RunTo(P, low, j)) \in Nat
           /\ j < low => Cardinality(RunTo(P, low, j)) = 0
           /\ j >= low /\ j \notin P => Cardinality(RunTo(P, low, j)) = 0
           /\ j >= low /\ j \in P /\ j - 1 \in Nat
                 => Cardinality(RunTo(P, low, j)) = Cardinality(RunTo(P, low, j - 1)) + 1
<1>1. ASSUME NEW n \in Nat
      PROVE  IsFiniteSet(RunTo(P, low, n)) /\ Cardinality(RunTo(P, low, n)) \in Nat
    <2>1. IsFiniteSet(low .. n)
        BY FS_Interval
    <2>2. RunTo(P, low, n) \subseteq low .. n
        BY DEF RunTo
    <2> QED BY <2>1, <2>2, FS_Subset, FS_CardinalityType
<1>2. ASSUME j < low \/ (j >= low /\ j \notin P)
      PROVE  Cardinality(RunTo(P, low, j)) = 0
    <2>1. RunTo(P, low, j) = {}
        BY <1>2 DEF RunTo
    <2> QED BY <2>1, FS_EmptySet
<1>3. ASSUME j >= low, j \in P, j - 1 \in Nat
      PROVE  Cardinality(RunTo(P, low, j)) = Cardinality(RunTo(P, low, j - 1)) + 1
    <2>1. RunTo(P, low, j) = RunTo(P, low, j - 1) \cup {j}
        <3>1. ASSUME NEW k \in RunTo(P, low, j) PROVE k \in RunTo(P, low, j - 1) \cup {j}
            BY <1>3 DEF RunTo
        <3>2. ASSUME NEW k \in RunTo(P, low, j - 1) PROVE k \in RunTo(P, low, j)
            <4>1. k \in low .. j - 1 /\ \A l \in k .. j - 1 : l \in P
                BY DEF RunTo
            <4>2. \A l \in k .. j : l \in k .. j - 1 \/ l = j
                BY <4>1
            <4>3. k \in low .. j
                BY <4>1
            <4> QED BY <1>3, <4>1, <4>2, <4>3 DEF RunTo
        <3>3. j \in RunTo(P, low, j)
            <4>1. j .. j = {j} /\ j \in low .. j
                BY <1>3
            <4> QED BY <1>3, <4>1 DEF RunTo
        <3> QED BY <3>1, <3>2, <3>3
    <2>2. j \notin RunTo(P, low, j - 1)
        BY DEF RunTo
    <2>3. IsFiniteSet(RunTo(P, low, j - 1))
        BY <1>1, <1>3
    <2>4. Cardinality(RunTo(P, low, j - 1) \cup {j}) = Cardinality(RunTo(P, low, j - 1)) + 1
        BY <2>2, <2>3, FS_AddElement
    <2> QED BY <2>1, <2>4
<1> QED BY <1>1, <1>2, <1>3

(* The automaton reads every character once.                               *)
LEMMA ModeUnfold ==
    ASSUME NEW t, NEW d, Len(t) \in Nat
    PROVE  /\ Mode(t, d)[0] = "code"
           /\ \A k \in 1 .. Len(t) : Mode(t, d)[k] = ModeAfter(Mode(t, d)[k - 1], t, k, d)
<1> DEFINE Unfolds(f, n) == f = [k \in 0 .. n |->
                                   IF k = 0 THEN "code" ELSE ModeAfter(f[k - 1], t, k, d)]
           S == {n \in Nat : ~ \E f : Unfolds(f, n)}
<1>1. S = {}
    <2> SUFFICES ASSUME S # {} PROVE FALSE
        OBVIOUS
    <2>1. PICK m \in S : \A n \in S : m <= n
        <3>1. S \in SUBSET Nat
            OBVIOUS
        <3> HIDE DEF S
        <3> QED BY <3>1, Smallest
    <2>2. m # 0
        <3>1. Unfolds([k \in 0 .. 0 |-> "code"], 0)
            OBVIOUS
        <3> HIDE DEF Unfolds
        <3> QED BY <3>1, <2>1
    <2>3. m - 1 \in Nat /\ m - 1 \notin S
        <3> HIDE DEF S
        <3>1. m \in Nat
            BY <2>1 DEF S
        <3> QED BY <3>1, <2>1, <2>2
    <2>4. PICK f : Unfolds(f, m - 1)
        <3> HIDE DEF Unfolds
        <3> QED BY <2>3
    <2> DEFINE last == ModeAfter(f[m - 1], t, m, d)
               g == [k \in 0 .. m |-> IF k = m THEN last ELSE f[k]]
    <2>5. Unfolds(g, m)
        <3>1. ASSUME NEW k \in 0 .. m
              PROVE  g[k] = IF k = 0 THEN "code" ELSE ModeAfter(g[k - 1], t, k, d)
            <4>1. CASE k = m
                BY <4>1, <2>2, <2>3
            <4>2. CASE k # m
                <5>1. k \in 0 .. m - 1 /\ g[k] = f[k] /\ (k # 0 => g[k - 1] = f[k - 1])
                    BY <4>2, <2>3
                <5>2. f[k] = IF k = 0 THEN "code" ELSE ModeAfter(f[k - 1], t, k, d)
                    BY <5>1, <2>4
                <5> QED BY <5>1, <5>2
            <4> QED BY <4>1, <4>2
        <3>2. g = [k \in 0 .. m |-> g[k]]
            OBVIOUS
        <3> HIDE DEF g
        <3> QED BY <3>1, <3>2
    <2> HIDE DEF Unfolds
    <2> QED BY <2>1, <2>5
<1>2. PICK f : Unfolds(f, Len(t))
    <2> HIDE DEF Unfolds
    <2> QED BY <1>1
<1> DEFINE mode == CHOOSE mode : Unfolds(mode, Len(t))
<1>3. Unfolds(mode, Len(t))
    <2> HIDE DEF Unfolds
    <2> QED BY <1>2
<1>4. Mode(t, d) = mode
    BY DEF Mode
<1> HIDE DEF mode
<1>5. mode[0] = "code" /\ \A k \in 1 .. Len(t) : mode[k] = ModeAfter(mode[k - 1], t, k, d)
    BY <1>3
<1> QED BY <1>4, <1>5

(* What opens a quote or a comment in code.                                *)
Plain(t, k, d) ==
    /\ t[k] \notin Quotes(d) /\ ~(t[k] = "[" /\ d = "sqlserver") /\ ~(t[k] = "#" /\ d = "mysql")
    /\ ~(t[k] = "-" /\ Is(t, k + 1, "-")) /\ ~(t[k] = "/" /\ Is(t, k + 1, "*"))

LEMMA FromCode ==
    ASSUME NEW t, NEW k, NEW d
    PROVE  /\ t[k] \in Quotes(d) => ModeAfter("code", t, k, d) = t[k]
           /\ t[k] = "[" /\ d = "sqlserver" => ModeAfter("code", t, k, d) = "]"
           /\ (t[k] = "#" /\ d = "mysql") \/ (t[k] = "-" /\ Is(t, k + 1, "-"))
                 => ModeAfter("code", t, k, d) = "line"
           /\ t[k] = "/" /\ Is(t, k + 1, "*") => ModeAfter("code", t, k, d) = "open"
           /\ Plain(t, k, d) => ModeAfter("code", t, k, d) = "code"
<1> USE DEF ModeAfter, Quotes
<1>1. CASE t[k] \in Quotes(d)
    BY <1>1 DEF Plain
<1>2. CASE t[k] = "[" /\ d = "sqlserver"
    BY <1>2 DEF Plain
<1>3. CASE t[k] = "#" /\ d = "mysql"
    BY <1>3 DEF Plain
<1>4. CASE t[k] = "-" /\ Is(t, k + 1, "-")
    BY <1>4 DEF Plain
<1>5. CASE t[k] = "/" /\ Is(t, k + 1, "*")
    BY <1>5 DEF Plain
<1>6. CASE Plain(t, k, d)
    BY <1>6 DEF Plain
<1> QED BY <1>1, <1>2, <1>3, <1>4, <1>5, <1>6 DEF Plain

LEMMA FromQuote ==
    ASSUME NEW t, NEW k, NEW d, NEW q \in Quotes(d)
    PROVE  ModeAfter(q, t, k, d) = IF t[k] = q THEN "code" ELSE q
BY DEF ModeAfter, Quotes

LEMMA FromBracket ==
    ASSUME NEW t, NEW k, NEW d
    PROVE  /\ ModeAfter("]", t, k, d) = IF t[k] = "]" THEN IF Is(t, k + 1, "]") THEN "half" ELSE "code"
                                       ELSE "]"
           /\ ModeAfter("half", t, k, d) = "]"
BY DEF ModeAfter, Quotes

LEMMA FromComment ==
    ASSUME NEW t, NEW k, NEW d
    PROVE  /\ ModeAfter("line", t, k, d) = IF t[k] = "\n" THEN "code" ELSE "line"
           /\ ModeAfter("open", t, k, d) = "block"
           /\ ModeAfter("block", t, k, d) = IF t[k] = "*" THEN "star" ELSE "block"
           /\ ModeAfter("star", t, k, d) = IF t[k] = "*" THEN "star"
                                          ELSE IF t[k] = "/" THEN "code" ELSE "block"
<1> USE DEF ModeAfter, Quotes
<1>1. ModeAfter("line", t, k, d) = IF t[k] = "\n" THEN "code" ELSE "line"
    OBVIOUS
<1>2. ModeAfter("open", t, k, d) = "block"
    OBVIOUS
<1>3. ModeAfter("block", t, k, d) = IF t[k] = "*" THEN "star" ELSE "block"
    OBVIOUS
<1>4. ModeAfter("star", t, k, d) = IF t[k] = "*" THEN "star"
                                  ELSE IF t[k] = "/" THEN "code" ELSE "block"
    OBVIOUS
<1> QED BY <1>1, <1>2, <1>3, <1>4

(* Where a scanner may stand when it starts an iteration, and what it      *)
(* means that it goes on to e from i: all it passes is code, or none is.   *)
Ready(t, d, i) ==
    Mode(t, d)[i - 1] = "code" \/ (Mode(t, d)[i - 1] = "line" /\ t[i] = "\n")
Passed(t, d, i, e, taken) ==
    /\ e \in Nat /\ i < e /\ e <= Len(t) + 1
    /\ e <= Len(t) => Ready(t, d, e)
    /\ \A k \in i .. e - 1 : k \in CodePositions(t, d) <=> taken

LEMMA CodeAt ==
    ASSUME NEW t, NEW d, NEW k \in DOMAIN t
    PROVE  k \in CodePositions(t, d) <=>
              Mode(t, d)[k] = "code" /\ (Mode(t, d)[k - 1] = "code" \/ t[k] = "\n")
BY DEF CodePositions

(* The length of the run of quotes that ends at j, in the part from i on.  *)
QuoteRun(t, i, q, j) == Cardinality(RunTo({l \in 1 .. Len(t) : t[l] = q}, i + 1, j))

LEMMA QuoteRuns ==
    ASSUME NEW t, Len(t) \in Nat, NEW i \in 1 .. Len(t), NEW q
    PROVE  /\ QuoteRun(t, i, q, i) = 0
           /\ \A j \in i + 1 .. Len(t) :
                 QuoteRun(t, i, q, j) = IF t[j] = q THEN QuoteRun(t, i, q, j - 1) + 1 ELSE 0
           /\ \A j \in i .. Len(t) : QuoteRun(t, i, q, j) \in Nat
<1> DEFINE P == {l \in 1 .. Len(t) : t[l] = q}
<1>1. i \in Nat /\ i + 1 \in Nat /\ i < i + 1
    OBVIOUS
<1>2. ASSUME NEW j \in i + 1 .. Len(t)
      PROVE  QuoteRun(t, i, q, j) = IF t[j] = q THEN QuoteRun(t, i, q, j - 1) + 1 ELSE 0
    <2>1. j \in Nat /\ j >= i + 1 /\ j - 1 \in Nat /\ (j \in P <=> t[j] = q)
        OBVIOUS
    <2> HIDE DEF P
    <2>2. /\ j \notin P => Cardinality(RunTo(P, i + 1, j)) = 0
          /\ j \in P => Cardinality(RunTo(P, i + 1, j)) = Cardinality(RunTo(P, i + 1, j - 1)) + 1
        BY <1>1, <2>1, RunGrows
    <2> QED BY <2>1, <2>2 DEF QuoteRun, P
<1>3. ASSUME NEW j \in i .. Len(t)
      PROVE  QuoteRun(t, i, q, j) \in Nat
    <2>1. j \in Nat
        OBVIOUS
    <2> QED BY <1>1, <2>1, RunGrows DEF QuoteRun
<1>4. QuoteRun(t, i, q, i) = 0
    BY <1>1, RunGrows DEF QuoteRun
<1> QED BY <1>2, <1>3, <1>4

(* A quoted part ends at the first quote that no other quote follows and   *)
(* that ends a run of odd length.                                          *)
LEMMA QuotedEndIs ==
    ASSUME NEW t, Len(t) \in Nat, NEW i \in 1 .. Len(t), NEW q, NEW e, e = QuotedEnd(t, i, q)
    PROVE  /\ e \in Nat /\ i < e /\ e <= Len(t) + 1
           /\ \A j \in i + 1 .. Len(t) :
                 QuoteRun(t, i, q, j) % 2 = 1 /\ ~Is(t, j + 1, q) => e <= j + 1
           /\ e <= Len(t) => /\ e - 1 \in i + 1 .. Len(t)
                             /\ QuoteRun(t, i, q, e - 1) % 2 = 1 /\ ~Is(t, e, q)
<1> DEFINE Run(j) == {k \in i + 1 .. j : \A l \in k .. j : t[l] = q}
           P == {l \in 1 .. Len(t) : t[l] = q}
           closing == {j \in i + 1 .. Len(t) : /\ ~Is(t, j + 1, q)
                                               /\ Cardinality(Run(j)) % 2 = 1}
           S == {j + 1 : j \in closing}
<1>1. e = First(S, Len(t) + 1)
    BY DEF QuotedEnd
<1>2. ASSUME NEW j \in i + 1 .. Len(t)
      PROVE  j \in closing <=> ~Is(t, j + 1, q) /\ QuoteRun(t, i, q, j) % 2 = 1
    <2>1. Run(j) = RunTo(P, i + 1, j)
        <3>1. ASSUME NEW k \in i + 1 .. j
              PROVE  (\A l \in k .. j : t[l] = q) <=> (\A l \in k .. j : l \in P)
            <4>1. \A l \in k .. j : l \in 1 .. Len(t)
                OBVIOUS
            <4> QED BY <4>1
        <3> QED BY <3>1 DEF RunTo
    <2> HIDE DEF Run, P
    <2>2. Cardinality(Run(j)) = QuoteRun(t, i, q, j)
        BY <2>1 DEF QuoteRun, P
    <2> QED BY <2>2
<1>3. closing \subseteq i + 1 .. Len(t)
    OBVIOUS
<1> HIDE DEF closing
<1>4. S \in SUBSET Nat
    BY <1>3
<1>5. \A n \in S : n - 1 \in closing
    BY <1>3
<1>6. \A j \in closing : j + 1 \in S
    OBVIOUS
<1> HIDE DEF S
<1>7. /\ S = {} => e = Len(t) + 1
      /\ S # {} => e \in S
      /\ \A n \in S : e <= n
    <2> DEFINE end == Len(t) + 1
    <2>1. e = First(S, end)
        BY <1>1
    <2> HIDE DEF end
    <2>2. /\ S = {} => e = end
          /\ S # {} => e \in S
          /\ \A n \in S : e <= n
        BY <1>4, <2>1, FirstIs
    <2> QED BY <2>2 DEF end
<1>8. e \in Nat /\ i < e /\ e <= Len(t) + 1
    <2>1. CASE S = {}
        BY <1>7, <2>1
    <2>2. CASE S # {}
        <3>1. e - 1 \in i + 1 .. Len(t) /\ e \in Nat
            BY <1>3, <1>4, <1>5, <1>7, <2>2
        <3> QED BY <3>1
    <2> QED BY <2>1, <2>2
<1>9. ASSUME NEW j \in i + 1 .. Len(t), QuoteRun(t, i, q, j) % 2 = 1, ~Is(t, j + 1, q)
      PROVE  e <= j + 1
    BY <1>2, <1>6, <1>7, <1>9
<1>10. ASSUME e <= Len(t)
       PROVE  /\ e - 1 \in i + 1 .. Len(t)
              /\ QuoteRun(t, i, q, e - 1) % 2 = 1 /\ ~Is(t, e, q)
    <2>1. e \in S
        BY <1>7, <1>8, <1>10
    <2>2. e - 1 \in closing /\ (e - 1) + 1 = e
        BY <1>5, <1>8, <2>1
    <2>3. e - 1 \in i + 1 .. Len(t)
        BY <1>3, <2>2
    <2>4. ~Is(t, (e - 1) + 1, q) /\ QuoteRun(t, i, q, e - 1) % 2 = 1
        BY <1>2, <2>2, <2>3
    <2> QED BY <2>2, <2>3, <2>4
<1> QED BY <1>8, <1>9, <1>10

LEMMA Parity ==
    ASSUME NEW n \in Nat
    PROVE  (n % 2 = 1 <=> ~((n + 1) % 2 = 1)) /\ (n % 2 = 1 \/ n % 2 = 0)
OBVIOUS

LEMMA QuotePassed ==
    ASSUME NEW C, NEW t \in Seq(C), NEW d, NEW i \in 1 .. Len(t), Mode(t, d)[i - 1] = "code",
           t[i] \in Quotes(d)
    PROVE  Passed(t, d, i, QuotedEnd(t, i, t[i]), FALSE)
<1> DEFINE M == Mode(t, d)
           q == t[i]
           n == Len(t)
           e == QuotedEnd(t, i, q)
           R(j) == QuoteRun(t, i, q, j)
<1>1. n \in Nat /\ DOMAIN t = 1 .. n
    OBVIOUS
<1>2. /\ e \in Nat /\ i < e /\ e <= n + 1
      /\ \A j \in i + 1 .. n : R(j) % 2 = 1 /\ ~Is(t, j + 1, q) => e <= j + 1
      /\ e <= n => e - 1 \in i + 1 .. n /\ R(e - 1) % 2 = 1
    BY <1>1, QuotedEndIs
<1>3. /\ R(i) = 0
      /\ \A j \in i + 1 .. n : R(j) = IF t[j] = q THEN R(j - 1) + 1 ELSE 0
      /\ \A j \in i .. n : R(j) \in Nat
    BY <1>1, QuoteRuns
<1>4. \A k \in 1 .. n : M[k] = ModeAfter(M[k - 1], t, k, d)
    BY <1>1, ModeUnfold
<1>5. q # "code" /\ q # "\n" /\ q \in Quotes(d)
    BY DEF Quotes
<1>6. M[i] = q
    BY <1>4, FromCode
<1> DEFINE odd(j) == R(j) % 2 = 1
           G == {j \in i .. e - 1 : M[j] = IF odd(j) THEN "code" ELSE q}
<1>7. ASSUME NEW j \in i + 1 .. e - 1, M[j - 1] = IF odd(j - 1) THEN "code" ELSE q
      PROVE  /\ M[j] = IF odd(j) THEN "code" ELSE q
             /\ odd(j) => t[j] = q /\ M[j - 1] = q
    <2>1. j \in 1 .. n /\ j \in i + 1 .. n /\ j - 1 \in i .. n /\ (j - 1 # i => j - 1 \in i + 1 .. n)
        BY <1>2
    <2>2. M[j] = ModeAfter(M[j - 1], t, j, d)
        BY <1>4, <2>1
    <2>3. R(j - 1) \in Nat
        BY <1>3, <2>1
    <2>4. CASE t[j] # q
        <3>1. R(j) = 0
            BY <1>3, <2>1, <2>4
        <3>2. ~odd(j)
            BY <3>1
        <3>3. ~odd(j - 1)
            <4> SUFFICES ASSUME odd(j - 1) PROVE FALSE
                OBVIOUS
            <4>1. j - 1 # i
                BY <1>3
            <4>2. ~Is(t, (j - 1) + 1, q)
                BY <2>1, <2>4 DEF Is
            <4>3. e <= (j - 1) + 1
                BY <1>2, <2>1, <4>1, <4>2
            <4> QED BY <1>2, <4>3
        <3> QED BY <1>5, <1>7, <2>2, <2>4, <3>2, <3>3, FromQuote
    <2>5. CASE t[j] = q
        <3>1. R(j) = R(j - 1) + 1
            BY <1>3, <2>1, <2>5
        <3>2. odd(j - 1) <=> ~odd(j)
            BY <2>3, <3>1, Parity
        <3>3. CASE odd(j - 1)
            <4>1. M[j] = ModeAfter("code", t, j, d)
                BY <1>7, <2>2, <3>3
            <4>2. M[j] = q
                BY <1>5, <2>5, <4>1, FromCode
            <4> QED BY <3>2, <3>3, <4>2
        <3>4. CASE ~odd(j - 1)
            <4>1. M[j - 1] = q
                BY <1>7, <3>4
            <4>2. M[j] = "code"
                BY <1>5, <2>2, <2>5, <4>1, FromQuote
            <4> QED BY <2>5, <3>2, <3>4, <4>1, <4>2
        <3> QED BY <3>3, <3>4
    <2> QED BY <2>4, <2>5
<1>8. ~odd(i)
    BY <1>3
<1> HIDE DEF M, q, e, R, odd, n
<1>9. \A j \in i .. e - 1 : j \in G
    <2>1. i \in Nat /\ e - 1 \in Int
        BY <1>1, <1>2
    <2>2. i \in G
        BY <1>1, <1>2, <1>6, <1>8
    <2>3. \A j \in i + 1 .. e - 1 : j - 1 \in G => j \in G
        BY <1>1, <1>2, <1>7
    <2> HIDE DEF G
    <2> QED BY <2>1, <2>2, <2>3, Climb
<1>10. ASSUME NEW k \in i .. e - 1 PROVE k \notin CodePositions(t, d)
    <2>1. k \in DOMAIN t /\ (k # i => k \in i + 1 .. e - 1 /\ k - 1 \in i .. e - 1)
        BY <1>1, <1>2
    <2>2. M[k] = "code" => M[k - 1] # "code" /\ t[k] # "\n"
        <3>1. CASE k = i
            BY <1>5, <1>6, <3>1
        <3>2. CASE k # i
            BY <1>5, <1>7, <1>9, <2>1, <3>2
        <3> QED BY <3>1, <3>2
    <2> QED BY <2>1, <2>2, CodeAt DEF M
<1>11. e <= n => Ready(t, d, e)
    <2> SUFFICES ASSUME e <= n PROVE Ready(t, d, e)
        OBVIOUS
    <2>1. odd(e - 1)
        BY <1>2 DEF odd
    <2>2. e - 1 \in i .. e - 1
        BY <1>1, <1>2
    <2>3. M[e - 1] = "code"
        BY <1>9, <2>1, <2>2
    <2> QED BY <2>3 DEF Ready, M
<1> QED BY <1>1, <1>2, <1>10, <1>11 DEF Passed, n, e, q

LEMMA BracketPassed ==
    ASSUME NEW C, NEW t \in Seq(C), NEW d, NEW i \in 1 .. Len(t), Mode(t, d)[i - 1] = "code",
           t[i] = "[", d = "sqlserver"
    PROVE  Passed(t, d, i, QuotedEnd(t, i, "]"), FALSE)
<1> DEFINE M == Mode(t, d)
           n == Len(t)
           e == QuotedEnd(t, i, "]")
           R(j) == QuoteRun(t, i, "]", j)
<1>1. n \in Nat /\ DOMAIN t = 1 .. n
    OBVIOUS
<1>2. /\ e \in Nat /\ i < e /\ e <= n + 1
      /\ \A j \in i + 1 .. n : R(j) % 2 = 1 /\ ~Is(t, j + 1, "]") => e <= j + 1
      /\ e <= n => e - 1 \in i + 1 .. n /\ R(e - 1) % 2 = 1 /\ ~Is(t, e, "]")
    BY <1>1, QuotedEndIs
<1>3. /\ R(i) = 0
      /\ \A j \in i + 1 .. n : R(j) = IF t[j] = "]" THEN R(j - 1) + 1 ELSE 0
      /\ \A j \in i .. n : R(j) \in Nat
    BY <1>1, QuoteRuns
<1>4. \A k \in 1 .. n : M[k] = ModeAfter(M[k - 1], t, k, d)
    BY <1>1, ModeUnfold
<1>5. M[i] = "]"
    BY <1>4, FromCode
<1> DEFINE odd(j) == R(j) % 2 = 1
           Right(j) == M[j] = IF odd(j) THEN IF Is(t, j + 1, "]") THEN "half" ELSE "code" ELSE "]"
           G == {j \in i .. e - 1 : Right(j)}
<1>6. ASSUME NEW j \in i + 1 .. e - 1, Right(j - 1)
      PROVE  Right(j) /\ (odd(j) => t[j] = "]" /\ M[j - 1] = "]")
    <2>1. j \in 1 .. n /\ j \in i + 1 .. n /\ j - 1 \in i .. n /\ (j - 1 # i => j - 1 \in i + 1 .. n)
          /\ (j - 1) + 1 = j
        BY <1>2
    <2>2. M[j] = ModeAfter(M[j - 1], t, j, d)
        BY <1>4, <2>1
    <2>3. R(j - 1) \in Nat
        BY <1>3, <2>1
    <2>4. CASE t[j] # "]"
        <3>1. R(j) = 0
            BY <1>3, <2>1, <2>4
        <3>2. ~odd(j)
            BY <3>1
        <3>3. ~odd(j - 1)
            <4> SUFFICES ASSUME odd(j - 1) PROVE FALSE
                OBVIOUS
            <4>1. j - 1 # i
                BY <1>3
            <4>2. ~Is(t, (j - 1) + 1, "]")
                BY <2>1, <2>4 DEF Is
            <4>3. e <= (j - 1) + 1
                BY <1>2, <2>1, <4>1, <4>2
            <4> QED BY <1>2, <4>3
        <3>4. M[j - 1] = "]"
            BY <1>6, <3>3
        <3>5. M[j] = "]"
            BY <2>2, <2>4, <3>4, FromBracket
        <3> QED BY <3>2, <3>5
    <2>5. CASE t[j] = "]"
        <3>1. R(j) = R(j - 1) + 1
            BY <1>3, <2>1, <2>5
        <3>2. odd(j - 1) <=> ~odd(j)
            BY <2>3, <3>1, Parity
        <3>3. CASE odd(j - 1)
            <4>0. Is(t, (j - 1) + 1, "]")
                BY <1>1, <2>1, <2>5 DEF Is
            <4>1. M[j - 1] = "half"
                BY <1>6, <3>3, <4>0
            <4>2. M[j] = "]"
                BY <2>2, <4>1, FromBracket
            <4> QED BY <3>2, <3>3, <4>2
        <3>4. CASE ~odd(j - 1)
            <4>1. M[j - 1] = "]"
                BY <1>6, <3>4
            <4>2. M[j] = IF Is(t, j + 1, "]") THEN "half" ELSE "code"
                BY <2>2, <2>5, <4>1, FromBracket
            <4> QED BY <2>5, <3>2, <3>4, <4>1, <4>2
        <3> QED BY <3>3, <3>4
    <2> QED BY <2>4, <2>5
<1>7. ~odd(i)
    BY <1>3
<1>8. Right(i)
    BY <1>5, <1>7
<1> HIDE DEF M, e, R, odd, n
<1>9. \A j \in i .. e - 1 : Right(j)
    <2> HIDE DEF Right
    <2>1. i \in Nat /\ e - 1 \in Int
        BY <1>1, <1>2
    <2>2. i \in G
        BY <1>1, <1>2, <1>8
    <2>3. \A j \in i + 1 .. e - 1 : j - 1 \in G => j \in G
        BY <1>1, <1>2, <1>6
    <2> HIDE DEF G
    <2>4. \A j \in i .. e - 1 : j \in G
        BY <2>1, <2>2, <2>3, Climb
    <2> QED BY <2>4 DEF G
<1>10. ASSUME NEW k \in i .. e - 1 PROVE k \notin CodePositions(t, d)
    <2>1. k \in DOMAIN t /\ (k # i => k \in i + 1 .. e - 1 /\ k - 1 \in i .. e - 1)
        BY <1>1, <1>2
    <2>2. M[k] = "code" => M[k - 1] # "code" /\ t[k] # "\n"
        <3>1. CASE k = i
            BY <1>5, <3>1
        <3>2. CASE k # i
            <4>1. Right(k - 1) /\ Right(k)
                BY <1>9, <2>1, <3>2
            <4>2. odd(k) => t[k] = "]" /\ M[k - 1] = "]"
                BY <1>6, <2>1, <3>2, <4>1
            <4> QED BY <4>1, <4>2
        <3> QED BY <3>1, <3>2
    <2> QED BY <2>1, <2>2, CodeAt DEF M
<1>11. e <= n => Ready(t, d, e)
    <2> SUFFICES ASSUME e <= n PROVE Ready(t, d, e)
        OBVIOUS
    <2>1. odd(e - 1)
        BY <1>2 DEF odd
    <2>2. e - 1 \in i .. e - 1 /\ ~Is(t, (e - 1) + 1, "]")
        BY <1>1, <1>2
    <2>3. M[e - 1] = "code"
        BY <1>9, <2>1, <2>2
    <2> QED BY <2>3 DEF Ready, M
<1> QED BY <1>1, <1>2, <1>10, <1>11 DEF Passed, n, e

LEMMA LinePassed ==
    ASSUME NEW C, NEW t \in Seq(C), NEW d, NEW i \in 1 .. Len(t), Mode(t, d)[i - 1] = "code",
           (t[i] = "#" /\ d = "mysql") \/ (t[i] = "-" /\ Is(t, i + 1, "-"))
    PROVE  Passed(t, d, i, LineEnd(t, i), FALSE)
<1> DEFINE M == Mode(t, d)
           n == Len(t)
           end == n + 1
           S == {j \in i .. n : t[j] = "\n"}
           e == LineEnd(t, i)
<1>1. n \in Nat /\ DOMAIN t = 1 .. n /\ end \in Nat /\ end = n + 1
    OBVIOUS
<1>2. S \in SUBSET Nat /\ e = First(S, end)
    BY DEF LineEnd
<1>3. \A k \in 1 .. n : M[k] = ModeAfter(M[k - 1], t, k, d)
    BY <1>1, ModeUnfold
<1>4. M[i] = "line" /\ t[i] # "\n"
    BY <1>3, FromCode
<1>5. \A j \in S : j \in i .. n /\ t[j] = "\n"
    OBVIOUS
<1>6. \A j \in i .. n : t[j] = "\n" => j \in S
    OBVIOUS
<1> HIDE DEF M, S, e, n, end
<1>7. /\ S = {} => e = end
      /\ S # {} => e \in S
      /\ \A j \in S : e <= j
    BY <1>2, FirstIs
<1>8. /\ e \in Nat /\ i < e /\ e <= n + 1
      /\ e <= n => t[e] = "\n"
    <2>1. CASE S = {}
        BY <1>1, <1>7, <2>1 DEF n
    <2>2. CASE S # {}
        <3>1. e \in i .. n /\ t[e] = "\n"
            BY <1>5, <1>7, <2>2
        <3> QED BY <1>1, <1>4, <3>1
    <2> QED BY <2>1, <2>2
<1> DEFINE G == {j \in i .. e - 1 : M[j] = "line"}
<1>9. \A j \in i .. e - 1 : j \in G
    <2>1. i \in Nat /\ e - 1 \in Int /\ i \in G
        BY <1>1, <1>4, <1>8
    <2>2. ASSUME NEW j \in i + 1 .. e - 1, j - 1 \in G PROVE j \in G
        <3>1. j \in 1 .. n /\ j \in i .. n /\ j \in i .. e - 1
            BY <1>1, <1>8
        <3>2. t[j] # "\n"
            <4> SUFFICES ASSUME t[j] = "\n" PROVE FALSE
                OBVIOUS
            <4>1. e <= j
                BY <1>6, <1>7, <3>1
            <4> QED BY <1>8, <4>1
        <3>3. M[j] = ModeAfter("line", t, j, d)
            BY <1>3, <2>2, <3>1
        <3> QED BY <3>1, <3>2, <3>3, FromComment
    <2> HIDE DEF G
    <2> QED BY <2>1, <2>2, Climb
<1>10. ASSUME NEW k \in i .. e - 1 PROVE k \notin CodePositions(t, d)
    <2>1. k \in DOMAIN t
        BY <1>1, <1>8
    <2>2. M[k] = "line"
        BY <1>9
    <2> QED BY <2>1, <2>2, CodeAt DEF M
<1>11. e <= n => Ready(t, d, e)
    <2>1. e - 1 \in i .. e - 1
        BY <1>8
    <2> QED BY <1>8, <1>9, <2>1 DEF Ready, M
<1> QED BY <1>1, <1>8, <1>10, <1>11 DEF Passed, n, e

LEMMA BlockPassed ==
    ASSUME NEW C, NEW t \in Seq(C), NEW d, NEW i \in 1 .. Len(t), Mode(t, d)[i - 1] = "code",
           t[i] = "/", Is(t, i + 1, "*")
    PROVE  Passed(t, d, i, BlockEnd(t, i), FALSE)
<1> DEFINE M == Mode(t, d)
           n == Len(t)
           end == n + 1
           stars == {k \in i + 2 .. n : t[k] = "*" /\ Is(t, k + 1, "/")}
           S == {j + 2 : j \in stars}
           e == BlockEnd(t, i)
<1>1. n \in Nat /\ DOMAIN t = 1 .. n /\ end \in Nat /\ end = n + 1 /\ i + 1 \in 1 .. n
    BY DEF Is
<1>2. e = First(S, end)
    BY DEF BlockEnd
<1>3. \A k \in 1 .. n : M[k] = ModeAfter(M[k - 1], t, k, d)
    BY <1>1, ModeUnfold
<1>4. M[i] = "open"
    BY <1>3, FromCode
<1>5. M[i + 1] = "block"
    <2>1. M[i + 1] = ModeAfter(M[(i + 1) - 1], t, i + 1, d) /\ (i + 1) - 1 = i
        BY <1>1, <1>3
    <2> QED BY <1>4, <2>1, FromComment
<1>6. \A k \in stars : k \in i + 2 .. n /\ k + 1 \in 1 .. n /\ t[k] = "*" /\ t[k + 1] = "/"
    BY <1>1 DEF Is
<1>7. \A k \in i + 2 .. n : t[k] = "*" /\ k + 1 \in 1 .. n /\ t[k + 1] = "/" => k \in stars
    BY <1>1 DEF Is
<1> HIDE DEF stars, M, e, n, end
<1>8. /\ S \in SUBSET Nat
      /\ \A j \in S : j - 2 \in stars
      /\ \A k \in stars : k + 2 \in S
    BY <1>1, <1>6
<1> HIDE DEF S
<1>9. /\ S = {} => e = end
      /\ S # {} => e \in S
      /\ \A j \in S : e <= j
    BY <1>2, <1>8, FirstIs
<1> DEFINE closes == S # {}
           last == IF closes THEN e - 2 ELSE n
<1>10. /\ e \in Nat /\ i < e /\ e <= n + 1 /\ last \in Int /\ last <= n /\ i + 1 <= last
       /\ ~closes => e = n + 1 /\ last = n
       /\ closes => /\ last = e - 2 /\ e - 1 = last + 1 /\ last >= i + 2
                   /\ last + 1 \in 1 .. n /\ t[last] = "*" /\ t[last + 1] = "/"
    <2>1. CASE S = {}
        BY <1>1, <1>9, <2>1
    <2>2. CASE S # {}
        <3>1. e \in S
            BY <1>9, <2>2
        <3>2. e - 2 \in stars /\ e \in Nat
            BY <1>8, <3>1
        <3>3. e - 2 \in i + 2 .. n /\ (e - 2) + 1 \in 1 .. n /\ t[e - 2] = "*" /\ t[(e - 2) + 1] = "/"
            BY <1>6, <3>2
        <3> QED BY <1>1, <2>2, <3>2, <3>3
    <2> QED BY <2>1, <2>2
<1> HIDE DEF closes, last
<1> DEFINE Inside(j) == M[j] = IF j >= i + 2 /\ t[j] = "*" THEN "star" ELSE "block"
           G == {j \in i + 1 .. last : Inside(j)}
<1>11. \A j \in i + 1 .. last : j \in G
    <2>1. i + 1 \in Nat /\ last \in Int /\ i + 1 \in G
        <3>1. ~(i + 1 >= i + 2)
            OBVIOUS
        <3>2. Inside(i + 1)
            BY <1>5, <3>1
        <3> HIDE DEF Inside
        <3> QED BY <1>1, <1>10, <3>2
    <2>2. ASSUME NEW j \in (i + 1) + 1 .. last, j - 1 \in G PROVE j \in G
        <3>1. j \in 1 .. n /\ j >= i + 2 /\ j \in i + 1 .. last /\ j - 1 \in i + 1 .. last
            BY <1>1, <1>10
        <3>2. M[j] = ModeAfter(M[j - 1], t, j, d)
            BY <1>3, <3>1
        <3>3. Inside(j - 1)
            BY <2>2
        <3>4. ~(M[j - 1] = "star" /\ t[j] = "/")
            <4> SUFFICES ASSUME M[j - 1] = "star", t[j] = "/" PROVE FALSE
                OBVIOUS
            <4>1. j - 1 >= i + 2 /\ t[j - 1] = "*"
                BY <3>3
            <4>2. j - 1 \in i + 2 .. n /\ (j - 1) + 1 = j
                BY <1>1, <3>1, <4>1
            <4>3. j - 1 \in stars
                BY <1>7, <3>1, <4>1, <4>2
            <4>4. (j - 1) + 2 \in S
                BY <1>8, <4>3
            <4>5. closes /\ e <= (j - 1) + 2
                BY <1>9, <4>4 DEF closes
            <4> QED BY <1>10, <3>1, <4>5
        <3>5. M[j - 1] \in {"star", "block"}
            BY <3>3
        <3>6. M[j] = IF t[j] = "*" THEN "star" ELSE "block"
            BY <3>2, <3>4, <3>5, FromComment
        <3>7. Inside(j)
            BY <3>1, <3>6
        <3> HIDE DEF Inside
        <3> QED BY <3>1, <3>7
    <2> HIDE DEF G
    <2> QED BY <2>1, <2>2, Climb
<1>12. closes => M[e - 1] = "code" /\ M[last] = "star"
    <2> SUFFICES ASSUME closes PROVE M[e - 1] = "code" /\ M[last] = "star"
        OBVIOUS
    <2>1. last \in i + 1 .. last
        BY <1>1, <1>10
    <2>2. M[last] = "star"
        BY <1>10, <1>11, <2>1
    <2>3. M[last + 1] = ModeAfter(M[(last + 1) - 1], t, last + 1, d) /\ (last + 1) - 1 = last
        BY <1>3, <1>10
    <2>4. M[last + 1] = "code"
        BY <1>10, <2>2, <2>3, FromComment
    <2> QED BY <1>10, <2>2, <2>4
<1>13. ASSUME NEW k \in i .. e - 1 PROVE k \notin CodePositions(t, d)
    <2>1. k \in DOMAIN t
        BY <1>1, <1>10
    <2>2. k = i \/ k \in i + 1 .. last \/ (closes /\ k = last + 1 /\ k - 1 = last)
        BY <1>1, <1>10
    <2>3. M[k] = "code" => M[k - 1] # "code" /\ t[k] # "\n"
        <3>1. CASE k = i
            BY <1>4, <3>1
        <3>2. CASE k \in i + 1 .. last
            BY <1>11, <3>2
        <3>3. CASE closes /\ k = last + 1 /\ k - 1 = last
            BY <1>10, <1>12, <3>3
        <3> QED BY <2>2, <3>1, <3>2, <3>3
    <2> QED BY <2>1, <2>3, CodeAt DEF M
<1>14. e <= n => Ready(t, d, e)
    BY <1>1, <1>10, <1>12 DEF Ready, M
<1> QED BY <1>1, <1>10, <1>13, <1>14 DEF Passed, n, e

(* What an iteration does, without tagged quotes.                          *)
LEMMA NextIs ==
    ASSUME NEW t, NEW i, NEW s, NEW d, s = "bind" => d # "mysql",
           ~OpensDollar(t, i, s, d), ~OpensOracle(t, i, d)
    PROVE  /\ TakenForCode(t, i, s, d) <=> Plain(t, i, d)
           /\ t[i] \in Quotes(d) => NextPos(t, i, s, d) = QuotedEnd(t, i, t[i])
           /\ t[i] = "[" /\ d = "sqlserver" => NextPos(t, i, s, d) = QuotedEnd(t, i, "]")
           /\ (t[i] = "#" /\ d = "mysql") \/ (t[i] = "-" /\ Is(t, i + 1, "-"))
                 => NextPos(t, i, s, d) = LineEnd(t, i)
           /\ t[i] = "/" /\ Is(t, i + 1, "*") => NextPos(t, i, s, d) = BlockEnd(t, i)
           /\ Plain(t, i, d) /\ IsCast(t, i, s) => NextPos(t, i, s, d) = i + 2
           /\ Plain(t, i, d) /\ ~IsCast(t, i, s) /\ IsParam(t, i, s)
                 => NextPos(t, i, s, d) = IdentEnd(t, i + 1)
           /\ Plain(t, i, d) /\ ~IsCast(t, i, s) /\ ~IsParam(t, i, s)
                 => NextPos(t, i, s, d) = i + 1
<1>1. TakenForCode(t, i, s, d) <=> Plain(t, i, d)
    BY DEF TakenForCode, Plain, Quotes
<1> USE DEF NextPos, OpensDollar, OpensOracle, IsCast, IsParam, DelimitedEnd, LiteralEnd, Quotes
<1>2. t[i] \in Quotes(d) => NextPos(t, i, s, d) = QuotedEnd(t, i, t[i])
    <2>1. CASE t[i] = "'"
        BY <2>1
    <2>2. CASE t[i] = "\""
        BY <2>2
    <2>3. CASE t[i] = "tick" /\ d = "mysql"
        BY <2>3
    <2> QED BY <2>1, <2>2, <2>3
<1>3. t[i] = "[" /\ d = "sqlserver" => NextPos(t, i, s, d) = QuotedEnd(t, i, "]")
    OBVIOUS
<1>4. t[i] = "#" /\ d = "mysql" => NextPos(t, i, s, d) = LineEnd(t, i)
    OBVIOUS
<1>5. t[i] = "-" /\ Is(t, i + 1, "-") => NextPos(t, i, s, d) = LineEnd(t, i)
    OBVIOUS
<1>6. t[i] = "/" /\ Is(t, i + 1, "*") => NextPos(t, i, s, d) = BlockEnd(t, i)
    OBVIOUS
<1>7. Plain(t, i, d) /\ IsCast(t, i, s) => NextPos(t, i, s, d) = i + 2
    BY DEF Plain, Is, isIdentPart, Letters
<1>8. Plain(t, i, d) /\ ~IsCast(t, i, s) /\ IsParam(t, i, s)
         => NextPos(t, i, s, d) = IdentEnd(t, i + 1)
    BY DEF Plain
<1>9. Plain(t, i, d) /\ ~IsCast(t, i, s) /\ ~IsParam(t, i, s) => NextPos(t, i, s, d) = i + 1
    BY DEF Plain
<1> QED BY <1>1, <1>2, <1>3, <1>4, <1>5, <1>6, <1>7, <1>8, <1>9

(* A character that opens nothing is code and is followed by code.         *)
LEMMA PlainIsCode ==
    ASSUME NEW t, NEW d, Len(t) \in Nat, DOMAIN t = 1 .. Len(t), NEW i \in 1 .. Len(t),
           Ready(t, d, i), Plain(t, i, d)
    PROVE  Mode(t, d)[i] = "code" /\ i \in CodePositions(t, d) /\ Ready(t, d, i + 1)
<1> DEFINE M == Mode(t, d)
<1>1. M[i] = ModeAfter(M[i - 1], t, i, d)
    BY ModeUnfold
<1>2. M[i] = "code"
    <2>1. CASE M[i - 1] = "code"
        BY <1>1, <2>1, FromCode
    <2>2. CASE M[i - 1] = "line" /\ t[i] = "\n"
        BY <1>1, <2>2, FromComment
    <2> QED BY <2>1, <2>2 DEF Ready
<1>3. i \in CodePositions(t, d)
    BY <1>2, CodeAt DEF Ready
<1>4. (i + 1) - 1 = i
    OBVIOUS
<1> QED BY <1>2, <1>3, <1>4 DEF Ready

LEMMA IdentEndIs ==
    ASSUME NEW t, Len(t) \in Nat, NEW i \in 1 .. Len(t), NEW e, e = IdentEnd(t, i + 1)
    PROVE  /\ e \in Nat /\ i < e /\ e <= Len(t) + 1
           /\ \A k \in i + 1 .. e - 1 : k \in 1 .. Len(t) /\ isIdentPart(t[k])
           /\ i + 1 \in 1 .. Len(t) /\ isIdentPart(t[i + 1]) => i + 1 < e
<1> DEFINE n == Len(t)
           end == n + 1
           S == {j \in i + 1 .. n : ~isIdentPart(t[j])}
<1>1. S \in SUBSET Nat /\ e = First(S, end)
    BY DEF IdentEnd
<1>2. /\ \A j \in S : j \in i + 1 .. n /\ ~isIdentPart(t[j])
      /\ \A j \in i + 1 .. n : ~isIdentPart(t[j]) => j \in S
    OBVIOUS
<1>3. end = n + 1 /\ n \in Nat
    OBVIOUS
<1> HIDE DEF S, end
<1>4. /\ S = {} => e = end
      /\ S # {} => e \in S
      /\ \A j \in S : e <= j
    BY <1>1, FirstIs
<1>5. e \in Nat /\ i < e /\ e <= n + 1
    <2>1. CASE S = {}
        BY <1>3, <1>4, <2>1
    <2>2. CASE S # {}
        <3>1. e \in i + 1 .. n
            BY <1>2, <1>4, <2>2
        <3> QED BY <3>1
    <2> QED BY <2>1, <2>2
<1>6. ASSUME NEW k \in i + 1 .. e - 1 PROVE k \in 1 .. n /\ isIdentPart(t[k])
    <2>1. k \in i + 1 .. n /\ k \in 1 .. n
        BY <1>3, <1>5
    <2>2. isIdentPart(t[k])
        <3> SUFFICES ASSUME ~isIdentPart(t[k]) PROVE FALSE
            OBVIOUS
        <3>1. e <= k
            BY <1>2, <1>4, <2>1
        <3> QED BY <1>5, <3>1
    <2> QED BY <2>1, <2>2
<1>7. ASSUME i + 1 \in 1 .. n, isIdentPart(t[i + 1]) PROVE i + 1 < e
    <2>1. CASE S = {}
        BY <1>3, <1>4, <1>7, <2>1
    <2>2. CASE S # {}
        <3>1. e \in i + 1 .. n /\ ~isIdentPart(t[e])
            BY <1>2, <1>4, <2>2
        <3>2. e # i + 1
            BY <1>7, <3>1
        <3> QED BY <3>1, <3>2
    <2> QED BY <2>1, <2>2
<1> QED BY <1>5, <1>6, <1>7

LEMMA IdentIsPlain ==
    ASSUME NEW t, NEW k, NEW d, isIdentPart(t[k]) \/ t[k] = ":" \/ t[k] = "\n"
    PROVE  Plain(t, k, d)
BY DEF isIdentPart, Letters, Plain, Quotes

(* An iteration that starts where the automaton is in code passes code     *)
(* only, or a whole quote or comment.                                      *)
LEMMA IterationPasses ==
    ASSUME NEW C, NEW t \in Seq(C), NEW d, NEW s, s = "bind" => d # "mysql",
           NEW i \in 1 .. Len(t), Ready(t, d, i),
           ~OpensDollar(t, i, s, d), ~OpensOracle(t, i, d)
    PROVE  Passed(t, d, i, NextPos(t, i, s, d), Plain(t, i, d))
<1> DEFINE n == Len(t)
           e == NextPos(t, i, s, d)
<1>1. n \in Nat /\ DOMAIN t = 1 .. n
    OBVIOUS
<1>2. CASE ~Plain(t, i, d)
    <2>0. Mode(t, d)[i - 1] = "code"
        BY <1>2, IdentIsPlain DEF Ready
    <2>1. CASE t[i] \in Quotes(d)
        <3>1. e = QuotedEnd(t, i, t[i])
            BY <2>1, NextIs
        <3>2. Passed(t, d, i, QuotedEnd(t, i, t[i]), FALSE)
            BY <2>0, <2>1, QuotePassed
        <3> HIDE DEF e
        <3>3. Passed(t, d, i, e, FALSE)
            BY <3>1, <3>2
        <3> QED BY <1>2, <3>3 DEF Passed, e
    <2>2. CASE t[i] = "[" /\ d = "sqlserver"
        <3>1. e = QuotedEnd(t, i, "]")
            BY <2>2, NextIs
        <3>2. Passed(t, d, i, QuotedEnd(t, i, "]"), FALSE)
            BY <2>0, <2>2, BracketPassed
        <3> HIDE DEF e
        <3>3. Passed(t, d, i, e, FALSE)
            BY <3>1, <3>2
        <3> QED BY <1>2, <3>3 DEF Passed, e
    <2>3. CASE (t[i] = "#" /\ d = "mysql") \/ (t[i] = "-" /\ Is(t, i + 1, "-"))
        <3>1. e = LineEnd(t, i)
            BY <2>3, NextIs
        <3>2. Passed(t, d, i, LineEnd(t, i), FALSE)
            BY <2>0, <2>3, LinePassed
        <3> HIDE DEF e
        <3>3. Passed(t, d, i, e, FALSE)
            BY <3>1, <3>2
        <3> QED BY <1>2, <3>3 DEF Passed, e
    <2>4. CASE t[i] = "/" /\ Is(t, i + 1, "*")
        <3>1. e = BlockEnd(t, i)
            BY <2>4, NextIs
        <3>2. Passed(t, d, i, BlockEnd(t, i), FALSE)
            BY <2>0, <2>4, BlockPassed
        <3> HIDE DEF e
        <3>3. Passed(t, d, i, e, FALSE)
            BY <3>1, <3>2
        <3> QED BY <1>2, <3>3 DEF Passed, e
    <2> QED BY <1>2, <2>1, <2>2, <2>3, <2>4 DEF Plain
<1>3. CASE Plain(t, i, d)
    <2>1. i \in CodePositions(t, d) /\ Ready(t, d, i + 1)
        BY <1>1, <1>3, PlainIsCode
    <2>2. CASE IsCast(t, i, s)
        <3>1. e = i + 2
            BY <1>3, <2>2, NextIs
        <3>2. i + 1 \in 1 .. n /\ t[i + 1] = ":"
            BY <1>1, <2>2 DEF IsCast, Is
        <3>3. Plain(t, i + 1, d)
            BY <3>2, IdentIsPlain
        <3>4. i + 1 \in CodePositions(t, d) /\ Ready(t, d, (i + 1) + 1)
            BY <1>1, <2>1, <3>2, <3>3, PlainIsCode
        <3>5. i .. e - 1 = {i, i + 1} /\ (i + 1) + 1 = e
            BY <3>1
        <3>6. e \in Nat /\ i < e /\ e <= n + 1
            BY <3>1, <3>2
        <3> HIDE DEF e
        <3> QED BY <1>3, <2>1, <3>4, <3>5, <3>6 DEF Passed, e
    <2>3. CASE ~IsCast(t, i, s) /\ IsParam(t, i, s)
        <3>1. e = IdentEnd(t, i + 1)
            BY <1>3, <2>3, NextIs
        <3> HIDE DEF e
        <3>2. /\ e \in Nat /\ i < e /\ e <= n + 1
              /\ \A k \in i + 1 .. e - 1 : k \in 1 .. n /\ isIdentPart(t[k])
            BY <1>1, <3>1, IdentEndIs
        <3> HIDE DEF n
        <3> DEFINE G == {k \in i .. e - 1 : k \in CodePositions(t, d) /\ Ready(t, d, k + 1)}
        <3>3. \A k \in i .. e - 1 : k \in G
            <4>1. i \in Nat /\ e - 1 \in Int /\ i \in G
                BY <2>1, <3>2 DEF n
            <4>2. ASSUME NEW k \in i + 1 .. e - 1, k - 1 \in G PROVE k \in G
                <5>1. k \in 1 .. n /\ isIdentPart(t[k]) /\ Ready(t, d, (k - 1) + 1) /\ (k - 1) + 1 = k
                    BY <3>2, <4>2
                <5>2. Ready(t, d, k) /\ Plain(t, k, d)
                    BY <5>1, IdentIsPlain
                <5>3. k \in CodePositions(t, d) /\ Ready(t, d, k + 1)
                    BY <1>1, <5>1, <5>2, PlainIsCode DEF n
                <5>4. k \in i .. e - 1
                    BY <3>2
                <5> QED BY <5>3, <5>4
            <4> HIDE DEF G
            <4> QED BY <4>1, <4>2, Climb
        <3>4. e - 1 \in i .. e - 1 /\ (e - 1) + 1 = e
            BY <3>2 DEF n
        <3>5. Ready(t, d, e)
            BY <3>3, <3>4
        <3> QED BY <1>3, <3>2, <3>3, <3>5 DEF Passed, n, e
    <2>4. CASE ~IsCast(t, i, s) /\ ~IsParam(t, i, s)
        <3>1. e = i + 1
            BY <1>3, <2>4, NextIs
        <3>2. i .. e - 1 = {i} /\ e \in Nat /\ i < e /\ e <= n + 1
            BY <1>1, <3>1
        <3> HIDE DEF e
        <3> QED BY <1>3, <2>1, <3>1, <3>2 DEF Passed, e
    <2> QED BY <2>2, <2>3, <2>4
<1> QED BY <1>2, <1>3

(* Colons come in pairs, from the first that follows something else.       *)
ColonRun(t, K, j) == Cardinality(Colons(t, K, j))
EvenAt(t, K, i) == t[i] = ":" => ColonRun(t, K, i - 1) % 2 = 0

LEMMA ColonRuns ==
    ASSUME NEW t, Len(t) \in Nat, NEW K
    PROVE  /\ ColonRun(t, K, 0) = 0
           /\ \A j \in 1 .. Len(t) :
                 ColonRun(t, K, j) = IF t[j] = ":" /\ j \in K THEN ColonRun(t, K, j - 1) + 1 ELSE 0
           /\ \A j \in 0 .. Len(t) : ColonRun(t, K, j) \in Nat
<1> DEFINE P == {l \in K : t[l] = ":"}
<1>1. \A j : ColonRun(t, K, j) = Cardinality(RunTo(P, 1, j))
    <2>1. \A j : Colons(t, K, j) = RunTo(P, 1, j)
        BY DEF Colons, RunTo
    <2> QED BY <2>1 DEF ColonRun
<1>2. 0 \in Nat /\ 1 \in Nat /\ 0 < 1
    OBVIOUS
<1>3. ASSUME NEW j \in 1 .. Len(t)
      PROVE  ColonRun(t, K, j) = IF t[j] = ":" /\ j \in K THEN ColonRun(t, K, j - 1) + 1 ELSE 0
    <2>1. j \in Nat /\ j >= 1 /\ j - 1 \in Nat /\ (j \in P <=> t[j] = ":" /\ j \in K)
        OBVIOUS
    <2> HIDE DEF P
    <2>2. /\ j \notin P => Cardinality(RunTo(P, 1, j)) = 0
          /\ j \in P => Cardinality(RunTo(P, 1, j)) = Cardinality(RunTo(P, 1, j - 1)) + 1
        BY <1>2, <2>1, RunGrows
    <2> QED BY <1>1, <2>1, <2>2
<1>4. ASSUME NEW j \in 0 .. Len(t) PROVE ColonRun(t, K, j) \in Nat
    <2>1. j \in Nat
        OBVIOUS
    <2> HIDE DEF P
    <2> QED BY <1>1, <1>2, <2>1, RunGrows
<1> HIDE DEF P
<1>5. ColonRun(t, K, 0) = 0
    BY <1>1, <1>2, RunGrows
<1> QED BY <1>3, <1>4, <1>5

(* An iteration that starts at the first of a pair meets a parameter       *)
(* where the reference has one, and stops before the next pair.            *)
LEMMA IterationMeets ==
    ASSUME NEW C, NEW t \in Seq(C), NEW d, NEW s, s # "strip", s = "bind" => d # "mysql",
           NEW i \in 1 .. Len(t), Ready(t, d, i),
           ~OpensDollar(t, i, s, d), ~OpensOracle(t, i, d),
           NEW K, K = CodePositions(t, d), EvenAt(t, K, i),
           NEW e, e = NextPos(t, i, s, d)
    PROVE  /\ e <= Len(t) => EvenAt(t, K, e)
           /\ \A k \in i .. e - 1 : k \in ParamStarts(t, K) <=> k = i /\ IsParam(t, i, s)
           /\ IsParam(t, i, s) => e = IdentEnd(t, i + 1)
<1> DEFINE n == Len(t)
           R(j) == ColonRun(t, K, j)
           start(k) == k \in ParamStarts(t, K)
<1>1. n \in Nat /\ DOMAIN t = 1 .. n
    OBVIOUS
<1>2. Passed(t, d, i, e, Plain(t, i, d))
    BY IterationPasses
<1>3. /\ e \in Nat /\ i < e /\ e <= n + 1
      /\ \A k \in i .. e - 1 : k \in K <=> Plain(t, i, d)
    BY <1>2 DEF Passed
<1>4. /\ \A j \in 1 .. n : R(j) = IF t[j] = ":" /\ j \in K THEN R(j - 1) + 1 ELSE 0
      /\ \A j \in 0 .. n : R(j) \in Nat
    <2>1. Len(t) \in Nat
        OBVIOUS
    <2>2. \A k : /\ \A j \in 1 .. Len(t) : ColonRun(t, k, j) =
                        IF t[j] = ":" /\ j \in k THEN ColonRun(t, k, j - 1) + 1 ELSE 0
                /\ \A j \in 0 .. Len(t) : ColonRun(t, k, j) \in Nat
        BY <2>1, ColonRuns
    <2> QED BY <2>2
<1>5. ASSUME NEW k \in 1 .. n
      PROVE  start(k) <=> /\ k \in K /\ t[k] = ":" /\ R(k) % 2 = 1
                          /\ k + 1 \in 1 .. n /\ isIdentPart(t[k + 1])
    BY <1>1 DEF ParamStarts, ColonRun
<1>6. ASSUME e - 1 \in 1 .. n, R(e - 1) = 0 PROVE EvenAt(t, K, e)
    BY <1>6 DEF EvenAt
<1>7. e - 1 \in 1 .. n /\ e - 1 \in i .. e - 1 /\ i \in i .. e - 1
    BY <1>1, <1>3
<1>8. t[i] = ":" => Plain(t, i, d)
    BY IdentIsPlain
<1>9. ~isIdentPart(":")
    BY DEF isIdentPart, Letters
<1>10. IsParam(t, i, s) => t[i] = ":" /\ i + 1 \in 1 .. n /\ isIdentPart(t[i + 1]) /\ ~IsCast(t, i, s)
    BY <1>1, <1>9 DEF IsParam, IsCast, Is
<1>11. IsCast(t, i, s) => t[i] = ":" /\ i + 1 \in 1 .. n /\ t[i + 1] = ":"
    BY <1>1 DEF IsCast, Is
<1>12. /\ Plain(t, i, d) /\ IsCast(t, i, s) => e = i + 2
       /\ Plain(t, i, d) /\ ~IsCast(t, i, s) /\ IsParam(t, i, s) => e = IdentEnd(t, i + 1)
       /\ Plain(t, i, d) /\ ~IsCast(t, i, s) /\ ~IsParam(t, i, s) => e = i + 1
    BY NextIs
<1>13. t[i] = ":" => R(i - 1) % 2 = 0
    BY DEF EvenAt
<1>14. IsParam(t, i, s) => e = IdentEnd(t, i + 1)
    BY <1>8, <1>10, <1>12
<1> SUFFICES /\ e <= n => EvenAt(t, K, e)
             /\ \A k \in i .. e - 1 : start(k) <=> k = i /\ IsParam(t, i, s)
    BY <1>14
<1> HIDE DEF n, R, start
<1>15. \A k \in i .. e - 1 : k \in 1 .. n
    BY <1>1, <1>3
<1>16. ASSUME R(e - 1) = 0 PROVE EvenAt(t, K, e)
    BY <1>6, <1>7, <1>16
<1>17. CASE ~Plain(t, i, d)
    <2>1. \A k \in i .. e - 1 : k \notin K
        BY <1>3, <1>17
    <2>2. R(e - 1) = 0
        BY <1>4, <1>7, <2>1
    <2>3. ~IsParam(t, i, s)
        BY <1>8, <1>10, <1>17
    <2>4. \A k \in i .. e - 1 : ~start(k)
        BY <1>5, <1>15, <2>1
    <2> QED BY <1>16, <2>2, <2>3, <2>4
<1>18. CASE Plain(t, i, d) /\ IsCast(t, i, s)
    <2>1. e = i + 2 /\ ~IsParam(t, i, s) /\ t[i] = ":" /\ i + 1 \in 1 .. n /\ t[i + 1] = ":"
        BY <1>10, <1>11, <1>12, <1>18
    <2>2. i \in K /\ i + 1 \in K
        BY <1>1, <1>3, <1>18, <2>1
    <2>3. R(i) = R(i - 1) + 1 /\ R(i + 1) = R(i) + 1
        <3>1. (i + 1) - 1 = i /\ i \in 1 .. n
            BY <1>7, <1>15
        <3> QED BY <1>4, <2>1, <2>2, <3>1
    <2>4. R(i - 1) \in Nat /\ R(i) \in Nat
        <3>1. i - 1 \in 0 .. n /\ i \in 0 .. n
            BY <1>1, <1>7, <1>15
        <3> QED BY <1>4, <3>1
    <2>5. R(i - 1) % 2 = 0 /\ R(i) % 2 = 1 /\ R(i + 1) % 2 = 0
        <3>1. R(i - 1) % 2 = 0
            BY <1>13, <2>1
        <3>2. R(i) % 2 = 1
            BY <2>3, <2>4, <3>1
        <3> QED BY <2>3, <2>4, <3>1, <3>2
    <2>6. ~start(i)
        BY <1>5, <1>7, <1>9, <1>15, <2>1
    <2>7. ~start(i + 1)
        BY <1>5, <2>1, <2>5
    <2>8. i .. e - 1 = {i, i + 1} /\ e - 1 = i + 1
        BY <2>1
    <2>9. EvenAt(t, K, e)
        BY <2>5, <2>8 DEF EvenAt, R
    <2> QED BY <2>1, <2>6, <2>7, <2>8, <2>9
<1>19. CASE Plain(t, i, d) /\ ~IsCast(t, i, s) /\ IsParam(t, i, s)
    <2>1. t[i] = ":" /\ i + 1 \in 1 .. n /\ isIdentPart(t[i + 1]) /\ e = IdentEnd(t, i + 1)
        BY <1>10, <1>14, <1>19
    <2>2. /\ \A k \in i + 1 .. e - 1 : k \in 1 .. n /\ isIdentPart(t[k])
          /\ i + 1 < e
        BY <1>1, <2>1, IdentEndIs DEF n
    <2>3. \A k \in i + 1 .. e - 1 : k \in 1 .. n /\ t[k] # ":"
        BY <1>9, <2>2
    <2>4. R(e - 1) = 0
        <3>1. e - 1 \in i + 1 .. e - 1
            BY <1>3, <2>2
        <3> QED BY <1>4, <2>3, <3>1
    <2>5. start(i)
        <3>1. i \in 1 .. n /\ i \in K
            BY <1>3, <1>7, <1>15, <1>19
        <3>2. R(i) = R(i - 1) + 1 /\ R(i - 1) \in Nat /\ R(i - 1) % 2 = 0
            <4>1. i - 1 \in 0 .. n
                BY <1>1, <3>1
            <4> QED BY <1>4, <1>13, <2>1, <3>1, <4>1
        <3>3. R(i) % 2 = 1
            BY <3>2
        <3> QED BY <1>5, <2>1, <3>1, <3>3
    <2>6. ASSUME NEW k \in i .. e - 1, k # i PROVE ~start(k)
        <3>1. k \in i + 1 .. e - 1
            BY <2>6
        <3> QED BY <1>5, <2>3, <3>1
    <2> QED BY <1>16, <1>19, <2>4, <2>5, <2>6
<1>20. CASE Plain(t, i, d) /\ ~IsCast(t, i, s) /\ ~IsParam(t, i, s)
    <2>1. e = i + 1 /\ i .. e - 1 = {i} /\ e - 1 = i /\ i \in 1 .. n
        BY <1>7, <1>12, <1>15, <1>20
    <2>2. ~start(i)
        <3> SUFFICES ASSUME start(i) PROVE FALSE
            OBVIOUS
        <3>1. t[i] = ":" /\ i + 1 \in 1 .. n /\ isIdentPart(t[i + 1])
            BY <1>5, <2>1
        <3> QED BY <1>1, <1>20, <3>1 DEF IsParam
    <2>3. e <= n => EvenAt(t, K, e)
        <3> SUFFICES ASSUME e <= n, t[e] = ":" PROVE R(e - 1) = 0
            BY DEF EvenAt, R
        <3>1. i + 1 \in 1 .. n
            BY <1>1, <2>1
        <3>2. t[i] # ":"
            BY <1>1, <1>20, <2>1, <3>1 DEF IsCast, Is
        <3> QED BY <1>4, <2>1, <3>2
    <2> QED BY <1>20, <2>1, <2>2, <2>3
<1> QED BY <1>17, <1>18, <1>19, <1>20

(* Where a scanner stands at position p: it has told code from the rest,   *)
(* and met the parameters, as the automaton does up to there.              *)
MetBefore(t, K, p) == {SubSeq(t, i + 1, IdentEnd(t, i + 1) - 1) : i \in {k \in ParamStarts(t, K) : k < p}}
ScanState(t, d, s, p, c, ns) ==
    /\ p \in Nat /\ 1 <= p /\ p <= Len(t) + 1
    /\ p <= Len(t) => Ready(t, d, p)
    /\ c = {k \in CodePositions(t, d) : k < p}
    /\ s # "strip" => /\ p <= Len(t) => EvenAt(t, CodePositions(t, d), p)
                      /\ Range(ns) = MetBefore(t, CodePositions(t, d), p)

LEMMA ScanBegins ==
    ASSUME NEW C, NEW t \in Seq(C), NEW d, NEW s
    PROVE  ScanState(t, d, s, 1, {}, <<>>)
<1> DEFINE K == CodePositions(t, d)
<1>1. Len(t) \in Nat /\ DOMAIN t = 1 .. Len(t)
    OBVIOUS
<1>2. 1 \in Nat /\ 1 <= 1 /\ 1 <= Len(t) + 1 /\ 1 - 1 = 0
    BY <1>1
<1>3. Mode(t, d)[0] = "code"
    BY <1>1, ModeUnfold
<1>4. Ready(t, d, 1)
    BY <1>2, <1>3 DEF Ready
<1>5. ColonRun(t, K, 0) = 0
    BY <1>1, ColonRuns
<1>6. EvenAt(t, K, 1)
    BY <1>2, <1>5 DEF EvenAt
<1>7. K \subseteq 1 .. Len(t) /\ ParamStarts(t, K) \subseteq K
    BY <1>1 DEF CodePositions, ParamStarts
<1> HIDE DEF K
<1>8. {k \in K : k < 1} = {} /\ {k \in ParamStarts(t, K) : k < 1} = {}
    <2>1. \A k \in 1 .. Len(t) : ~(k < 1)
        BY <1>1
    <2> QED BY <1>7, <2>1
<1>9. MetBefore(t, K, 1) = {}
    BY <1>8 DEF MetBefore
<1>10. Range(<<>>) = {}
    BY DEF Range
<1> QED BY <1>2, <1>4, <1>6, <1>8, <1>9, <1>10 DEF ScanState, K

LEMMA ScanGoesOn ==
    ASSUME NEW C, NEW t \in Seq(C), NEW d, NEW s, s = "bind" => d # "mysql",
           NEW p, NEW c, NEW T, NEW ns \in Seq(T), ScanState(t, d, s, p, c, ns), p <= Len(t),
           ~OpensDollar(t, p, s, d), ~OpensOracle(t, p, d),
           NEW e, e = NextPos(t, p, s, d), NEW name, name = SubSeq(t, p + 1, e - 1),
           NEW c2, c2 = IF TakenForCode(t, p, s, d) THEN c \cup p .. e - 1 ELSE c,
           NEW ns2, ns2 = IF IsParam(t, p, s) /\ (s = "bind" \/ name \notin Range(ns))
                          THEN Append(ns, name) ELSE ns
    PROVE  ScanState(t, d, s, e, c2, ns2)
<1> DEFINE K == CodePositions(t, d)
           starts == ParamStarts(t, K)
<1>1. Len(t) \in Nat /\ DOMAIN t = 1 .. Len(t)
    OBVIOUS
<1>2. p \in 1 .. Len(t) /\ Ready(t, d, p) /\ c = {k \in K : k < p}
    BY <1>1 DEF ScanState
<1>3. Passed(t, d, p, e, Plain(t, p, d))
    BY <1>2, IterationPasses
<1>4. /\ e \in Nat /\ p < e /\ e <= Len(t) + 1
      /\ e <= Len(t) => Ready(t, d, e)
      /\ \A k \in p .. e - 1 : k \in K <=> Plain(t, p, d)
    BY <1>3 DEF Passed
<1>5. TakenForCode(t, p, s, d) <=> Plain(t, p, d)
    BY NextIs
<1>6. K \subseteq 1 .. Len(t) /\ starts \subseteq K
    BY <1>1 DEF CodePositions, ParamStarts
<1>7. ASSUME s # "strip"
      PROVE  /\ EvenAt(t, K, p) /\ Range(ns) = MetBefore(t, K, p)
             /\ e <= Len(t) => EvenAt(t, K, e)
             /\ \A k \in p .. e - 1 : k \in starts <=> k = p /\ IsParam(t, p, s)
             /\ IsParam(t, p, s) => e = IdentEnd(t, p + 1)
    <2>1. EvenAt(t, K, p) /\ Range(ns) = MetBefore(t, K, p)
        BY <1>7 DEF ScanState
    <2>2. /\ e <= Len(t) => EvenAt(t, K, e)
          /\ \A k \in p .. e - 1 : k \in starts <=> k = p /\ IsParam(t, p, s)
          /\ IsParam(t, p, s) => e = IdentEnd(t, p + 1)
        BY <1>2, <1>7, <2>1, IterationMeets
    <2> QED BY <2>1, <2>2
<1> HIDE DEF starts, K
<1>8. c2 = {k \in K : k < e}
    <2>1. \A k \in 1 .. Len(t) : k < e <=> k < p \/ k \in p .. e - 1
        BY <1>2, <1>4
    <2>2. CASE Plain(t, p, d)
        <3>1. c2 = c \cup p .. e - 1
            BY <1>5, <2>2
        <3>2. \A k \in p .. e - 1 : k \in K
            BY <1>4, <2>2
        <3> QED BY <1>2, <1>6, <2>1, <3>1, <3>2
    <2>3. CASE ~Plain(t, p, d)
        <3>1. c2 = c
            BY <1>5, <2>3
        <3>2. \A k \in p .. e - 1 : k \notin K
            BY <1>4, <2>3
        <3> QED BY <1>2, <1>6, <2>1, <3>1, <3>2
    <2> QED BY <2>2, <2>3
<1>9. ASSUME s # "strip" PROVE Range(ns2) = MetBefore(t, K, e)
    <2>1. Range(Append(ns, name)) = Range(ns) \cup {name}
        BY RangeGrows
    <2>2. Range(ns2) = IF IsParam(t, p, s) THEN Range(ns) \cup {name} ELSE Range(ns)
        BY <2>1
    <2>3. {k \in starts : k < e} = {k \in starts : k < p} \cup (IF IsParam(t, p, s) THEN {p} ELSE {})
        <3>1. \A k \in starts : k \in 1 .. Len(t)
            BY <1>6
        <3>2. \A k \in starts : k < e <=> k < p \/ (k = p /\ IsParam(t, p, s))
            <4> TAKE k \in starts
            <4>1. k < e <=> k < p \/ k \in p .. e - 1
                BY <1>2, <1>4, <3>1
            <4>2. k \in p .. e - 1 => k = p /\ IsParam(t, p, s)
                BY <1>7, <1>9
            <4>3. k = p => k \in p .. e - 1
                BY <1>2, <1>4
            <4> QED BY <4>1, <4>2, <4>3
        <3>3. IsParam(t, p, s) => p \in starts
            <4>1. p \in p .. e - 1
                BY <1>2, <1>4
            <4> QED BY <1>7, <1>9, <4>1
        <3> QED BY <3>2, <3>3
    <2>4. IsParam(t, p, s) => name = SubSeq(t, p + 1, IdentEnd(t, p + 1) - 1)
        BY <1>7, <1>9
    <2> DEFINE Name(i) == SubSeq(t, i + 1, IdentEnd(t, i + 1) - 1)
    <2>5. MetBefore(t, K, e) = {Name(i) : i \in {k \in starts : k < e}}
        BY DEF MetBefore, starts
    <2>6. Range(ns) = {Name(i) : i \in {k \in starts : k < p}}
        BY <1>7, <1>9 DEF MetBefore, starts
    <2>7. IsParam(t, p, s) => name = Name(p)
        BY <2>4
    <2> HIDE DEF Name
    <2>8. CASE IsParam(t, p, s)
        <3>1. {k \in starts : k < e} = {k \in starts : k < p} \cup {p}
            BY <2>3, <2>8
        <3>2. {Name(i) : i \in {k \in starts : k < p} \cup {p}}
                 = {Name(i) : i \in {k \in starts : k < p}} \cup {Name(p)}
            OBVIOUS
        <3> QED BY <2>2, <2>5, <2>6, <2>7, <2>8, <3>1, <3>2
    <2>9. CASE ~IsParam(t, p, s)
        <3>1. {k \in starts : k < e} = {k \in starts : k < p}
            BY <2>3, <2>9
        <3> QED BY <2>2, <2>5, <2>6, <2>9, <3>1
    <2> QED BY <2>8, <2>9
<1>10. 1 <= e
    BY <1>2, <1>4
<1> QED BY <1>4, <1>7, <1>8, <1>9, <1>10 DEF ScanState, K

(* No scanner is at a quote the automaton does not know.                   *)
LEMMA NoTagMet ==
    ASSUME TextInv, stage \in Scanners, stage = "bind" \/ NoTaggedQuote(text, dialect),
           pos \in 1 .. Len(Scanned)
    PROVE  ~OpensDollar(Scanned, pos, stage, Dialect) /\ ~OpensOracle(Scanned, pos, Dialect)
<1>1. CASE stage = "bind"
    BY <1>1 DEF Dialect, OpensDollar, OpensOracle
<1>2. CASE stage # "bind" /\ NoTaggedQuote(text, dialect)
    <2>1. PICK C : text \in Seq(C)
        BY DEF TextInv
    <2>2. /\ Scanned \in Seq(C) /\ Len(Scanned) <= Len(text)
          /\ \A i \in 1 .. Len(Scanned) : Scanned[i] = text[i]
        BY <2>1, TrimmedIsPrefix DEF Scanned
    <2> DEFINE t == Scanned
    <2>3. Len(t) \in Nat /\ DOMAIN t = 1 .. Len(t) /\ DOMAIN text = 1 .. Len(text) /\ Len(text) \in Nat
        BY <2>1, <2>2
    <2>4. t[pos] = text[pos] /\ (Is(t, pos + 1, "'") => Is(text, pos + 1, "'")) /\ pos \in DOMAIN text
        BY <2>2, <2>3 DEF Is
    <2>5. Dialect = dialect
        BY <1>2 DEF Dialect
    <2> HIDE DEF t
    <2>6. ~OpensDollar(t, pos, stage, Dialect) /\ ~OpensOracle(t, pos, Dialect)
        BY <1>2, <2>4, <2>5 DEF OpensDollar, OpensOracle, NoTaggedQuote
    <2> QED BY <2>6 DEF t
<1> QED BY <1>1, <1>2

Known == stage \in Scanners /\ (stage = "bind" \/ NoTaggedQuote(text, dialect))
ScanInv ==
    /\ TextInv /\ NamesInv
    /\ Known => ScanState(Scanned, Dialect, stage, pos, code, names)

LEMMA ScanInvStep ==
    ASSUME ScanInv, TemplateNext \/ UNCHANGED templateVars
    PROVE  ScanInv'
<1>1. UNCHANGED <<text, dialect>>
    BY DEF TemplateNext, templateVars, Iterate, MissingValue, StripPasses, StripRefuses,
           ExtractPasses, ExtractRefuses, BindEnds, EndIn, Begin
<1>2. PICK C : text \in Seq(C)
    BY DEF ScanInv, TextInv
<1>3. TextInv'
    BY <1>1, <1>2 DEF TextInv
<1>4. NamesInv'
    <2>1. PICK T : names \in Seq(T)
        BY DEF ScanInv, NamesInv
    <2>2. names' = names \/ names' = <<>> \/ \E x : names' = Append(names, x)
        BY DEF TemplateNext, templateVars, Iterate, MissingValue, StripPasses, StripRefuses,
               ExtractPasses, ExtractRefuses, BindEnds, EndIn, Begin
    <2>3. CASE names' = names
        BY <2>1, <2>3 DEF NamesInv
    <2>4. CASE names' = <<>>
        <3>1. <<>> \in Seq(T)
            OBVIOUS
        <3> QED BY <2>4, <3>1 DEF NamesInv
    <2>5. ASSUME NEW x, names' = Append(names, x)
          PROVE  NamesInv'
        <3>1. Append(names, x) \in Seq(T \cup {x})
            BY <2>1, RangeGrows
        <3> QED BY <2>5, <3>1 DEF NamesInv
    <2> QED BY <2>2, <2>3, <2>4, <2>5
<1> SUFFICES Known' => ScanState(Scanned, Dialect, stage, pos, code, names)'
    BY <1>3, <1>4 DEF ScanInv
<1>5. CASE Iterate
    <2> SUFFICES ASSUME Known' PROVE ScanState(Scanned, Dialect, stage, pos, code, names)'
        OBVIOUS
    <2> DEFINE t == Scanned
               d == Dialect
               next == NextPos(t, pos, stage, d)
               name == SubSeq(t, pos + 1, next - 1)
    <2>1. /\ stage \in Scanners /\ pos <= Len(t) /\ UNCHANGED <<stage, dialect, text>>
          /\ pos' = next
          /\ code' = IF TakenForCode(t, pos, stage, d) THEN code \cup pos .. next - 1 ELSE code
          /\ names' = IF IsParam(t, pos, stage) /\ (stage = "bind" \/ name \notin Range(names))
                      THEN Append(names, name) ELSE names
        BY <1>5 DEF Iterate
    <2>2. Known
        BY <2>1 DEF Known
    <2>3. UNCHANGED <<Scanned, Dialect>>
        BY <2>1 DEF Scanned, Dialect
    <2>4. t \in Seq(C)
        BY <1>2, TrimmedIsPrefix DEF Scanned
    <2>5. ScanState(t, d, stage, pos, code, names)
        BY <2>2 DEF ScanInv
    <2>6. pos \in 1 .. Len(t)
        <3>1. Len(t) \in Nat
            BY <2>4
        <3> QED BY <2>1, <2>5, <3>1 DEF ScanState
    <2>7. ~OpensDollar(t, pos, stage, d) /\ ~OpensOracle(t, pos, d)
        BY <2>2, <2>6, NoTagMet DEF ScanInv, Known
    <2>8. stage = "bind" => d # "mysql"
        BY DEF Dialect
    <2>9. PICK T : names \in Seq(T)
        BY DEF ScanInv, NamesInv
    <2> HIDE DEF t, d, next, name
    <2>10. ScanState(t, d, stage, next, code', names')
        BY <2>1, <2>4, <2>5, <2>7, <2>8, <2>9, ScanGoesOn DEF next, name
    <2> QED BY <2>1, <2>3, <2>10 DEF t, d
<1>6. CASE StripPasses \/ ExtractPasses
    <2>1. stage' # "strip" /\ pos' = 1 /\ code' = {} /\ names' = <<>>
        BY <1>6 DEF StripPasses, ExtractPasses, Begin
    <2>2. Scanned' \in Seq(C)
        BY <1>1, <1>2, <2>1 DEF Scanned
    <2>3. ScanState(Scanned', Dialect', stage', 1, {}, <<>>)
        BY <2>2, ScanBegins
    <2> QED BY <2>1, <2>3
<1>7. CASE MissingValue \/ StripRefuses \/ ExtractRefuses \/ BindEnds
    BY <1>7 DEF MissingValue, StripRefuses, ExtractRefuses, BindEnds, EndIn, Known, Scanners
<1>8. CASE UNCHANGED templateVars
    <2>1. UNCHANGED <<Scanned, Dialect, Known, stage, pos, code, names>>
        BY <1>8 DEF templateVars, Scanned, Dialect, Known
    <2> QED BY <2>1 DEF ScanInv
<1> QED BY <1>5, <1>6, <1>7, <1>8 DEF TemplateNext

LEMMA ScanInvStarts == Init => ScanInv
<1> SUFFICES ASSUME Init PROVE ScanInv
    OBVIOUS
<1>1. TextInv
    BY ScanStarts
<1>2. PICK C : text \in Seq(C)
    BY <1>1 DEF TextInv
<1>3. names = <<>>
    BY DEF Init, TemplateInit, TemplateIdle
<1>4. NamesInv
    <2>1. <<>> \in Seq({0})
        OBVIOUS
    <2> QED BY <1>3, <2>1 DEF NamesInv
<1>5. CASE TemplateInit
    <2>1. pos = 1 /\ code = {} /\ names = <<>>
        BY <1>5 DEF TemplateInit
    <2>2. Scanned \in Seq(C)
        BY <1>2, TrimmedIsPrefix DEF Scanned
    <2>3. ScanState(Scanned, Dialect, stage, 1, {}, <<>>)
        BY <2>2, ScanBegins
    <2> QED BY <1>1, <1>4, <2>1, <2>3 DEF ScanInv
<1>6. CASE TemplateIdle
    BY <1>1, <1>4, <1>6 DEF ScanInv, Known, TemplateIdle, Scanners
<1> QED BY <1>5, <1>6 DEF Init

(* On a portable text the automaton does not depend on the dialect.        *)
LEMMA PortableModes ==
    ASSUME NEW C, NEW t \in Seq(C), NEW d, Portable(t, d)
    PROVE  CodePositions(t, d) = CodePositions(t, "") /\ ParamNames(t, d) = ParamNames(t, "")
<1> DEFINE Modes == {"code", "'", "\"", "line", "open", "block", "star"}
           G == {k \in Nat : Mode(t, d)[k] = Mode(t, "")[k] /\ Mode(t, d)[k] \in Modes}
<1>1. Len(t) \in Nat /\ DOMAIN t = 1 .. Len(t)
    OBVIOUS
<1>2. 0 \in G
    BY <1>1, ModeUnfold
<1>3. ASSUME NEW k \in 1 .. Len(t), NEW m \in Modes
      PROVE  ModeAfter(m, t, k, d) = ModeAfter(m, t, k, "") /\ ModeAfter(m, t, k, d) \in Modes
    <2> DEFINE c == t[k]
    <2>1. d = "mysql" => c # "tick" /\ c # "#"
        BY <1>1 DEF Portable
    <2>2. d = "sqlserver" => c # "["
        BY <1>1 DEF Portable
    <2>3. (c \in Quotes(d) <=> c \in Quotes("")) /\ (c \in Quotes("") => c \in Modes)
        BY <2>1 DEF Quotes
    <2>4. m \in Quotes(d) <=> m \in Quotes("")
        BY DEF Quotes
    <2> HIDE DEF c
    <2>5. ModeAfter(m, t, k, d) = ModeAfter(m, t, k, "")
        BY <2>1, <2>2, <2>3, <2>4 DEF ModeAfter, c
    <2>6. ModeAfter(m, t, k, "") \in Modes
        BY <2>3 DEF ModeAfter, c
    <2> QED BY <2>5, <2>6
<1>4. ASSUME NEW k \in 0 + 1 .. Len(t), k - 1 \in G
      PROVE  k \in G
    <2>1. k \in 1 .. Len(t) /\ k \in Nat
        BY <1>1
    <2>2. /\ Mode(t, d)[k] = ModeAfter(Mode(t, d)[k - 1], t, k, d)
          /\ Mode(t, "")[k] = ModeAfter(Mode(t, "")[k - 1], t, k, "")
        BY <1>1, <2>1, ModeUnfold
    <2>3. Mode(t, d)[k - 1] = Mode(t, "")[k - 1] /\ Mode(t, d)[k - 1] \in Modes
        BY <1>4
    <2> HIDE DEF Modes
    <2>4. Mode(t, d)[k] = Mode(t, "")[k] /\ Mode(t, d)[k] \in Modes
        BY <1>3, <2>1, <2>2, <2>3
    <2> QED BY <2>1, <2>4
<1> HIDE DEF G
<1>5. \A k \in 0 .. Len(t) : k \in G
    <2> HIDE DEF Modes
    <2>1. PICK z : z = 0
        OBVIOUS
    <2>2. z \in Nat /\ Len(t) \in Int /\ z \in G
        BY <1>1, <1>2, <2>1
    <2>3. \A k \in z + 1 .. Len(t) : k - 1 \in G => k \in G
        BY <1>4, <2>1
    <2>4. \A k \in z .. Len(t) : k \in G
        BY <2>2, <2>3, Climb
    <2> QED BY <2>1, <2>4
<1>6. \A k \in 0 .. Len(t) : Mode(t, d)[k] = Mode(t, "")[k]
    BY <1>5 DEF G
<1>7. ASSUME NEW k \in DOMAIN t
      PROVE  k \in CodePositions(t, d) <=> k \in CodePositions(t, "")
    <2>1. k \in 0 .. Len(t) /\ k - 1 \in 0 .. Len(t)
        BY <1>1
    <2>2. Mode(t, d)[k] = Mode(t, "")[k] /\ Mode(t, d)[k - 1] = Mode(t, "")[k - 1]
        BY <1>6, <2>1
    <2>3. k \in CodePositions(t, d) <=>
              Mode(t, d)[k] = "code" /\ (Mode(t, d)[k - 1] = "code" \/ t[k] = "\n")
        BY CodeAt
    <2>4. k \in CodePositions(t, "") <=>
              Mode(t, "")[k] = "code" /\ (Mode(t, "")[k - 1] = "code" \/ t[k] = "\n")
        BY CodeAt
    <2> QED BY <2>2, <2>3, <2>4
<1>8. CodePositions(t, d) \subseteq DOMAIN t /\ CodePositions(t, "") \subseteq DOMAIN t
    BY DEF CodePositions
<1>9. CodePositions(t, d) = CodePositions(t, "")
    BY <1>7, <1>8
<1> QED BY <1>9 DEF ParamNames

LEMMA ScanEnds == ScanInv => ScansMatchReference
<1> SUFFICES ASSUME ScanInv, stage \in Scanners, pos > Len(Scanned), NoTaggedQuote(text, dialect),
                    stage = "bind" => Portable(text, dialect)
             PROVE  /\ code = CodePositions(Scanned, dialect)
                    /\ stage # "strip" => Range(names) = ParamNames(text, dialect)
    BY DEF ScansMatchReference
<1> DEFINE t == Scanned
           d == Dialect
           K == CodePositions(t, d)
<1>1. PICK C : text \in Seq(C)
    BY DEF ScanInv, TextInv
<1>2. t \in Seq(C)
    BY <1>1, TrimmedIsPrefix DEF Scanned
<1>3. Len(t) \in Nat /\ DOMAIN t = 1 .. Len(t)
    BY <1>2
<1>4. ScanState(t, d, stage, pos, code, names)
    BY DEF ScanInv, Known
<1>5. /\ pos \in Nat /\ code = {k \in K : k < pos}
      /\ stage # "strip" => Range(names) = MetBefore(t, K, pos)
    BY <1>4 DEF ScanState
<1>6. K \subseteq 1 .. Len(t) /\ ParamStarts(t, K) \subseteq K
    BY <1>3 DEF CodePositions, ParamStarts
<1>7. stage # "strip" => t = text
    BY DEF Scanned
<1> HIDE DEF t, d, K
<1>8. pos > Len(t)
    BY DEF t
<1>9. \A k \in 1 .. Len(t) : k < pos
    BY <1>3, <1>5, <1>8
<1>10. code = K
    BY <1>5, <1>6, <1>9
<1>11. {k \in ParamStarts(t, K) : k < pos} = ParamStarts(t, K)
    BY <1>6, <1>9
<1>12. MetBefore(t, K, pos) = ParamNames(t, d)
    BY <1>11 DEF MetBefore, ParamNames, K
<1>13. /\ code = CodePositions(Scanned, Dialect)
       /\ stage # "strip" => Range(names) = ParamNames(text, Dialect)
    BY <1>5, <1>7, <1>10, <1>12 DEF t, d, K
<1>14. CASE stage # "bind"
    BY <1>13, <1>14 DEF Dialect
<1>15. CASE stage = "bind"
    <2>1. Dialect = "" /\ Scanned = text
        BY <1>15 DEF Dialect, Scanned
    <2>2. /\ CodePositions(text, dialect) = CodePositions(text, "")
          /\ ParamNames(text, dialect) = ParamNames(text, "")
        BY <1>1, <1>15, PortableModes
    <2> QED BY <1>13, <2>1, <2>2
<1> QED BY <1>14, <1>15

(* All scanners tell code from quotes and comments, and find the           *)
(* parameters, as one pass of the automaton for the connection's dialect   *)
(* does: for every text without dollar and q' quotes, however long and     *)
(* over whatever other characters, and for the binder, which knows no      *)
(* dialect, for every portable one.                                        *)
THEOREM ReferenceTheorem == Spec => []ScansMatchReference
<1>1. ScanInv /\ [Next]_vars => ScanInv'
    BY ScanInvStep, Parts
<1> QED BY ScanInvStarts, <1>1, ScanEnds, PTL DEF Spec
=============================================================================
