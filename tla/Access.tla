------------------------------- MODULE Access -------------------------------
(***************************************************************************)
(* Who may call an API and how often: the checks of the gateway's pipeline *)
(* (internal/gatewaysvc/service.go, metadata.go), those of the             *)
(* policy-engine (internal/policyengine/service.go), the fixed windows in  *)
(* Redis (internal/policy/ratelimit.go) and the edits of the admin backend.*)
(*                                                                         *)
(* One client calls one API from one address.  A gateway decides by the    *)
(* snapshot it finds at each check; a gateway without one, and the engine, *)
(* by the tables.  An allow list entry or a rule says whether it names no  *)
(* client (any), this one or another, the same for the API, and an entry   *)
(* whether its network contains the address.  Windows are numbered from    *)
(* the shortest; a limit of 0 is none.                                     *)
(***************************************************************************)
EXTENDS Naturals, Sequences

CONSTANTS GatewayAskers, \* requests to the gateway under way at once
          EngineAskers, \* requests to the policy-engine
          Entries,      \* allow list entries there may be
          AllowLists,   \* what the allow list may hold at first
          RuleTables,   \* what the table of rate limit rules may hold
          Windows,      \* how many windows a rule has
          MaxRate,      \* the largest limit the columns hold
          MaxCount,     \* bound: requests counted in one window
          MaxEdits      \* bound: edits of the policies

ASSUME AccessAssumption ==
    /\ Windows \in Nat /\ MaxRate \in Nat
    /\ AllowLists \subseteq SUBSET Entries
    /\ \A rules \in RuleTables : \A rule \in rules : rule.limit \in [1 .. Windows -> 0 .. MaxRate]

VARIABLES policy,       \* the tables
          edits,        \* how many edits they have had
          snapshot,     \* service.metadata, or NoSnapshot
          load,         \* loadRoutes: its next statement, what it has read
          asks,         \* the requests
          count,        \* the window keys in Redis; 0: there is none
          admitted,     \* history: requests each window has let through
          ceiling       \* history: the largest limit it has been asked to hold

accessVars == <<policy, edits, snapshot, load, asks, count, admitted, ceiling>>

(* What loadRoutes reads, in order.  Rules and entries are two statements, *)
(* but nothing below relates the one to the other.                         *)
Statements == <<{"client"}, {"granted"}, {"rules", "entries"}>>

NoSnapshot == [client |-> "none", granted |-> FALSE, rules |-> {}, entries |-> {}, nil |-> TRUE]
Askers == GatewayAskers \cup EngineAskers
AskedOf(r) == IF r \in EngineAskers THEN "engine" ELSE "gateway"
NoLimit == [w \in 1 .. Windows |-> 0]
NotAsking == [at |-> "idle", by |-> "", held |-> {}, limit |-> NoLimit, allowed |-> NoLimit]

(* The view that decides a request to the gateway or to the engine.        *)
Chosen(by, snap, tables) == IF by = "engine" \/ snap.nil THEN tables ELSE snap
View(r) == Chosen(asks[r].by, snapshot, policy)
Direct(r) == asks[r].by = "engine" \/ snapshot.nil

(* clientByClientID turns to the tables when the snapshot lacks the client.*)
ClientStatus(view, tables) ==
    IF view.client \in {"active", "inactive"} THEN view.client ELSE tables.client

Applies(e) == e.active /\ (e.level = "global" \/ e.client = "this" \/ e.api = "this")

(* Fault: an empty list restricts nothing.                                 *)
EmptyAllows(entries) ==
    LET found == {e \in entries : Applies(e)} IN found = {} \/ \E e \in found : e.covers

IPAllowed(entries) ==
    LET found == {e \in entries : Applies(e)} IN found # {} /\ \E e \in found : e.covers

(* The rule that decides.  The snapshot's rules are sorted by how many of  *)
(* client and API they name, the table's order, place, breaking ties; the  *)
(* tables are asked for the rules that name the client first.              *)
RuleApplies(rule) == rule.client \in {"any", "this"} /\ rule.api \in {"any", "this"}
Names(x) == IF x = "any" THEN 0 ELSE 1
specificity(rule) == Names(rule.client) + Names(rule.api)
Rank(rule) == 2 * Names(rule.client) + Names(rule.api)

FirstPlaced(found) == {rule \in found : \A o \in found : rule.place <= o.place}
MostSpecific(found) == {rule \in found : \A o \in found : specificity(rule) >= specificity(o)}

(* Fault: the rules are taken in the order of the table.                   *)
Unsorted(found, direct) == FirstPlaced(found)

FirstRules(found, direct) ==
    IF direct THEN {rule \in found : \A o \in found : Rank(rule) >= Rank(o)}
    ELSE FirstPlaced(MostSpecific(found))

-----------------------------------------------------------------------------
(* The grounds for admitting, as the view has them now; whenever           *)
(* something changes they are added to those it has had.                   *)
Grounds(view, tables) ==
    (IF ClientStatus(view, tables) = "active" THEN {"active"} ELSE {})
        \cup (IF view.granted THEN {"granted"} ELSE {})
        \cup (IF \E e \in view.entries : Applies(e) /\ e.covers THEN {"covered"} ELSE {})

Note(next) ==
    asks' = [r \in Askers |->
        IF next[r].at \in {"idle", "admitted"} THEN next[r]
        ELSE [next[r] EXCEPT !.held = @ \cup Grounds(Chosen(next[r].by, snapshot', policy'), policy')]]

AccessInit ==
    /\ \E rules \in RuleTables, entries \in AllowLists :
          policy = [client |-> "active", granted |-> TRUE, entries |-> entries, rules |-> rules,
                    nil |-> FALSE]
    /\ edits = 0
    /\ snapshot \in {NoSnapshot, policy}
    /\ load = [next |-> 1, got |-> NoSnapshot]
    /\ asks = [r \in Askers |-> NotAsking]
    /\ count = NoLimit /\ admitted = NoLimit /\ ceiling = NoLimit

(* The edits of the admin backend, each one transaction.                   *)
Edit(new) ==
    /\ edits < MaxEdits /\ edits' = edits + 1
    /\ policy' = new
    /\ UNCHANGED <<snapshot, load, count, admitted, ceiling>>
    /\ Note(asks)

ClientExists == policy.client \in {"active", "inactive"}

SetStatus ==
    /\ ClientExists
    /\ Edit([policy EXCEPT !.client = IF @ = "active" THEN "inactive" ELSE "active"])

SetClientAPIs == ClientExists /\ Edit([policy EXCEPT !.granted = ~@])

(* The rows that name a client go with it.                                 *)
RemoveClient ==
    /\ ClientExists
    /\ Edit([policy EXCEPT !.client = "deleted", !.granted = FALSE,
                           !.entries = {e \in @ : e.client # "this"},
                           !.rules = {rule \in @ : rule.client # "this"}])

ChangeRateLimits(rules) ==
    /\ rules # policy.rules
    /\ Edit([policy EXCEPT !.rules = rules])

ChangeIPWhitelist(e) ==
    Edit([policy EXCEPT !.entries = IF e \in @ THEN @ \ {e} ELSE @ \cup {e}])

(* One statement of loadRoutes.                                            *)
ReadTable ==
    /\ load.next <= Len(Statements)
    /\ load' = [next |-> load.next + 1,
                got |-> [t \in DOMAIN policy |->
                    IF t \in Statements[load.next] THEN policy[t] ELSE load.got[t]]]
    /\ UNCHANGED <<policy, edits, snapshot, asks, count, admitted, ceiling>>

(* A statement that fails leaves the old snapshot.                         *)
LoadFails ==
    /\ load.next \in 2 .. Len(Statements)
    /\ load' = [next |-> 1, got |-> NoSnapshot]
    /\ UNCHANGED <<policy, edits, snapshot, asks, count, admitted, ceiling>>

SwapSnapshot ==
    /\ load.next > Len(Statements)
    /\ snapshot' = [load.got EXCEPT !.nil = FALSE]
    /\ load' = [next |-> 1, got |-> NoSnapshot]
    /\ UNCHANGED <<policy, edits, count, admitted, ceiling>>
    /\ Note(asks)

-----------------------------------------------------------------------------
Proceed(r, next) ==
    /\ UNCHANGED <<policy, edits, snapshot, load>>
    /\ Note([asks EXCEPT ![r] = next])

(* What matters of an admitted request is why it was admitted.             *)
Admitted(r) == [NotAsking EXCEPT !.at = "admitted", !.held = asks[r].held]

(* One check: it either goes on or refuses.                                *)
Check(r, at, passes, next) ==
    /\ asks[r].at = at
    /\ Proceed(r, IF passes THEN [asks[r] EXCEPT !.at = next] ELSE NotAsking)
    /\ UNCHANGED <<count, admitted, ceiling>>

HasScope(scopes, required) == required = "" \/ required \in scopes

(* The gateway takes a token that a known key has signed with RS256, for   *)
(* this issuer and audience, and whose time is now.                        *)
ParseAccessToken(token) == token.signed /\ token.ours /\ token.timely
authenticate(scopes) ==
    \E token \in [signed : BOOLEAN, ours : BOOLEAN, timely : BOOLEAN, scope : {scopes}] :
        ParseAccessToken(token)

(* The gateway has the scopes from the token, the engine from its caller.  *)
(* The gateway checks them before the client, the engine after it; no      *)
(* state is involved, and a request refused here never shows.              *)
Ask(r) ==
    LET by == AskedOf(r) IN
    /\ asks[r].at = "idle"
    /\ \E scopes \in SUBSET {"read"}, required \in {"", "read"} :
          (by = "gateway" => authenticate(scopes)) /\ HasScope(scopes, required)
    /\ Proceed(r, [NotAsking EXCEPT !.at = "client", !.by = by])
    /\ UNCHANGED <<count, admitted, ceiling>>

CheckClient(r) == Check(r, "client", ClientStatus(View(r), policy) = "active", "grant")
CheckGrant(r) == Check(r, "grant", View(r).granted, "address")
CheckIP(r) == Check(r, "address", IPAllowed(View(r).entries), "rules")

(* rateLimitRulesFor.  allowed: what the most specific rules allow, window *)
(* by window.                                                              *)
Largest(S) == CHOOSE n \in S : \A m \in S : m <= n
ReadRules(r) ==
    LET found == {rule \in View(r).rules : RuleApplies(rule)}
        Allowed(w) == Largest({rule.limit[w] : rule \in MostSpecific(found)})
    IN /\ asks[r].at = "rules"
       /\ \/ found = {} /\ Proceed(r, Admitted(r))
          \/ \E rule \in FirstRules(found, Direct(r)) :
                Proceed(r, [asks[r] EXCEPT !.at = "limit", !.limit = rule.limit,
                                           !.allowed = [w \in 1 .. Windows |-> Allowed(w)]])
       /\ UNCHANGED <<count, admitted, ceiling>>

(* A statement fails.  Without client, grants or allow list the request is *)
(* refused; without rules it is admitted.                                  *)
StoreFails(r) ==
    /\ asks[r].at \in {"client", "grant", "address", "rules"}
    /\ Direct(r) \/ (asks[r].at = "client" /\ View(r).client = "deleted")
    /\ Proceed(r, IF asks[r].at = "rules" THEN Admitted(r) ELSE NotAsking)
    /\ UNCHANGED <<count, admitted, ceiling>>

(* multiWindowScript: the windows with a limit, in order, up to the first  *)
(* that is exceeded.                                                       *)
Counted(limit) ==
    {w \in 1 .. Windows : limit[w] > 0
        /\ \A v \in 1 .. w - 1 : limit[v] > 0 => count[v] + 1 <= limit[v]}
Exceeded(limit) == \E w \in Counted(limit) : count[w] + 1 > limit[w]
Hit(limit) == count' = [w \in 1 .. Windows |-> IF w \in Counted(limit) THEN count[w] + 1 ELSE count[w]]
Room == \A w \in 1 .. Windows : count[w] < MaxCount

Allow(r) ==
    LET limit == asks[r].limit IN
    /\ asks[r].at = "limit" /\ Room
    /\ Hit(limit)
    /\ ceiling' = [w \in 1 .. Windows |->
          IF w \in Counted(limit) /\ asks[r].allowed[w] > ceiling[w] THEN asks[r].allowed[w]
                                                                     ELSE ceiling[w]]
    /\ admitted' = IF Exceeded(limit) THEN admitted
                   ELSE [w \in 1 .. Windows |-> IF w \in Counted(limit) THEN admitted[w] + 1 ELSE admitted[w]]
    /\ Proceed(r, IF Exceeded(limit) THEN NotAsking ELSE Admitted(r))

(* The script's answer is an error, whether or not it ran: the engine and  *)
(* a gateway in fail mode open admit, one in fail mode closed refuses.     *)
LimiterFails(r) ==
    /\ asks[r].at = "limit" /\ Room
    /\ Hit(asks[r].limit) \/ UNCHANGED count
    /\ \/ Proceed(r, Admitted(r))
       \/ asks[r].by = "gateway" /\ Proceed(r, NotAsking)
    /\ UNCHANGED <<admitted, ceiling>>

(* The request is over; what an admitted one goes on to do is elsewhere.   *)
Leave(r) == Check(r, "admitted", FALSE, "idle")

WindowExpires(w) ==
    /\ count[w] > 0
    /\ count' = [count EXCEPT ![w] = 0]
    /\ admitted' = [admitted EXCEPT ![w] = 0]
    /\ ceiling' = [ceiling EXCEPT ![w] = 0]
    /\ UNCHANGED <<policy, edits, snapshot, load, asks>>

AccessNext ==
    \/ SetStatus \/ SetClientAPIs \/ RemoveClient
    \/ \E rules \in RuleTables : ChangeRateLimits(rules)
    \/ \E e \in Entries : ChangeIPWhitelist(e)
    \/ ReadTable \/ LoadFails \/ SwapSnapshot
    \/ \E r \in Askers :
          \/ Ask(r) \/ CheckClient(r) \/ CheckGrant(r) \/ CheckIP(r) \/ ReadRules(r) \/ StoreFails(r)
          \/ Allow(r) \/ LimiterFails(r) \/ Leave(r)
    \/ \E w \in 1 .. Windows : WindowExpires(w)

-----------------------------------------------------------------------------
(* A request is admitted only if, at some moment since it came in, its     *)
(* client was active, at some moment the API was granted, and at some      *)
(* moment an active entry of the allow list contained its address, in the  *)
(* view that decides: neither a swap of the snapshot between two checks    *)
(* nor a list that became empty opens a way around one                     *)
(* (gatewaysvc/service.go:209, 411).                                       *)
AdmittedOnGrounds ==
    \A r \in Askers : asks[r].at = "admitted" => asks[r].held = {"active", "granted", "covered"}

(* While a window lasts, the script admits no more requests in it than the *)
(* largest limit that the most specific rules gave for it meanwhile,       *)
(* although requests hold the limits of different rules, some of them out  *)
(* of date, and refused requests count as well (policy/ratelimit.go:24,    *)
(* gatewaysvc/metadata.go:82).  Requests that are let through without the  *)
(* script, because it or the rules could not be had, are not counted.      *)
QuotaHolds == \A w \in 1 .. Windows : admitted[w] <= ceiling[w]
=============================================================================
