------------------------------ MODULE Platform ------------------------------
(***************************************************************************)
(* The parts of the platform whose state is their own: what becomes of a   *)
(* template and of a request's path, parameters and page; refresh tokens;  *)
(* signing keys; access policies and rate windows; signed calls between    *)
(* services; dashboard users; the request log; backups; the lifecycle of   *)
(* API definitions.  None reads what another writes, so a behaviour        *)
(* follows one of them, its subject, and their interleavings, which no     *)
(* property could tell apart, are left out.  (What a gateway reads of the  *)
(* catalog is in module RouteSync.)                                        *)
(***************************************************************************)
EXTENDS Template, RequestShape, Tokens, SigningKeys, Access, InternalAuth,
        Identity, RequestLog, Backups, Lifecycle

VARIABLE subject

vars == <<subject, templateVars, shapeVars, tokenVars, keyVars, accessVars,
          authVars, identityVars, logVars, backupVars, lifecycleVars>>

(* The state of a part whose turn it is not.                               *)
TemplateIdle ==
    /\ stage = "refused" /\ dialect = "" /\ text = <<>>
    /\ pos = 1 /\ code = {} /\ names = <<>> /\ declared = {}
ShapeIdle ==
    /\ step = "refused" /\ table = <<>> /\ path = <<>> /\ idx = 1 /\ found = 0
    /\ route = <<>> /\ params = <<>> /\ clauses = <<>> /\ paging = <<>>

Init ==
    /\ TokensInit /\ KeysInit /\ AccessInit /\ AuthInit /\ IdentityInit /\ LogInit /\ BackupsInit
    /\ LifecycleInit
    /\ \/ subject = "template" /\ TemplateInit /\ ShapeIdle
       \/ subject = "request" /\ ShapeInit /\ TemplateIdle
       \/ /\ subject \in {"tokens", "keys", "access", "auth", "identity", "log", "backups",
                          "lifecycle"}
          /\ TemplateIdle /\ ShapeIdle
    /\ subject # "access" =>
          /\ snapshot.nil /\ policy.entries = CHOOSE entries \in AllowLists : TRUE
          /\ policy.rules = CHOOSE rules \in RuleTables : TRUE
    /\ subject # "auth" => moment = MaxAhead
    /\ subject # "lifecycle" => status = [a \in APIs |-> CHOOSE s \in InitialStatuses : TRUE]

Next ==
    /\ UNCHANGED subject
    /\ IF subject = "template" THEN TemplateNext ELSE UNCHANGED templateVars
    /\ IF subject = "request" THEN ShapeNext ELSE UNCHANGED shapeVars
    /\ IF subject = "tokens" THEN TokensNext ELSE UNCHANGED tokenVars
    /\ IF subject = "keys" THEN KeysNext ELSE UNCHANGED keyVars
    /\ IF subject = "access" THEN AccessNext ELSE UNCHANGED accessVars
    /\ IF subject = "auth" THEN AuthNext ELSE UNCHANGED authVars
    /\ IF subject = "identity" THEN IdentityNext ELSE UNCHANGED identityVars
    /\ IF subject = "log" THEN LogNext ELSE UNCHANGED logVars
    /\ IF subject = "backups" THEN BackupsNext ELSE UNCHANGED backupVars
    /\ IF subject = "lifecycle" THEN LifecycleNext ELSE UNCHANGED lifecycleVars

Spec == Init /\ [][Next]_vars

-----------------------------------------------------------------------------
(* Inputs for TLC.                                                         *)
PathSegments == {<<"x">>, <<"y">>}
RouteTables ==
    LET P == <<"p">>
        Routes == [method : {"GET"}, segs : {<<<<"x">>, P>>, <<P, <<"y">>>>, <<<<"x">>, <<"y">>>>, <<P>>}]
                     \cup [method : {"POST"}, segs : {<<<<"x">>, <<"y">>>>}]
    IN {t \in UNION {[1 .. n -> Routes] : n \in 1 .. 3} : IsInjective(t)}

Declarations1 ==
    [name : {<<"p">>}, source : {"path", "query"}, type : {"int", "string"}, required : BOOLEAN,
     default : {"none", "empty", "number"}, maxLength : BOOLEAN, rule : {FALSE}]
DeclaredLists ==
    {<<>>} \cup {<<p>> : p \in Declarations1}
        \cup {<<p, [name |-> <<"r">>, source |-> "body", type |-> "string", required |-> FALSE,
                    default |-> "none", maxLength |-> FALSE, rule |-> TRUE]>> : p \in Declarations1}

(* a.b and a_b are joined differently and sanitised alike; a is the first  *)
(* word of both; a_0 looks like a placeholder of a.                        *)
Filters ==
    LET Named(words, joint) == [name |-> [words |-> words, joint |-> joint],
                                ops |-> {"eq", "in", "between", "isnull"}]
        a == <<"a">>
        b == <<"b">>
    IN {Named(<<a, b>>, "."), Named(<<a, b>>, "_"), Named(<<a>>, ""), Named(<<a, Numeral(0)>>, "_")}
BuilderFilters ==
    {f \in UNION {[1 .. n -> Filters] : n \in 1 .. 3} : IsInjective(f)}

Entry(level, c, a, covers) ==
    [level |-> level, client |-> c, api |-> a, active |-> TRUE, covers |-> covers]
AllowListEntries == {Entry("client", "this", "any", TRUE), Entry("global", "any", "any", FALSE)}
FirstAllowLists == {{e} : e \in AllowListEntries}

(* In the first table the specific rule is the stricter one, in the second *)
(* two rules are equally specific.                                         *)
Rule(place, c, a, limit) == [place |-> place, client |-> c, api |-> a, limit |-> limit]
RateLimits ==
    {{Rule(1, "any", "any", <<2, 0>>), Rule(2, "this", "any", <<1, 2>>)},
     {Rule(1, "any", "this", <<0, 2>>), Rule(2, "this", "any", <<2, 1>>)}}
=============================================================================
