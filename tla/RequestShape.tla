---------------------------- MODULE RequestShape ----------------------------
(***************************************************************************)
(* How a request that has passed the access checks becomes a statement:    *)
(* Router.Match, ResolveParams, BuildDynamicQuery (internal/gateway),      *)
(* service.pagination and buildPayload (internal/gatewaysvc) and the       *)
(* connector's ApplyPagination (internal/connectors).                      *)
(*                                                                         *)
(* Text is abstracted to what these functions tell apart: a path is a      *)
(* sequence of segments, a raw value is one of a few kinds, a filter name  *)
(* is its words and what joins them.  Inputs are drawn when a stage reads  *)
(* them and forgotten when no later stage does.                            *)
(***************************************************************************)
EXTENDS Integers, Sequences, FiniteSets, FiniteSetsExt, Functions

CONSTANTS
    Segments,       \* path segments
    Tables,         \* route tables: sequences of [method, segs]
    ParamLists,     \* declared parameters of an API
    FilterLists,    \* filters of a query builder
    Width,          \* bits of an int
    DefaultLimit, MaxLimit,     \* of the API
    GatewayMax,                 \* cfg.Gateway.MaxLimit
    Rows                        \* rows the statement has without paging

ASSUME TablesAssumption == \A t \in Tables : t \in Seq({t[i] : i \in DOMAIN t})

ASSUME FiltersAssumption ==
    \A l \in FilterLists :
        /\ l \in Seq({l[i] : i \in DOMAIN l})
        /\ \A i \in DOMAIN l : LET w == l[i].name.words IN w \in Seq({w[j] : j \in DOMAIN w})

VARIABLES
    step,           \* where the request is
    table, path,    \* the route table it met and what it asks for
    idx, found,     \* the loop of Match: route looked at, first match with parameters
    route,          \* the route it got
    params,         \* values to bind
    clauses,        \* conditions of the statement, with placeholders
    paging          \* what was asked for and what came of it

shapeVars == <<step, table, path, idx, found, route, params, clauses, paging>>

None == "none"
Steps == {"match", "unmatched", "resolve", "build", "built", "page", "answered", "refused"}

-----------------------------------------------------------------------------
(* Router.Match.                                                           *)

IsVariable(seg) == seg \notin Segments
HasParam(rt) == \E i \in DOMAIN rt.segs : IsVariable(rt.segs[i])
Fits(rt, p) ==
    /\ rt.method = "GET"
    /\ Len(rt.segs) = Len(p)
    /\ \A i \in DOMAIN p : IsVariable(rt.segs[i]) \/ rt.segs[i] = p[i]
PathParams(rt, p) ==
    [n \in {rt.segs[i] : i \in {j \in DOMAIN p : IsVariable(rt.segs[j])}} |->
        p[Max({i \in DOMAIN p : rt.segs[i] = n})]]

ShapeInit ==
    /\ step = "match"
    /\ table \in Tables
    /\ path \in UNION {[1 .. n -> Segments] : n \in 1 .. 2}
    /\ idx = 1 /\ found = 0
    /\ route = <<>> /\ params = <<>> /\ clauses = <<>> /\ paging = <<>>

Take(rt) ==
    /\ step' = "resolve"
    /\ route' = rt
    /\ params' = PathParams(rt, path)

(* Fault: the first match is taken.                                        *)
AnyMatchWins(rt) == TRUE

(* A match without parameters ends the search.                             *)
WinsAtOnce(rt) == ~HasParam(rt)

MatchNext ==
    /\ step = "match" /\ idx <= Len(table)
    /\ LET rt == table[idx]
       IN IF Fits(rt, path) /\ WinsAtOnce(rt)
          THEN Take(rt) /\ UNCHANGED <<idx, found>>
          ELSE /\ idx' = idx + 1
               /\ found' = IF Fits(rt, path) /\ found = 0 THEN idx ELSE found
               /\ UNCHANGED <<step, route, params>>
    /\ UNCHANGED <<table, path, clauses, paging>>

MatchEnds ==
    /\ step = "match" /\ idx > Len(table)
    /\ IF found # 0 THEN Take(table[found])
       ELSE step' = "unmatched" /\ UNCHANGED <<route, params>>
    /\ UNCHANGED <<table, path, idx, found, clauses, paging>>

(* Whatever order the catalog lists the routes in, a path that is a        *)
(* published route word for word gets that route, and any path that some   *)
(* route fits gets one that fits it.                                       *)
LiteralRouteWins ==
    LET fitting == {i \in DOMAIN table : Fits(table[i], path)}
    IN /\ step = "resolve" => Fits(route, path)
       /\ step = "resolve" /\ (\E i \in fitting : ~HasParam(table[i])) => ~HasParam(route)
       /\ step = "unmatched" => fitting = {}

-----------------------------------------------------------------------------
(* ResolveParams.  A raw value is missing, empty, a number, a word or too  *)
(* long a word; a parameter may have a default, a type, a length and a     *)
(* rule that only numbers meet.                                            *)

RawValues == {"missing", "empty", "number", "word", "long"}
Null == "null"
Refused == "refused"

coerce(p, raw) == IF p.type = "int" /\ raw # "number" THEN Refused ELSE raw

Value(p, raw) ==
    LET given == IF raw \in {"missing", "empty"} THEN p.default ELSE raw
    IN CASE given = None -> IF p.required THEN Refused ELSE Null
         [] given # None /\ \/ p.maxLength /\ given = "long"
                            \/ p.rule /\ given # "number" -> Refused
         [] OTHER -> coerce(p, given)

(* Path parameters come from the route; the others are what the client     *)
(* sends.                                                                  *)
rawValue(p) ==
    IF p.source = "path" THEN IF p.name \in DOMAIN params THEN {"word"} ELSE {"missing"}
    ELSE RawValues

Resolve ==
    /\ step = "resolve"
    /\ \E list \in ParamLists :
       \E raw \in {f \in [DOMAIN list -> RawValues] : \A i \in DOMAIN list : f[i] \in rawValue(list[i])} :
          LET value == [i \in DOMAIN list |-> Value(list[i], raw[i])]
          IN IF Refused \in Range(value)
             THEN step' = "refused" /\ params' = <<>>
             ELSE /\ step' = "build"
                  /\ params' = [n \in {list[i].name : i \in DOMAIN list} |->
                                  value[Max({i \in DOMAIN list : list[i].name = n})]]
    /\ table' = <<>> /\ path' = <<>> /\ route' = <<>> /\ idx' = 0 /\ found' = 0
    /\ UNCHANGED <<clauses, paging>>

-----------------------------------------------------------------------------
(* BuildDynamicQuery.  A filter is [name, ops]; a name is [words, joint],  *)
(* and sanitizeName forgets the joint.  A value is [op, parts].  A word is *)
(* a tuple, and the number n written out is Numeral(n).                    *)

sanitizeName(name) == name.words
Numeral(n) == <<"number", n>>

paramsForPrefix(keys, base) ==
    {k \in keys : Len(k) > Len(base) /\ SubSeq(k, 1, Len(base)) = base}

(* Fault: every filter counts its own placeholders only.                   *)
OwnCount(keys, base, own) == own

(* The number a placeholder gets: how many have the filter's prefix.       *)
KeyNumber(keys, base, own) == Cardinality(paramsForPrefix(keys, base))

operatorAllowed(f, op) == op \in f.ops \/ (f.ops = {} /\ op = "eq")
EnoughParts(v) ==
    CASE v.op = "between" -> Len(v.parts) = 2
      [] v.op = "in" -> v.parts # <<>>
      [] v.op = "isnull" -> TRUE
      [] OTHER -> Len(v.parts) = 1
Bound(v) == IF v.op = "isnull" THEN <<>> ELSE v.parts

(* One more placeholder, bound to val.                                     *)
AddHolder(b, base, val, own) ==
    LET key == Append(base, Numeral(KeyNumber(DOMAIN b.map, base, own)))
    IN [map |-> [x \in DOMAIN b.map \cup {key} |-> IF x = key THEN val ELSE b.map[x]],
        holders |-> Append(b.holders, key)]

(* The placeholders a clause adds, one after the other.                    *)
WithHolders(built, base, vals) ==
    LET after[k \in 0 .. Len(vals)] ==
            IF k = 0 THEN [map |-> built, holders |-> <<>>]
            ELSE AddHolder(after[k - 1], base, vals[k], k - 1)
    IN after[Len(vals)]

(* What filter i adds, given the value v the query has for it, if any.     *)
AddClause(b, f, i, v) ==
    LET h == WithHolders(b.map, sanitizeName(f.name), Bound(v))
    IN IF v.op = None \/ ~b.ok THEN b
       ELSE IF ~operatorAllowed(f, v.op) \/ ~EnoughParts(v) THEN [b EXCEPT !.ok = FALSE]
       ELSE [map |-> h.map, ok |-> TRUE,
             clauses |-> Append(b.clauses, [filter |-> i, op |-> v.op,
                                            holders |-> h.holders, vals |-> Bound(v)])]

(* where: the filters in order.                                            *)
where(filters, query) ==
    LET after[i \in 0 .. Len(filters)] ==
            IF i = 0 THEN [map |-> <<>>, clauses |-> <<>>, ok |-> TRUE]
            ELSE AddClause(after[i - 1], filters[i], i, query[i])
    IN after[Len(filters)]

(* What the query gives filter i: nothing, or an operator and its values.  *)
FilterValues(i) ==
    {[op |-> None, parts |-> <<>>]}
        \cup [op : {"eq"}, parts : {<<<<i, 1>>>>}]
        \cup [op : {"in", "between"}, parts : {<<<<i, 1>>, <<i, 2>>>>}]
        \cup [op : {"between", "isnull"}, parts : {<<<<i, 1>>>>}]

(* Without a query builder the template is taken as it is.                 *)
BuildTemplate ==
    /\ step = "build"
    /\ step' = "built" /\ clauses' = <<>>
    /\ UNCHANGED <<table, path, idx, found, route, params, paging>>

(* The other parameters of the query: those of the page pass, any other    *)
(* that is no filter is refused; so is a sort by a column the builder does *)
(* not list, ascending or not, and a builder with an identifier that is    *)
(* not plain.                                                              *)
ignoredQueryParam(name) == name \in {"page", "limit", "offset", "sort"}
orderBy(sort) == sort \in {None, "listed"}
Validate(identifiers) == identifiers \subseteq {"plain"} /\ identifiers # {}

Accepted(others, sort, identifiers) ==
    /\ Validate(identifiers) /\ orderBy(sort)
    /\ \A name \in others : ignoredQueryParam(name)

(* What a query may have for the filters.                                  *)
Queries(filters) ==
    {q \in [DOMAIN filters -> UNION {FilterValues(i) : i \in DOMAIN filters}] :
        \A i \in DOMAIN filters : q[i] \in FilterValues(i)}

(* The generated parameters join the declared ones.                        *)
Built(b) ==
    /\ step' = "built" /\ clauses' = b.clauses
    /\ params' = [k \in DOMAIN params \cup DOMAIN b.map |->
                     IF k \in DOMAIN b.map THEN b.map[k] ELSE params[k]]

Build ==
    /\ step = "build"
    /\ \E filters \in FilterLists : \E query \in Queries(filters) :
       \E accepted \in {Accepted(others, sort, identifiers) :
                           others \in SUBSET {"page", "other"}, sort \in {None, "listed", "unlisted"},
                           identifiers \in SUBSET {"plain", "other"}} :
          LET b == where(filters, query)
          IN IF b.ok /\ accepted THEN Built(b)
             ELSE step' = "refused" /\ UNCHANGED <<params, clauses>>
    /\ UNCHANGED <<table, path, idx, found, route, paging>>

(* Every placeholder of the statement is bound to the value its own        *)
(* condition was given, whatever the other filters are called.             *)
HoldersKeepValues ==
    \A c \in Range(clauses) : \A k \in DOMAIN c.holders :
        c.holders[k] \in DOMAIN params /\ params[c.holders[k]] = c.vals[k]

(* The statement goes to the connector; which page of it is served does    *)
(* not depend on it.                                                       *)
Hand ==
    /\ step = "built" /\ step' = "page"
    /\ params' = <<>> /\ clauses' = <<>>
    /\ UNCHANGED <<table, path, idx, found, route, paging>>

-----------------------------------------------------------------------------
(* Paging.                                                                 *)

Top == 2 ^ (Width - 1)
Wrap(n) == ((n + Top) % (2 * Top)) - Top
Ints == -Top .. Top - 1

(* ValidateForPublish lets no API through without a positive default.      *)
ASSUME PagingAssumption ==
    /\ Width \in Nat \ {0} /\ Top \in Nat \ {0}
    /\ DefaultLimit \in Nat \ {0} /\ MaxLimit \in Int /\ GatewayMax \in Int
    /\ Rows \in Nat

(* Fault: the gateway's own ceiling is left out.                           *)
ApiCeilingOnly(asked) ==
    LET wanted == IF asked > 0 THEN asked ELSE DefaultLimit
    IN Min({wanted} \cup {m \in {MaxLimit} : m > 0})

(* effectiveLimit: what is asked for, if positive, under both ceilings.    *)
effectiveLimit(asked) ==
    LET wanted == IF asked > 0 THEN asked ELSE DefaultLimit
        ceilings == {wanted} \cup {m \in {MaxLimit, GatewayMax} : m > 0}
    IN Min(ceilings)

(* pagination: a page sets the offset, an offset then sets both.  0 stands *)
(* for an absent page, -1 for an absent offset.                            *)
pagination(asked) ==
    LET limit == effectiveLimit(asked.limit)
        byPage == IF asked.page > 0 THEN [page |-> asked.page, offset |-> Wrap((asked.page - 1) * limit)]
                  ELSE [page |-> 1, offset |-> 0]
        byOffset == IF asked.offset >= 0 THEN [page |-> (asked.offset \div limit) + 1, offset |-> asked.offset]
                    ELSE byPage
    IN [limit |-> limit, page |-> byOffset.page, offset |-> byOffset.offset]

(* ApplyPagination: the arguments it appends, and what the clause of the   *)
(* dialect takes the first and the second for.                             *)
AppendedArgs(d, limit, offset) ==
    LET from == Max({offset, 0})
    IN IF d = "postgres" THEN <<limit, from>> ELSE <<from, limit>>
RoleOf(d, k) == IF d = "postgres" THEN <<"limit", "offset">>[k] ELSE <<"offset", "limit">>[k]
ArgOf(d, args, role) == args[CHOOSE k \in 1 .. 2 : RoleOf(d, k) = role]

(* The source returns the rows from the offset on, as many as the limit    *)
(* allows.                                                                 *)
Returned(limit, offset) == Max({0, Min({limit, Rows - offset})})

(* buildPayload's HasNext.                                                 *)
HasNext(rows, limit) == rows = limit

Page ==
    /\ step = "page"
    /\ \E asked \in [limit : Ints, page : Ints, offset : Ints],
          d \in {"postgres", "mysql", "sqlserver", "oracle"} :
          LET p == pagination(asked)
              args == AppendedArgs(d, p.limit, p.offset)
              limit == ArgOf(d, args, "limit")
              from == ArgOf(d, args, "offset")
              rows == Returned(limit, from)
          IN paging' = [asked |-> asked, limit |-> limit, from |-> from, rows |-> rows,
                        page |-> p.page, offset |-> p.offset,
                        next |-> HasNext(rows, p.limit)]
    /\ step' = "answered"
    /\ UNCHANGED <<table, path, idx, found, route, params, clauses>>

(* The page number times the limit does not overflow.                      *)
InRange == (paging.asked.page - 1) * effectiveLimit(paging.asked.limit) < Top

(* The limit a request gets is positive and under the API's ceiling and    *)
(* the gateway's (gatewaysvc/service.go:461, 464), an answer without a     *)
(* next page leaves no row behind, and, unless the offset is computed from *)
(* a page so large that the product overflows, the offset and the page the *)
(* answer reports are those of the rows it carries.                        *)
PageIsServed ==
    step = "answered" =>
        /\ paging.limit > 0
        /\ \A most \in {MaxLimit, GatewayMax} : most > 0 => paging.limit <= most
        /\ ~paging.next => paging.from + paging.rows >= Rows
        /\ InRange \/ paging.asked.offset >= 0 =>
              /\ paging.from = paging.offset
              /\ paging.page = (paging.offset \div paging.limit) + 1

ShapeNext == MatchNext \/ MatchEnds \/ Resolve \/ BuildTemplate \/ Build \/ Hand \/ Page
=============================================================================
