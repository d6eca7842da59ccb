------------------------------ MODULE Template ------------------------------
(***************************************************************************)
(* A query template from the dashboard to the driver.  At publication      *)
(* ValidateForPublish (internal/gateway/validate.go) scans it with         *)
(* StripDialect and ExtractParamNamesDialect; at every request the         *)
(* connector scans it again with bindDialect and appends the page with     *)
(* ApplyPagination (internal/connectors/bind.go, pagination.go).  The      *)
(* three scanners are three loops written separately; one step here is one *)
(* iteration of one of them.                                               *)
(*                                                                         *)
(* Characters stand for themselves, "tick" for the backtick; "a", "b" and *)
(* "q" are the letters.  The text has no white space at its ends:          *)
(* TrimSpace removes it before the scans of the validation, and            *)
(* bindDialect copies it.                                                  *)
(***************************************************************************)
EXTENDS Integers, Sequences, FiniteSets, FiniteSetsExt, Functions

CONSTANTS
    Inputs,     \* pairs of a dialect and the characters its texts are made of
    MaxLen      \* bound on the length of a text

VARIABLES
    stage,      \* what is being done with the template
    dialect, text,
    pos,        \* i, the position the running scanner has reached
    code,       \* positions the running scanner took for code
    names,      \* parameters the running scanner met, in order
    declared    \* the declared parameters of the API

templateVars == <<stage, dialect, text, pos, code, names, declared>>

Scanners == {"strip", "extract", "bind"}
Over == {"refused", "failed", "executed"}

Letters == {"a", "b", "q"}
isIdentPart(c) == c \in Letters

TemplateTypeOK ==
    /\ stage \in Scanners \cup Over
    /\ \E in \in Inputs : dialect = in[1] /\ text \in Seq(in[2])
    /\ Len(text) <= MaxLen
    /\ pos \in 1 .. Len(text) + 1
    /\ code \subseteq 1 .. Len(text)
    /\ \A k \in DOMAIN names : names[k] \in Seq(Letters)
    /\ \A n \in declared : n \in Seq(Letters)

-----------------------------------------------------------------------------
(* Where the parts of a text end: the position after the part that starts  *)
(* at i.                                                                   *)

First(S, default) == IF S = {} THEN default ELSE Min(S)
Is(t, i, c) == i \in DOMAIN t /\ t[i] = c

(* The first closing quote that is not doubled: of the quotes that follow  *)
(* one another up to it there is an odd number.  An unclosed quote runs to *)
(* the end.                                                                *)
QuotedEnd(t, i, quote) ==
    LET Run(j) == {k \in i + 1 .. j : \A l \in k .. j : t[l] = quote}
        closing == {j \in i + 1 .. Len(t) : /\ ~Is(t, j + 1, quote)
                                            /\ Cardinality(Run(j)) % 2 = 1}
    IN First({j + 1 : j \in closing}, Len(t) + 1)

(* Fault: any closing quote ends the part, doubled or not.                 *)
AtAnyQuote(t, i, quote) ==
    First({j + 1 : j \in {k \in i + 1 .. Len(t) : t[k] = quote}}, Len(t) + 1)

(* Identifiers in double quotes, backticks and brackets, by skipDelimited, *)
(* skipBracketIdentifier and their copying twins.                          *)
DelimitedEnd(t, i, quote) == QuotedEnd(t, i, quote)

(* String literals, by the loop each scanner has for them.                 *)
LiteralEnd(t, i) == QuotedEnd(t, i, "'")

LineEnd(t, i) == First({j \in i .. Len(t) : t[j] = "\n"}, Len(t) + 1)
BlockEnd(t, i) ==
    First({j + 2 : j \in {k \in i + 2 .. Len(t) : t[k] = "*" /\ Is(t, k + 1, "/")}}, Len(t) + 1)
IdentEnd(t, i) == First({j \in i .. Len(t) : ~isIdentPart(t[j])}, Len(t) + 1)

(* The opening tag is everything up to the first character that is neither *)
(* a letter nor a dollar.  The result is 0 when it is no tag or when it    *)
(* does not come again.                                                    *)
dollarQuoteEnd(t, i) ==
    LET after == First({j \in i + 1 .. Len(t) : ~isIdentPart(t[j]) /\ t[j] # "$"}, Len(t) + 1)
        tag == SubSeq(t, i, after - 1)
        again == {k \in after .. Len(t) - Len(tag) + 1 : SubSeq(t, k, k + Len(tag) - 1) = tag}
    IN IF Len(tag) = 1 \/ t[after - 1] # "$" THEN 0
       ELSE First({k + Len(tag) : k \in again}, 0)

oracleQuoteEnd(t, i) ==
    LET open == t[i + 2]
        close == IF open = "[" THEN "]" ELSE open
        ends == {k \in i + 3 .. Len(t) - 1 : t[k] = close /\ t[k + 1] = "'"}
    IN First({k + 2 : k \in ends}, 0)

-----------------------------------------------------------------------------
(* One iteration of the loop of scanner s, given dialect d.                *)

(* Only bindDialect asks for the dialect.                                  *)
OpensDollar(t, i, s, d) == t[i] = "$" /\ (s # "bind" \/ d = "postgres")
OpensOracle(t, i, d) == d = "oracle" /\ t[i] = "q" /\ Is(t, i + 1, "'") /\ i + 2 <= Len(t)
IsCast(t, i, s) == s # "strip" /\ t[i] = ":" /\ Is(t, i + 1, ":")
IsParam(t, i, s) ==
    /\ s # "strip" /\ t[i] = ":"
    /\ i + 1 \in DOMAIN t /\ isIdentPart(t[i + 1])

(* Where the iteration leaves i.  A dollar or a q' whose quote has no end  *)
(* falls out of the switch: i stays.                                       *)
NextPos(t, i, s, d) ==
    LET c == t[i]
        OrStay(end) == IF end > i THEN end ELSE i
    IN CASE OpensDollar(t, i, s, d) -> OrStay(dollarQuoteEnd(t, i))
         [] d = "mysql" /\ c = "tick" -> DelimitedEnd(t, i, "tick")
         [] d = "sqlserver" /\ c = "[" -> DelimitedEnd(t, i, "]")
         [] c = "\"" -> DelimitedEnd(t, i, "\"")
         [] d = "mysql" /\ c = "#" ->
              IF s = "bind" THEN Min({LineEnd(t, i) + 1, Len(t) + 1}) ELSE LineEnd(t, i)
         [] OpensOracle(t, i, d) -> OrStay(oracleQuoteEnd(t, i))
         [] c = "'" -> LiteralEnd(t, i)
         [] c = "-" /\ Is(t, i + 1, "-") -> LineEnd(t, i)
         [] c = "/" /\ Is(t, i + 1, "*") -> BlockEnd(t, i)
         [] IsCast(t, i, s) -> i + 2
         [] IsParam(t, i, s) -> IdentEnd(t, i + 1)
         [] OTHER -> i + 1

(* What the iteration passes over is code, not a quote or a comment.       *)
TakenForCode(t, i, s, d) ==
    /\ ~OpensDollar(t, i, s, d) /\ ~OpensOracle(t, i, d)
    /\ ~(d = "mysql" /\ t[i] \in {"tick", "#"}) /\ ~(d = "sqlserver" /\ t[i] = "[")
    /\ t[i] # "'" /\ t[i] # "\""
    /\ ~(t[i] = "-" /\ Is(t, i + 1, "-")) /\ ~(t[i] = "/" /\ Is(t, i + 1, "*"))

(* hasMultipleStatements drops the semicolons at the end first.            *)
Trimmed(t) == SubSeq(t, 1, Max({0} \cup {i \in DOMAIN t : t[i] # ";"}))
Scanned == IF stage = "strip" THEN Trimmed(text) ELSE text

(* The validation passes the connector type.  The connectors call Bind,    *)
(* which passes no dialect; BindDialect has no caller but its tests.       *)
Dialect == IF stage = "bind" THEN "" ELSE dialect

TemplateInit ==
    /\ stage = "strip"
    /\ \E in \in Inputs, n \in 1 .. MaxLen :
          /\ dialect = in[1]
          /\ text \in {t \in [1 .. n -> in[2]] : t[1] # "\n" /\ t[n] # "\n"}
    /\ pos = 1 /\ code = {} /\ names = <<>> /\ declared = {}

(* An iteration that does not stop at a parameter without a value.         *)
Iterate ==
    LET t == Scanned
        next == NextPos(t, pos, stage, Dialect)
        name == SubSeq(t, pos + 1, next - 1)
    IN /\ stage \in Scanners /\ pos <= Len(t)
       /\ (stage = "bind" /\ IsParam(t, pos, stage)) => name \in declared
       /\ pos' = next
       /\ code' = IF TakenForCode(t, pos, stage, Dialect) THEN code \cup pos .. next - 1 ELSE code
       /\ names' = IF IsParam(t, pos, stage) /\ (stage = "bind" \/ name \notin Range(names))
                   THEN Append(names, name) ELSE names
       /\ UNCHANGED <<stage, dialect, text, declared>>

EndIn(s) == stage' = s /\ UNCHANGED <<dialect, text, pos, code, names, declared>>

MissingValue ==
    /\ stage = "bind" /\ pos <= Len(text) /\ IsParam(text, pos, stage)
    /\ SubSeq(text, pos + 1, NextPos(text, pos, stage, Dialect) - 1) \notin declared
    /\ EndIn("failed")

Begin(s) == stage' = s /\ pos' = 1 /\ code' = {} /\ names' = <<>> /\ UNCHANGED <<dialect, text>>

(* The stripped text is refused for a second statement or, the API being   *)
(* one that reads, for a keyword of a statement that writes.  Keywords are *)
(* not spelled out: any letter may belong to one.  ValidateForExecution    *)
(* makes the same checks before a query is tried out.                      *)
StripPasses ==
    /\ stage = "strip" /\ pos > Len(Scanned)
    /\ \A i \in code : text[i] # ";"
    /\ Begin("extract") /\ UNCHANGED declared
StripRefuses ==
    /\ stage = "strip" /\ pos > Len(Scanned)
    /\ \E i \in code : text[i] \in Letters \cup {";"}
    /\ EndIn("refused")

(* Fault: a parameter that is used need not be declared.                   *)
DeclaredAreUsed(used, decl) == decl \subseteq used

UsedAndDeclared(used, decl) == used \subseteq decl /\ decl \subseteq used

(* What the API declares: the parameters of the text, or one less or one   *)
(* more.                                                                   *)
Declarations(used) == {used, used \cup {<<"b">>}} \cup {used \ {n} : n \in used}

(* A template that passes is published.  ResolveParams gives every declared*)
(* parameter of a request a value, so that the connector is called with    *)
(* exactly those.                                                          *)
ExtractPasses ==
    /\ stage = "extract" /\ pos > Len(text)
    /\ declared' \in Declarations(Range(names))
    /\ UsedAndDeclared(Range(names), declared')
    /\ Begin("bind")

(* For its parameters, its default limit or a rule that does not compile.  *)
ExtractRefuses ==
    /\ stage = "extract" /\ pos > Len(text)
    /\ EndIn("refused")

BindEnds == stage = "bind" /\ pos > Len(text) /\ EndIn("executed")

TemplateNext ==
    \/ Iterate \/ MissingValue
    \/ StripPasses \/ StripRefuses \/ ExtractPasses \/ ExtractRefuses \/ BindEnds

(* A loop keeps running.                                                   *)
TemplateSpec ==
    TemplateInit /\ [][TemplateNext]_templateVars /\ WF_templateVars(TemplateNext)

(* Inputs for TLC.  Every group of characters has one kind of quote or     *)
(* comment, a colon and a letter.                                          *)
TemplateInputs ==
    {<<"postgres", {"a", ":", "'", ";"}>>, <<"postgres", {"a", ":", "$"}>>,
     <<"mysql", {"a", ":", "tick", "'"}>>, <<"mysql", {"a", "#", "\n", ":"}>>,
     <<"sqlserver", {"a", ":", "[", "]"}>>, <<"sqlserver", {"a", ":", "-", "\n"}>>,
     <<"oracle", {"q", "'", ":", "["}>>, <<"oracle", {"a", ":", "/", "*"}>>,
     <<"oracle", {"a", ":", "\"", ";"}>>}

-----------------------------------------------------------------------------
(* The reference: an automaton that reads the text once, character by      *)
(* character.  A doubled quote closes a literal and opens the next one; a  *)
(* doubled bracket is half read after its first.                           *)
Quotes(d) == {"'"} \cup {"\""} \cup (IF d = "mysql" THEN {"tick"} ELSE {})

(* From mode m over character k of t.                                      *)
ModeAfter(m, t, k, d) ==
    LET c == t[k]
    IN CASE m = "code" /\ c \in Quotes(d) -> c
         [] m = "code" /\ c = "[" /\ d = "sqlserver" -> "]"
         [] m = "code" /\ c = "#" /\ d = "mysql" -> "line"
         [] m = "code" /\ c = "-" /\ Is(t, k + 1, "-") -> "line"
         [] m = "code" /\ c = "/" /\ Is(t, k + 1, "*") -> "open"
         [] m = "line" /\ c = "\n" -> "code"
         [] m = "open" -> "block"
         [] m \in {"block", "star"} /\ c = "*" -> "star"
         [] m = "star" /\ c = "/" -> "code"
         [] m = "star" /\ c \notin {"*", "/"} -> "block"
         [] m \in Quotes(d) /\ c = m -> "code"
         [] m = "]" /\ c = "]" -> IF Is(t, k + 1, "]") THEN "half" ELSE "code"
         [] m = "half" -> "]"
         [] OTHER -> m

(* mode[k] is where it is after k characters.                              *)
Mode(t, d) ==
    LET mode[k \in 0 .. Len(t)] ==
            IF k = 0 THEN "code" ELSE ModeAfter(mode[k - 1], t, k, d)
    IN mode

CodePositions(t, d) ==
    LET mode == Mode(t, d)
    IN {k \in DOMAIN t : mode[k] = "code" /\ (mode[k - 1] = "code" \/ t[k] = "\n")}

(* Parameters: a letter after an odd number of colons.                     *)
Colons(t, inCode, i) == {k \in 1 .. i : \A l \in k .. i : t[l] = ":" /\ l \in inCode}
ParamStarts(t, inCode) ==
    {i \in inCode : /\ t[i] = ":" /\ Cardinality(Colons(t, inCode, i)) % 2 = 1
                    /\ i + 1 \in DOMAIN t /\ isIdentPart(t[i + 1])}
ParamNames(t, d) ==
    {SubSeq(t, i + 1, IdentEnd(t, i + 1) - 1) : i \in ParamStarts(t, CodePositions(t, d))}

(* The text has neither of the quotes the automaton does not know.         *)
NoTaggedQuote(t, d) ==
    \A i \in DOMAIN t : t[i] # "$" /\ ~(d = "oracle" /\ t[i] = "q" /\ Is(t, i + 1, "'"))

(* The text has nothing that only the dialect's own rules recognise.       *)
Portable(t, d) ==
    /\ NoTaggedQuote(t, d)
    /\ d = "mysql" => \A i \in DOMAIN t : t[i] \notin {"tick", "#"}
    /\ d = "sqlserver" => \A i \in DOMAIN t : t[i] # "["

(* A scanner that has come to the end has told code from quotes and        *)
(* comments, and found the parameters, as the automaton for the dialect of *)
(* the connection does, the same for all three (bind.go:60, 165, 318): no  *)
(* quote swallows code that follows it and nothing quoted counts as code,  *)
(* whatever is doubled, nested or left open.  Texts with dollar or q'      *)
(* quotes are left out and, for the binder, which is not told the dialect, *)
(* all that are not portable.                                              *)
ScansMatchReference ==
    (/\ stage \in Scanners /\ pos > Len(Scanned)
     /\ NoTaggedQuote(text, dialect) /\ (stage = "bind" => Portable(text, dialect))) =>
        /\ code = CodePositions(Scanned, dialect)
        /\ stage # "strip" => Range(names) = ParamNames(text, dialect)

(* A published template finds a value for every parameter at every         *)
(* request, if it can be read without the rules of its dialect.            *)
PublishedPortableBinds == stage = "failed" => ~Portable(text, dialect)

(* "Cross-dialect placeholder parser safely handles $tag$/$$ dollar quotes,*)
(* ... Oracle string literals" (docs/V4_PREVIEW_RELEASE_NOTES.md:10): the  *)
(* validation of a template comes to an end, whatever it is.               *)
ValidationEnds == stage \in {"strip", "extract"} ~> stage \notin {"strip", "extract"}
=============================================================================
