----------------------------- MODULE CypherParser -----------------------------
(***************************************************************************)
(* The recursive descent of myceliums-cypher: tokens in, a Query out, or a *)
(* ParseError.  A token has a type t and, if it is an identifier or a      *)
(* literal, a value v (numbers are kept as they are written).  A query is  *)
(* written from left to right, one part at a time, and what it means grows *)
(* with it, so that every query within the bounds is parsed.               *)
(***************************************************************************)
EXTENDS Naturals, Sequences, FiniteSets, SequencesExt, CypherSyntax

CONSTANTS
    Names,          \* bound: identifiers
    MaxParts        \* bound: parts a query is written of, besides the first item it returns

VARIABLES
    text,           \* the tokens that were written
    meant           \* the query they stand for

parserVars == <<text, meant>>

-----------------------------------------------------------------------------
\* What a step of the descent returns: what it read, and where it stopped.
Got(v, at) == [ok |-> TRUE, v |-> v, at |-> at]
ParseError == [ok |-> FALSE]

PeekIs(ts, i, t) == i <= Len(ts) /\ ts[i].t = t

\* An optional word, of whatever token type announces it.
OptIdent(ts, i) == IF PeekIs(ts, i, "ident") THEN Got(ts[i].v, i + 1) ELSE Got(Absent, i)
OptAfter(ts, i, t) ==
    IF ~PeekIs(ts, i, t) THEN Got(Absent, i)
    ELSE IF PeekIs(ts, i + 1, "ident") THEN Got(ts[i + 1].v, i + 2) ELSE ParseError

RECURSIVE ParseOr(_, _), ParseAnd(_, _), ParseComparison(_, _), ParsePrimary(_, _),
          ParseArgs(_, _, _), MoreAnd(_, _), MoreOr(_, _), ParseItems(_, _, _), ParseKeys(_, _, _),
          ParseMatch(_, _, _, _)

\* An argument a has been read.
AfterArg(ts, a, args) ==
    IF ~a.ok THEN ParseError
    ELSE ParseArgs(ts, IF PeekIs(ts, a.at, ",") THEN a.at + 1 ELSE a.at, Append(args, a.v))

ParseArgs(ts, i, args) ==
    IF PeekIs(ts, i, ")") THEN Got(args, i + 1) ELSE AfterArg(ts, ParseOr(ts, i), args)

Aggregated(ts, fn, a) ==
    IF a.ok /\ PeekIs(ts, a.at, ")") THEN Got(Aggregation(fn, a.v), a.at + 1) ELSE ParseError

CallOf(fn, as) == IF as.ok THEN Got(FunctionCall(fn, as.v), as.at) ELSE ParseError

ParsePrimary(ts, i) ==
    CASE PeekIs(ts, i, "ident") ->
            IF PeekIs(ts, i + 1, "(") /\ ts[i].v \in AggregationFunc
            THEN Aggregated(ts, ts[i].v, ParseOr(ts, i + 2))
            ELSE IF PeekIs(ts, i + 1, ".")
            THEN IF PeekIs(ts, i + 2, "ident")
                 THEN Got(Property(ts[i].v, ts[i + 2].v), i + 3) ELSE ParseError
            ELSE IF PeekIs(ts, i + 1, "(")
            THEN CallOf(ts[i].v, ParseArgs(ts, i + 2, <<>>))
            ELSE Got(Ident(ts[i].v), i + 1)
      [] i <= Len(ts) /\ ts[i].t \in {"string", "int", "TRUE", "FALSE", "NULL"} ->
            Got(Lit(ts[i]), i + 1)
      [] PeekIs(ts, i, "*") -> Got(Ident("*"), i + 1)
      [] OTHER -> ParseError

Negated(e) == IF e.ok THEN Got(Unary("NOT", e.v), e.at) ELSE ParseError

\* Both sides of an operator have been read.
Joined(op, l, r) == IF r.ok THEN Got(Binary(op, l.v, r.v), r.at) ELSE ParseError

\* The left side of a comparison, if it is one, has been read.
AfterOperand(ts, l) ==
    CASE ~l.ok -> ParseError
      [] l.ok /\ PeekIs(ts, l.at, "IS") ->
            LET n == IF PeekIs(ts, l.at + 1, "NOT") THEN 1 ELSE 0
            IN  IF PeekIs(ts, l.at + 1 + n, "NULL")
                THEN Got(Unary(IF n = 1 THEN "IS NOT NULL" ELSE "IS NULL", l.v), l.at + 2 + n)
                ELSE ParseError
      [] l.ok /\ l.at <= Len(ts) /\ ts[l.at].t \in BinOps \cup {"CONTAINS"} ->
            Joined(IF ts[l.at].t = "!=" THEN "<>" ELSE ts[l.at].t, l, ParsePrimary(ts, l.at + 1))
      [] OTHER -> l

ParseComparison(ts, i) ==
    IF PeekIs(ts, i, "NOT") THEN Negated(ParseComparison(ts, i + 1))
    ELSE AfterOperand(ts, ParsePrimary(ts, i))

\* Chains of one operator, to the left; nothing is in parentheses.
MoreAnd(ts, left) ==
    IF ~left.ok \/ ~PeekIs(ts, left.at, "AND") THEN left
    ELSE MoreAnd(ts, Joined("AND", left, ParseComparison(ts, left.at + 1)))

MoreOr(ts, left) ==
    IF ~left.ok \/ ~PeekIs(ts, left.at, "OR") THEN left
    ELSE MoreOr(ts, Joined("OR", left, ParseAnd(ts, left.at + 1)))

\* Mutant of ParseAnd: AND and OR bind alike, from the right.
AndToEnd(ts, l) ==
    IF l.ok /\ PeekIs(ts, l.at, "AND") THEN Joined("AND", l, ParseOr(ts, l.at + 1)) ELSE l
ParseAndToEnd(ts, i) == AndToEnd(ts, ParseComparison(ts, i))

ParseAnd(ts, i) == MoreAnd(ts, ParseComparison(ts, i))
ParseOr(ts, i)  == MoreOr(ts, ParseAnd(ts, i))

-----------------------------------------------------------------------------
\* Patterns: a node, or two and what is between them.  (Inline properties, which are
\* parsed and then refused by the executor, are left out.)
NodeEnd(ts, var, label) ==
    IF label.ok /\ PeekIs(ts, label.at, ")") THEN Got(NodePattern(var.v, label.v), label.at + 1)
    ELSE ParseError
NodeLabel(ts, var) == NodeEnd(ts, var, OptAfter(ts, var.at, ":"))
ParseNode(ts, i)   == IF PeekIs(ts, i, "(") THEN NodeLabel(ts, OptIdent(ts, i + 1)) ELSE ParseError

\* The part in brackets, which may be missing.
BracketsEnd(ts, var, type) ==
    IF type.ok /\ PeekIs(ts, type.at, "]") THEN Got([var |-> var.v, type |-> type.v], type.at + 1)
    ELSE ParseError
BracketsType(ts, var) == BracketsEnd(ts, var, OptAfter(ts, var.at, ":"))
ParseBrackets(ts, i) ==
    IF PeekIs(ts, i, "[") THEN BracketsType(ts, OptIdent(ts, i + 1))
    ELSE Got([var |-> Absent, type |-> Absent], i)

\* parse_rel_start: node a, the arrow before the brackets, what is in them, and the rest.
Between(a, rel, dir, b) ==
    IF b.ok THEN Got(Relationship(a.v, rel.v.var, rel.v.type, dir, b.v), b.at) ELSE ParseError

AfterBrackets(ts, a, rel, left) ==
    CASE ~rel.ok -> ParseError
      [] rel.ok /\ left -> IF PeekIs(ts, rel.at, "-")
                           THEN Between(a, rel, "Left", ParseNode(ts, rel.at + 1)) ELSE ParseError
      [] rel.ok /\ ~left /\ PeekIs(ts, rel.at, "->") ->
            Between(a, rel, "Right", ParseNode(ts, rel.at + 1))
      [] OTHER -> Between(a, rel, "Both",
                          ParseNode(ts, IF PeekIs(ts, rel.at, "-") THEN rel.at + 1 ELSE rel.at))

AfterNode(ts, a) ==
    IF a.ok /\ (PeekIs(ts, a.at, "<-") \/ PeekIs(ts, a.at, "-"))
    THEN AfterBrackets(ts, a, ParseBrackets(ts, a.at + 1), PeekIs(ts, a.at, "<-"))
    ELSE a

ParsePattern(ts, i) == AfterNode(ts, ParseNode(ts, i))

\* A path: its start a, the depth, which is 5 unless it is given, and its end b.  An endpoint's
\* label is read over.
PathEnd(ts, i, a, depth, b) ==
    IF b.ok /\ PeekIs(ts, b.at, ")") /\ ts[i + 2].v \in PathFunctions
    THEN Got(PathBinding(ts[i].v, ts[i + 2].v, a.v.var, b.v.var, depth), b.at + 1)
    ELSE ParseError

PathDepth(ts, i, a, depth, close) ==
    IF PeekIs(ts, close, "]") /\ PeekIs(ts, close + 1, "->")
    THEN PathEnd(ts, i, a, depth, ParseNode(ts, close + 2)) ELSE ParseError

AfterStart(ts, i, a) ==
    CASE ~(/\ a.ok /\ PeekIs(ts, a.at, "-") /\ PeekIs(ts, a.at + 1, "[")
           /\ PeekIs(ts, a.at + 2, "*")) -> ParseError
      [] a.ok /\ ~PeekIs(ts, a.at + 3, ".") -> PathDepth(ts, i, a, "5", a.at + 3)
      [] a.ok /\ PeekIs(ts, a.at + 3, ".") /\ PeekIs(ts, a.at + 4, ".") /\ PeekIs(ts, a.at + 5, "int") ->
            PathDepth(ts, i, a, ts[a.at + 5].v, a.at + 6)
      [] OTHER -> ParseError

ParsePath(ts, i) ==
    IF PeekIs(ts, i + 1, "=") /\ PeekIs(ts, i + 2, "ident") /\ PeekIs(ts, i + 3, "(")
    THEN AfterStart(ts, i, ParseNode(ts, i + 4)) ELSE ParseError

\* Patterns and path bindings, in any order.
MatchMore(ts, x, ps, bs) ==
    CASE ~x.ok -> ParseError
      [] x.ok /\ PeekIs(ts, x.at, ",") -> ParseMatch(ts, x.at + 1, ps, bs)
      [] OTHER -> Got([patterns |-> ps, paths |-> bs], x.at)
AfterPattern(ts, x, ps, bs) == MatchMore(ts, x, Append(ps, x.v), bs)
AfterPath(ts, x, ps, bs)    == MatchMore(ts, x, ps, Append(bs, x.v))

ParseMatch(ts, i, ps, bs) ==
    IF PeekIs(ts, i, "ident") THEN AfterPath(ts, ParsePath(ts, i), ps, bs)
    ELSE AfterPattern(ts, ParsePattern(ts, i), ps, bs)

\* The items of RETURN and WITH, and the keys of ORDER BY.
AfterItem(ts, e, alias, items) ==
    CASE ~(e.ok /\ alias.ok) -> ParseError
      [] e.ok /\ alias.ok /\ PeekIs(ts, alias.at, ",") ->
            ParseItems(ts, alias.at + 1, Append(items, [expr |-> e.v, alias |-> alias.v]))
      [] OTHER -> Got(Append(items, [expr |-> e.v, alias |-> alias.v]), alias.at)
Aliased(ts, e, items) == IF e.ok THEN AfterItem(ts, e, OptAfter(ts, e.at, "AS"), items) ELSE ParseError
ParseItems(ts, i, items) == Aliased(ts, ParseOr(ts, i), items)

MoreKeys(ts, at, keys) == IF PeekIs(ts, at, ",") THEN ParseKeys(ts, at + 1, keys) ELSE Got(keys, at)
AfterKey(ts, e, keys) ==
    CASE ~e.ok -> ParseError
      [] e.ok /\ PeekIs(ts, e.at, "DESC") ->
            MoreKeys(ts, e.at + 1, Append(keys, [expr |-> e.v, ascending |-> FALSE]))
      [] OTHER -> MoreKeys(ts, IF PeekIs(ts, e.at, "ASC") THEN e.at + 1 ELSE e.at,
                           Append(keys, [expr |-> e.v, ascending |-> TRUE]))
ParseKeys(ts, i, keys) == AfterKey(ts, ParseOr(ts, i), keys)

ParseInt(ts, i) == IF PeekIs(ts, i, "int") THEN Got(ts[i].v, i + 1) ELSE ParseError

\* Parser::parse: clause after clause, each read into the query q before it.
EmptyQuery ==
    [match |-> [patterns |-> <<>>, paths |-> <<>>], where |-> Ident(Absent), with |-> <<>>,
     distinct |-> FALSE, return |-> <<>>, order |-> <<>>, skip |-> Absent, limit |-> Absent]

Read(q, clause, r) == IF r.ok THEN Got([q.v EXCEPT ![clause] = r.v], r.at) ELSE ParseError

\* A clause that may be missing.
Optional(ts, q, t, clause, r) == IF q.ok /\ PeekIs(ts, q.at, t) THEN Read(q, clause, r) ELSE q

MatchClause(ts, q) == Optional(ts, q, "MATCH", "match", ParseMatch(ts, q.at + 1, <<>>, <<>>))
WhereClause(ts, q) == Optional(ts, q, "WHERE", "where", ParseOr(ts, q.at + 1))
WithClause(ts, q)  == Optional(ts, q, "WITH", "with", ParseItems(ts, q.at + 1, <<>>))

ReturnClause(ts, q) ==
    CASE ~(q.ok /\ PeekIs(ts, q.at, "RETURN")) -> ParseError
      [] q.ok /\ PeekIs(ts, q.at + 1, "DISTINCT") ->
            Read([q EXCEPT !.v.distinct = TRUE], "return", ParseItems(ts, q.at + 2, <<>>))
      [] OTHER -> Read(q, "return", ParseItems(ts, q.at + 1, <<>>))

OrderClause(ts, q) ==
    Optional(ts, q, "ORDER", "order",
             IF PeekIs(ts, q.at + 1, "BY") THEN ParseKeys(ts, q.at + 2, <<>>) ELSE ParseError)
SkipClause(ts, q)  == Optional(ts, q, "SKIP", "skip", ParseInt(ts, q.at + 1))
LimitClause(ts, q) == Optional(ts, q, "LIMIT", "limit", ParseInt(ts, q.at + 1))

\* What is left after the last clause is not looked at.
Parse(ts) ==
    IF \E i \in DOMAIN ts : ts[i].t \in Blocked THEN ParseError
    ELSE LimitClause(ts, SkipClause(ts, OrderClause(ts, ReturnClause(ts,
            WithClause(ts, WhereClause(ts, MatchClause(ts, Got(EmptyQuery, 1))))))))

-----------------------------------------------------------------------------
\* How it is written.
Parens(inner) == <<Token("(")>> \o inner \o <<Token(")")>>
After(t, n)   == IF n = Absent THEN <<>> ELSE <<Token(t), Word(n)>>
Maybe(n)      == IF n = Absent THEN <<>> ELSE <<Word(n)>>

NodeText(n) == Parens(Maybe(n.var) \o After(":", n.label))

PatternText(p) ==
    IF "dir" \notin DOMAIN p THEN NodeText(p)
    ELSE NodeText(p.start) \o <<Token(IF p.dir = "Left" THEN "<-" ELSE "-")>>
         \o (IF p.var = Absent /\ p.type = Absent THEN <<>>
             ELSE <<Token("[")>> \o Maybe(p.var) \o After(":", p.type) \o <<Token("]")>>)
         \o <<Token(IF p.dir = "Right" THEN "->" ELSE "-")>> \o NodeText(p.end)

PathText(p) ==
    <<Word(p.var), Token("="), Word(p.fn), Token("(")>> \o Parens(Maybe(p.start))
    \o <<Token("-"), Token("["), Token("*")>>
    \o (IF p.depth = "5" THEN <<>> ELSE <<Token("."), Token("."), Number(p.depth)>>)
    \o <<Token("]"), Token("->")>> \o Parens(Maybe(p.end)) \o <<Token(")")>>

\* The parts, each with its tokens.
Nodes    == {NodePattern(v, l) : v \in Names \cup {Absent}, l \in {Absent, "File"}}
Patterns ==
    Nodes \cup {Relationship(NodePattern("a", Absent), IF d = "Left" THEN "r" ELSE Absent, "CALLS", d,
                             NodePattern(Absent, "File")) : d \in {"Left", "Right", "Both"}}
          \cup {Relationship(NodePattern("a", Absent), Absent, Absent, "Both", NodePattern("b", Absent))}
Bindings == {PathBinding("p", f, "a", "b", "2") : f \in PathFunctions}
            \cup {PathBinding("p", "anypath", Absent, "b", "5")}

Primaries ==
    {<<Ident(n), <<Word(n)>>>> : n \in Names}
    \cup {<<Property("s", "kind"), <<Word("s"), Token("."), Word("kind")>>>>,
          <<Lit(Number("7")), <<Number("7")>>>>,
          <<FunctionCall("lower", <<Ident("s")>>), <<Word("lower")>> \o Parens(<<Word("s")>>)>>,
          <<Aggregation("count", Ident("*")), <<Word("count")>> \o Parens(<<Token("*")>>)>>}

Comparisons ==
    LET kind  == Property("s", "kind")
        words == <<Word("s"), Token("."), Word("kind")>>
        equal == <<Binary("=", kind, Lit(Quoted("x"))), words \o <<Token("="), Quoted("x")>>>>
    IN  {equal, <<Unary("NOT", equal[1]), <<Token("NOT")>> \o equal[2]>>,
         <<Binary("CONTAINS", FunctionCall("lower", <<kind>>), Lit(Quoted("x"))),
           <<Word("lower")>> \o Parens(words) \o <<Token("CONTAINS"), Quoted("x")>>>>,
         <<Unary("NOT", Unary("IS NULL", kind)), <<Token("NOT")>> \o words \o <<Token("IS"), Token("NULL")>>>>,
         <<Unary("IS NOT NULL", kind), words \o <<Token("IS"), Token("NOT"), Token("NULL")>>>>}

\* AND binds to the comparison before it, OR to all that was written.
And(e, c) == IF "op" \in DOMAIN e /\ e.op = "OR" THEN Binary("OR", e.left, Binary("AND", e.right, c))
             ELSE Binary("AND", e, c)

-----------------------------------------------------------------------------
ParserInit ==
    /\ text = <<>>
    /\ meant = EmptyQuery

Parts == Len(meant.match.patterns) + Len(meant.match.paths) + Len(meant.with) + Len(meant.return)
         + Len(meant.order) + Len(SelectSeq(text, LAMBDA x : x.t \in {"WHERE", "AND", "OR"}))

NoWhere  == meant.where = Ident(Absent)
NoReturn == meant.return = <<>>
Matching == NoWhere /\ meant.with = <<>> /\ NoReturn

WriteMatch ==
    /\ Matching /\ Parts < MaxParts
    /\ LET sep == IF text = <<>> THEN <<Token("MATCH")>> ELSE <<Token(",")>>
       IN  \/ \E p \in Patterns :
                 /\ text' = text \o sep \o PatternText(p)
                 /\ meant' = [meant EXCEPT !.match.patterns = Append(@, p)]
           \/ \E p \in Bindings :
                 /\ text' = text \o sep \o PathText(p)
                 /\ meant' = [meant EXCEPT !.match.paths = Append(@, p)]

WriteWhere ==
    /\ NoReturn /\ meant.with = <<>> /\ Parts < MaxParts
    /\ \E c \in Comparisons :
          \/ /\ NoWhere
             /\ text' = text \o <<Token("WHERE")>> \o c[2]
             /\ meant' = [meant EXCEPT !.where = c[1]]
          \/ /\ ~NoWhere
             /\ \/ text' = text \o <<Token("AND")>> \o c[2] /\ meant' = [meant EXCEPT !.where = And(@, c[1])]
                \/ text' = text \o <<Token("OR")>> \o c[2]
                   /\ meant' = [meant EXCEPT !.where = Binary("OR", @, c[1])]

WriteItem ==
    /\ meant.order = <<>> /\ meant.skip = Absent /\ meant.limit = Absent
    /\ NoReturn \/ Parts < MaxParts
    /\ \E x \in Primaries, alias \in {Absent, "n"}, distinct \in BOOLEAN :
          /\ alias # Absent => "aggregate" \in DOMAIN x[1]
          /\ distinct => NoReturn /\ "of" \in DOMAIN x[1]
          /\ text' = text \o (CASE ~NoReturn -> <<Token(",")>>
                                [] NoReturn /\ distinct -> <<Token("RETURN"), Token("DISTINCT")>>
                                [] OTHER -> <<Token("RETURN")>>) \o x[2] \o After("AS", alias)
          /\ meant' = [meant EXCEPT !.return = Append(@, [expr |-> x[1], alias |-> alias]),
                                    !.distinct = @ \/ distinct]

WriteWith ==
    /\ NoReturn /\ meant.with = <<>> /\ Parts < MaxParts
    /\ \E n \in Names :
          /\ text' = text \o <<Token("WITH"), Word(n)>>
          /\ meant' = [meant EXCEPT !.with = <<[expr |-> Ident(n), alias |-> Absent]>>]

WriteOrder ==
    /\ ~NoReturn /\ meant.skip = Absent /\ meant.limit = Absent /\ Parts < MaxParts
    /\ \E x \in Primaries, way \in {Absent, "ASC", "DESC"} :
          /\ "of" \in DOMAIN x[1] \/ ("ident" \in DOMAIN x[1] /\ way = Absent)
          /\ text' = text \o (IF meant.order = <<>> THEN <<Token("ORDER"), Token("BY")>> ELSE <<Token(",")>>)
                          \o x[2] \o (IF way = Absent THEN <<>> ELSE <<Token(way)>>)
          /\ meant' = [meant EXCEPT !.order = Append(@, [expr |-> x[1], ascending |-> way # "DESC"])]

WriteSkip ==
    /\ ~NoReturn /\ meant.skip = Absent /\ meant.limit = Absent
    /\ text' = text \o <<Token("SKIP"), Number("7")>>
    /\ meant' = [meant EXCEPT !.skip = "7"]

WriteLimit ==
    /\ ~NoReturn /\ meant.limit = Absent
    /\ text' = text \o <<Token("LIMIT"), Number("2")>>
    /\ meant' = [meant EXCEPT !.limit = "2"]

ParserNext ==
    WriteMatch \/ WriteWhere \/ WriteWith \/ WriteItem \/ WriteOrder \/ WriteSkip \/ WriteLimit

ParserSpec == ParserInit /\ [][ParserNext]_parserVars

-----------------------------------------------------------------------------
\* A query is read as it was meant, to its last token, and not before there is something to
\* return.  Whatever is put anywhere into it, a write operation is refused.
QueryIsRead ==
    /\ NoReturn => ~Parse(text).ok
    /\ ~NoReturn => Parse(text) = Got(meant, Len(text) + 1)
    /\ \A i \in 0..Len(text) :
          ~Parse(SubSeq(text, 1, i) \o <<Token("SET")>> \o SubSeq(text, i + 1, Len(text))).ok
=============================================================================
