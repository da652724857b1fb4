---------------------------- MODULE CypherExecutor ----------------------------
(***************************************************************************)
(* What myceliums-cypher answers: CypherExecutor::execute on the symbols,  *)
(* files and relationships of a store.  A row binds variables to values;   *)
(* a clause maps the rows before it.  Numbers of a query are numbers here. *)
(* The relationships come in one order, whichever, as those of a table do. *)
(***************************************************************************)
EXTENDS CallTools, CypherSyntax

CONSTANTS
    Alphabet,       \* the texts that are compared, in their order
    MaxJoined,      \* MAX_INTERMEDIATE_ROWS
    MaxAnswer,      \* MAX_RESULT_ROWS
    MaxPathDepth    \* bound: depth of the paths asked for

\* Values.  A variable that is not bound and a property that is missing are both null, but
\* compare as different texts.
Node(u) == [node |-> u]
File(f) == [file |-> f]
Rel(e)  == [rel |-> e]
Str(s)  == [text |-> s]
Num(n)  == [int |-> n]
Bool(b) == [bool |-> b]
PathOf(p) == [path |-> p]
Unbound == [null |-> ""]
Missing == [null |-> "null"]
IsNull(v)  == "null" \in DOMAIN v
ToValue(v) == IF IsNull(v) THEN Missing ELSE v
AsBool(v)  == "bool" \in DOMAIN v /\ v.bool
AsText(v)  == CASE "text" \in DOMAIN v -> v.text [] "null" \in DOMAIN v -> v.null
                [] "int" \in DOMAIN v -> ToString(v.int) [] OTHER -> "{"

Rank(s)  == SelectInSeq(Alphabet, LAMBDA t : t = s)
\* compare_operands_for_ordering: numbers as numbers, and all else as texts.
Below(v, w) == IF "int" \in DOMAIN v /\ "int" \in DOMAIN w THEN v.int < w.int
               ELSE Rank(AsText(v)) < Rank(AsText(w))

Row(var, v)    == [x \in {var} |-> v]
Merged(old, new) == new @@ old
Bound(row, var) == IF var \in DOMAIN row THEN row[var] ELSE Unbound

-----------------------------------------------------------------------------
\* symbol_to_value and the value of a relationship, as far as queries here go.
Field(v, p) ==
    CASE "node" \in DOMAIN v ->
            LET s == SymbolOf(v.node)
            IN  CASE p = "uid" -> Str(s.uid) [] p = "name" -> Str(s.name) [] p = "kind" -> Str(s.kind)
                  [] p = "start_line" -> Num(s.first) [] OTHER -> Missing
      [] "rel" \in DOMAIN v ->
            CASE p = "kind" -> Str(v.rel.kind) [] p = "source_uid" -> Str(v.rel.source)
              [] p = "target_uid" -> Str(v.rel.target) [] OTHER -> Missing
      [] {"file", "path"} \cap DOMAIN v # {} -> Missing
      [] OTHER -> Unbound

RECURSIVE Eval(_, _)
Eval(e, row) ==
    CASE "ident" \in DOMAIN e -> Bound(row, e.ident)
      [] "property" \in DOMAIN e -> Field(Bound(row, e.of), e.property)
      [] "lit" \in DOMAIN e -> CASE e.lit.t = "string" -> Str(e.lit.v) [] e.lit.t = "int" -> Num(e.lit.v)
                                 [] e.lit.t = "NULL" -> Unbound [] OTHER -> Bool(e.lit.t = "TRUE")
      [] "left" \in DOMAIN e ->
            LET l == Eval(e.left, row)
                r == Eval(e.right, row)
            IN  Bool(CASE e.op = "AND" -> AsBool(l) /\ AsBool(r) [] e.op = "OR" -> AsBool(l) \/ AsBool(r)
                       [] e.op = "="  -> ToValue(l) = ToValue(r) [] e.op = "<>" -> ToValue(l) # ToValue(r)
                       [] e.op = "<"  -> Below(l, r)             [] e.op = ">"  -> Below(r, l)
                       [] e.op = "<=" -> ~Below(r, l)            [] e.op = ">=" -> ~Below(l, r))
      [] "arg" \in DOMAIN e ->
            LET v == Eval(e.arg, row)
            IN  Bool(CASE e.op = "NOT" -> ~AsBool(v) [] e.op = "IS NULL" -> IsNull(v) [] OTHER -> ~IsNull(v))
      [] OTHER -> Unbound         \* an aggregation has no value of its own

-----------------------------------------------------------------------------
\* The order of the relationships table.
Order == FoldSet(LAMBDA e, rows : Append(rows, e), <<>>, edges)

FileRows == SetToSeq({s.file : s \in Table})

NodeRows(p) ==
    LET var == IF p.var = Absent THEN "_" ELSE p.var
    IN  IF p.label = "File" THEN [i \in DOMAIN FileRows |-> Row(var, File(FileRows[i]))]
        ELSE [i \in DOMAIN symbols |-> Row(var, Node(symbols[i].uid))]

\* Both ends are symbols, so a pattern with a File in it has no rows; an undirected one is
\* matched in the direction of the row.
RelationshipRows(p) ==
    LET var(n, default) == IF n.var = Absent THEN default ELSE n.var
        fits(e)  == /\ p.type \in {Absent, e.kind} /\ {e.source, e.target} \subseteq Uids
                    /\ "File" \notin {p.start.label, p.end.label}
        row(e)   == LET from == IF p.dir = "Left" THEN e.target ELSE e.source
                        to   == IF p.dir = "Left" THEN e.source ELSE e.target
                        ends == Merged(Row(var(p.start, "a"), Node(from)), Row(var(p.end, "b"), Node(to)))
                    IN  IF p.var = Absent THEN ends ELSE Merged(ends, Row(p.var, Rel(e)))
        some     == SelectSeq(Order, fits)
    IN  [i \in DOMAIN some |-> row(some[i])]

MatchPattern(p) == IF "dir" \in DOMAIN p THEN RelationshipRows(p) ELSE NodeRows(p)

Rows(rs) == [ok |-> TRUE, rows |-> rs]
Failed   == [ok |-> FALSE]

\* execute_match: a pattern is joined with all rows before it, whatever variables they share,
\* and takes their place if there are none.
Product(old, new) ==
    CASE old = <<>> -> Rows(new)
      [] old # <<>> /\ Len(old) * Len(new) > MaxJoined -> Failed
      [] OTHER -> Rows([k \in 1..(Len(old) * Len(new)) |->
                         Merged(old[((k - 1) \div Len(new)) + 1], new[((k - 1) % Len(new)) + 1])])
JoinPattern(acc, p) ==
    IF acc.ok THEN Product(acc.rows, MatchPattern(p)) ELSE acc

-----------------------------------------------------------------------------
\* Paths: sequences of steps over rows in either direction, whatever their kind.
Steps(u) == SelectSeq(Order, LAMBDA e : u \in {e.source, e.target})
Other(e, u) == IF e.source = u THEN e.target ELSE e.source
Step(u, e)  == [from |-> u, to |-> Other(e, u), rel |-> e]
Ending(start, path) == IF path = <<>> THEN start ELSE Last(path).to

RECURSIVE Bfs(_, _, _, _), DfsAll(_, _, _, _), DfsAny(_, _, _, _)

\* bfs_shortest_path: one relationship of the node at the head of the queue, to which path leads.
BfsLook(st, e, u, path, end, max) ==
    LET v == Other(e, u)
        p == Append(path, Step(u, e))
    IN  CASE st.found # <<>> -> st
          [] st.found = <<>> /\ v = end -> IF v \in Uids THEN [st EXCEPT !.found = <<p>>] ELSE st
          [] st.found = <<>> /\ v # end /\ v \notin st.seen /\ Len(path) + 1 < max ->
                [st EXCEPT !.seen = @ \cup {v}, !.queue = IF v \in Uids THEN Append(@, p) ELSE @]
          [] OTHER -> st

\* Mutant of BfsHead: one step more than was asked for.
BfsHeadLonger(st, start, end, max) ==
    LET path == Head(st.queue)
        u    == Ending(start, path)
        rest == [st EXCEPT !.queue = Tail(@)]
    IN  IF Len(path) + 1 > max + 1 THEN rest
        ELSE FoldLeft(LAMBDA x, e : BfsLook(x, e, u, path, end, max + 1), rest, Steps(u))

BfsHead(st, start, end, max) ==
    LET path == Head(st.queue)
        u    == Ending(start, path)
        rest == [st EXCEPT !.queue = Tail(@)]
    IN  IF Len(path) + 1 > max THEN rest
        ELSE FoldLeft(LAMBDA x, e : BfsLook(x, e, u, path, end, max), rest, Steps(u))

Bfs(st, start, end, max) ==
    IF st.found # <<>> \/ st.queue = <<>> THEN st.found
    ELSE Bfs(BfsHead(st, start, end, max), start, end, max)

ShortestPath(start, end, max) ==
    CASE start \notin Uids -> <<>>
      [] start \in Uids /\ start = end -> <<<<>>>>
      [] OTHER -> Bfs([queue |-> <<<<>>>>, seen |-> {start}, found |-> <<>>], start, end, max)

\* dfs_all_paths; seen is what is on the path.
DfsAll(path, seen, end, left) ==
    LET u == Last(path).to
        next(e) == IF Other(e, u) \in Uids \ (seen \cup {u})
                   THEN DfsAll(Append(path, Step(u, e)), seen \cup {u}, end, left - 1) ELSE <<>>
        steps == Steps(u)
    IN  IF u = end THEN <<path>> ELSE IF left = 0 THEN <<>>
        ELSE FlattenSeq([i \in DOMAIN steps |-> next(steps[i])])

\* dfs_any_path: the first one is returned at once.
DfsAny(path, seen, end, left) ==
    LET u == Last(path).to
        look(found, e) ==
            IF found # <<>> \/ Other(e, u) \notin Uids \ (seen \cup {u}) THEN found
            ELSE DfsAny(Append(path, Step(u, e)), seen \cup {u}, end, left - 1)
    IN  IF u = end THEN <<path>> ELSE IF left = 0 THEN <<>> ELSE FoldLeft(look, <<>>, Steps(u))

\* Both start at the node itself, a step from nowhere that is not part of the path.
Begin(u)   == <<[from |-> "", to |-> u, rel |-> "none"]>>
Tails(found) == [i \in DOMAIN found |-> Tail(found[i])]

AllPaths(start, end, max) ==
    IF start \in Uids THEN Tails(DfsAll(Begin(start), {}, end, max)) ELSE <<>>
AnyPath(start, end, max) ==
    IF start \in Uids THEN Tails(DfsAny(Begin(start), {}, end, max)) ELSE <<>>

UidIn(row, var) == LET v == Bound(row, var) IN IF "node" \in DOMAIN v THEN v.node ELSE Absent

\* process_path_binding: a row for each path, or one with null.  No depth is above 10.
Found(s, t, d, fn) ==
    CASE Absent \in {s, t} -> <<>>
      [] Absent \notin {s, t} /\ fn = "shortestpath" -> ShortestPath(s, t, d)
      [] Absent \notin {s, t} /\ fn = "allpaths" -> AllPaths(s, t, d)
      [] OTHER -> AnyPath(s, t, d)

WithPaths(row, var, found) ==
    IF found = <<>> THEN <<Merged(row, Row(var, Missing))>>
    ELSE [i \in DOMAIN found |-> Merged(row, Row(var, PathOf(found[i])))]

BindPath(rows, b) ==
    FlattenSeq([i \in DOMAIN rows |->
        WithPaths(rows[i], b.var, Found(UidIn(rows[i], b.start), UidIn(rows[i], b.end),
                                        IF b.depth > 10 THEN 10 ELSE b.depth, b.fn))])

-----------------------------------------------------------------------------
BindPaths(joined, paths) == IF joined.ok THEN Rows(FoldLeft(BindPath, joined.rows, paths)) ELSE Failed

ExecuteMatch(match) ==
    IF match = [patterns |-> <<>>, paths |-> <<>>] THEN Rows(<< <<>> >>)
    ELSE BindPaths(FoldLeft(JoinPattern, Rows(<<>>), match.patterns), match.paths)

ExprKey(e) == CASE "ident" \in DOMAIN e -> e.ident
                [] "property" \in DOMAIN e -> e.of \o "." \o e.property
                [] "aggregate" \in DOMAIN e -> e.aggregate \o "(...)"
                [] OTHER -> "?"
Key(item) == IF item.alias = Absent THEN ExprKey(item.expr) ELSE item.alias
Keys(items) == {Key(items[i]) : i \in DOMAIN items}
ItemOf(items, k) == items[SelectLastInSeq(items, LAMBDA x : Key(x) = k)]

Aggregates(item) == "aggregate" \in DOMAIN item.expr

\* eval_aggregation; sum, avg, min and max are left out.  A star is no variable: it is null.
Aggregate(e, rows) ==
    LET values == [i \in DOMAIN rows |-> Eval(e.over, rows[i])]
        known  == SelectSeq(values, LAMBDA v : ~IsNull(v))
    IN  IF e.aggregate = "count" THEN Num(Len(known)) ELSE [list |-> known]

Project(items, rows) ==
    [i \in DOMAIN rows |-> [k \in Keys(items) |-> ToValue(Eval(ItemOf(items, k).expr, rows[i]))]]

\* apply_aggregation: without other items, all rows are one group.  Else the groups are found
\* by looking the names of the columns up among the variables, so that a column that is no
\* variable is null.
Grouped(items, rows) ==
    LET plain == SelectSeq(items, LAMBDA x : ~Aggregates(x))
        key(row) == [k \in Keys(plain) |-> ToValue(Bound(row, k))]
        groups == IF plain = <<>> THEN <<rows>>
                  ELSE LET ks == SetToSeq({key(rows[i]) : i \in DOMAIN rows})
                       IN  [i \in DOMAIN ks |-> SelectSeq(rows, LAMBDA r : key(r) = ks[i])]
        column(k, g) == IF Aggregates(ItemOf(items, k)) THEN Aggregate(ItemOf(items, k).expr, g)
                        ELSE ToValue(Bound(g[1], k))
    IN  [i \in DOMAIN groups |-> [k \in Keys(items) |-> column(k, groups[i])]]

\* apply_order_by, of one key (the last one first): a stable sort by what the row has under
\* the key's own name.  Values of different types are equal; that such a column has no order
\* that a sort could rely on is left out.
Less(v, w) == DOMAIN v = DOMAIN w /\ Below(v, w)

SortBy(rows, key) ==
    LET at(i)   == Bound(rows[i], ExprKey(key.expr))
        less(i, j) == IF key.ascending THEN Less(at(i), at(j)) ELSE Less(at(j), at(i))
        place(i) == 1 + Cardinality({j \in DOMAIN rows : less(j, i) \/ (~less(i, j) /\ j < i)})
    IN  [n \in DOMAIN rows |-> rows[CHOOSE i \in DOMAIN rows : place(i) = n]]

Labelled(p) == IF "dir" \in DOMAIN p THEN {p.start.label, p.end.label} ELSE {p.label}

\* execute, clause after clause.  Skip and limit are 0 and Len(...) where they are not given.
Where(rows, where) == IF where = <<>> THEN rows ELSE SelectSeq(rows, LAMBDA r : AsBool(Eval(where[1], r)))

Returned(rows, items) ==
    IF \E i \in DOMAIN items : Aggregates(items[i]) THEN Grouped(items, rows) ELSE Project(items, rows)

Page(rows, skip, limit) == SubSeq(rows, skip + 1, IF skip + limit < Len(rows) THEN skip + limit ELSE Len(rows))

Finish(q, rows) ==
    Page(FoldRight(LAMBDA k, rs : SortBy(rs, k), q.order, Returned(Where(rows, q.where), q.return)),
         q.skip, q.limit)

\* An answer of too many rows is none; a limit of the query is applied before.
Few(rows) == IF Len(rows) > MaxAnswer THEN Failed ELSE Rows(rows)

Execute(q) ==
    IF \/ q.distinct \/ q.with # <<>>
       \/ \E i \in DOMAIN q.match.patterns :
             ~(Labelled(q.match.patterns[i]) \subseteq {Absent, "CodeSymbol", "File"})
    THEN Failed
    ELSE LET matched == ExecuteMatch(q.match)
         IN  IF matched.ok THEN Few(Finish(q, matched.rows)) ELSE Failed

-----------------------------------------------------------------------------
\* Queries to ask, by what follows MATCH; patterns and paths as they are written.
Ask(patterns, paths, where, items) ==
    [match |-> [patterns |-> patterns, paths |-> paths], where |-> where, with |-> <<>>,
     distinct |-> FALSE, return |-> items, order |-> <<>>, skip |-> 0, limit |-> 1000]

Item(e)    == [expr |-> e, alias |-> Absent]
Called     == Relationship(NodePattern("a", Absent), Absent, "Calls", "Right", NodePattern("b", Absent))
CalledBy   == Relationship(NodePattern("b", Absent), Absent, "Calls", "Left", NodePattern("a", Absent))
Anything   == NodePattern("s", Absent)
UidIs(v, u) == Binary("=", Property(v, "uid"), Lit(Quoted(u)))
Answers(q)  == Execute(q).rows

\* The three searches for paths are written apart: one finds something if and only if the
\* others do, none goes further than it was asked to, the shortest path is one of all paths
\* and none of them is shorter, and the one that was found first is one of them too.
PathsFit(all, short, some, d) ==
    /\ (all = <<>>) = (short = <<>>) /\ (all = <<>>) = (some = <<>>)
    /\ \A p \in Range(all) : Len(p) <= d
    /\ all # <<>> => /\ short[1] \in Range(all) /\ some[1] \in Range(all)
                     /\ \A p \in Range(all) : Len(short[1]) <= Len(p)

PathsAgree ==
    \A s, t \in Uids, d \in 0..MaxPathDepth :
        PathsFit(AllPaths(s, t, d), ShortestPath(s, t, d), AnyPath(s, t, d), d)

\* A relationship that is written from right to left is the same, and what a query finds to
\* call a symbol are its callers, itself among them.
BothEnds == <<Item(Ident("a")), Item(Ident("b"))>>

CallersByQuery ==
    /\ Answers(Ask(<<Called>>, <<>>, <<>>, BothEnds)) = Answers(Ask(<<CalledBy>>, <<>>, <<>>, BothEnds))
    /\ \A u \in Uids :
          {r["a"].node : r \in Range(Answers(Ask(<<Called>>, <<>>, <<UidIs("b", u)>>, BothEnds)))} \ {u}
              = {x[1] : x \in GetCallers(u, 1)}

\* Three patterns make a product, whose limit and that of an answer are the only reasons to
\* fail; but nothing and something make something.
Multiplied(one, product) ==
    LET n == (IF one.rows = <<>> THEN 1 ELSE Len(one.rows)) * Len(symbols) * Len(symbols)
    IN  IF n > MaxJoined \/ n > MaxAnswer THEN ~product.ok ELSE Len(product.rows) = n

PatternsMultiply ==
    Multiplied(Execute(Ask(<<Called>>, <<>>, <<>>, <<Item(Ident("a"))>>)),
               Execute(Ask(<<Called, Anything, NodePattern("t", Absent)>>, <<>>, <<>>, <<Item(Ident("a"))>>)))

\* Counts over groups add up to the rows, and grouped by a symbol they are its calls from
\* other symbols.
CountsBy(e) == Answers(Ask(<<Called>>, <<>>, <<>>, <<Item(e), Item(Aggregation("count", Ident("a")))>>))
Total(rs)   == FoldLeft(LAMBDA n, r : n + r["count(...)"].int, 0, rs)

AddUp(rows, byKind, byCallee) ==
    /\ Total(byKind) = Len(rows)
    /\ Total(byCallee) = Len(rows)
    /\ \A r \in Range(byCallee) :
          r["count(...)"].int = Cardinality({e \in To(CallRows, r["b"].node) : e.source \in Uids})

GroupsAddUp ==
    AddUp(Answers(Ask(<<Called>>, <<>>, <<>>, <<Item(Ident("a"))>>)),
          CountsBy(Property("b", "kind")), CountsBy(Ident("b")))

\* Pages of a sorted answer, one after the other, are the answer; it is sorted if the key is
\* one of its columns, and keeps its rows.
ByName == Ask(<<Anything>>, <<>>, <<>>, <<Item(Property("s", "uid")), Item(Property("s", "name"))>>)
InOrder ==
    [ByName EXCEPT !.order = <<[expr |-> Property("s", "name"), ascending |-> FALSE],
                               [expr |-> Property("s", "uid"), ascending |-> TRUE]>>]

PagesFit(rs, plain) ==
    /\ FlattenSeq([n \in 1..Len(rs) |-> Answers([InOrder EXCEPT !.skip = 2 * (n - 1), !.limit = 2])]) = rs
    /\ Range(rs) = Range(plain)
    /\ \A i \in 1..(Len(rs) - 1) :
          \/ Less(rs[i + 1]["s.name"], rs[i]["s.name"])
          \/ rs[i]["s.name"] = rs[i + 1]["s.name"] /\ Less(rs[i]["s.uid"], rs[i + 1]["s.uid"])

PagesAddUp == PagesFit(Answers(InOrder), Answers(ByName))

\* A path that is bound in a query is the shortest one, and a pair without one keeps its row.
PathAnswer(p) == << [k \in {"p"} |-> IF p = <<>> THEN Missing ELSE PathOf(p[1])] >>

PathsAreBound ==
    \A u, v \in Uids :
        Answers(Ask(<<NodePattern("x", Absent), NodePattern("y", Absent)>>,
                    <<PathBinding("p", "shortestpath", "x", "y", 2)>>,
                    <<Binary("AND", UidIs("x", u), UidIs("y", v))>>, <<Item(Ident("p"))>>))
            = PathAnswer(ShortestPath(u, v, 2))

\* A query answers the same as the tools do, whichever way it is put, up to what is said above.
QueriesAgree ==
    /\ PathsAgree
    /\ CallersByQuery
    /\ PatternsMultiply
    /\ GroupsAddUp
    /\ PagesAddUp
    /\ PathsAreBound
=============================================================================
