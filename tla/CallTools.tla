------------------------------ MODULE CallTools ------------------------------
(***************************************************************************)
(* What is said of calls by find_dead_code, get_callers, get_callees,      *)
(* get_symbol_definition, get_god_nodes, get_knowledge_gaps and            *)
(* get_suggested_questions of the MCP server, and by the graph and symbol  *)
(* pages of the HTTP server.  Each goes through all rows on its own, with  *)
(* its own idea of what a caller, a test or a degree is.  (That the loops  *)
(* of the searches find these layers is GraphSearch.)                      *)
(***************************************************************************)
EXTENDS StoredGraph

CONSTANTS
    MaxDepth,       \* bound: the depth asked for
    ManyCallers,    \* 5, more than which make an untested symbol a severe gap
    FewCallers,     \* 2
    ManySymbols     \* 5, from which on a file should have documentation

ASSUME CallToolsAssumption == MaxDepth \in Nat

NoAnswer == "not found, or ambiguous"

\* A name means the first symbol that is qualified like that, or else the only one that
\* is called like that.
Resolve(n) ==
    LET exact == SelectSeq(symbols, LAMBDA s : s.qual = n)
    IN  IF exact # <<>> THEN exact[1].uid
        ELSE IF Len(Named(n)) = 1 THEN Named(n)[1].uid ELSE NoAnswer

\* Mutant of FindDeadCode: any edge keeps a symbol alive.
FindDeadCodeAnyEdge(excluded) ==
    {s \in Callable : s.uid \notin Targets(edges) /\ s.name \notin excluded}

\* find_dead_code; an exclude pattern stands for the names it is part of.
FindDeadCode(excluded) ==
    {s \in Callable : s.uid \notin Targets(CallRows) /\ s.name \notin excluded}

\* The search goes on through uids that are no symbols, and does not report them.
Reported(layers, max) == {x \in Uids \X (1..max) : x[1] \in layers[x[2]]}

GetCallers(u, max) ==
    Reported(Layers([v \in Uids \cup {Gone} |-> Sources(To(CallRows, v))], {u}, max), max)

GetCallees(u, max) ==
    Reported(Layers([v \in Uids \cup {Gone} |-> Targets(From(CallRows, v))], {u}, max), max)

DepthLimited(found, max) == \E x \in found : x[2] >= max

GetFileSymbols(f) == {s \in Table : s.file = f}

-----------------------------------------------------------------------------
\* compute_god_nodes: degrees count rows, whatever is at their other end.
InDegree(u)  == Cardinality(To(CallRows, u))
OutDegree(u) == Cardinality(From(CallRows, u))
Degree(u)    == InDegree(u) + OutDegree(u)

\* The first n by degree; the sort is stable.
GodNodes(n) ==
    {symbols[i] : i \in {j \in DOMAIN symbols :
        Cardinality({k \in DOMAIN symbols :
            \/ Degree(symbols[k].uid) > Degree(symbols[j].uid)
            \/ k < j /\ Degree(symbols[k].uid) = Degree(symbols[j].uid)}) < n}}

HighCoupling(threshold) == {s \in Table : Degree(s.uid) > threshold}

-----------------------------------------------------------------------------
\* get_knowledge_gaps: called, but from no symbol of a test file.
TestCaller(u) == \E e \in To(CallRows, u) : e.source \in Uids /\ IsTest(SymbolOf(e.source))

Untested ==
    {[symbol |-> s, severity |-> CASE InDegree(s.uid) > ManyCallers -> "high"
                                   [] InDegree(s.uid) > FewCallers  -> "medium"
                                   [] OTHER                         -> "low"] :
        s \in {t \in Callable : /\ ~IsTest(t)
                                /\ t.uid \in Targets(CallRows)
                                /\ ~TestCaller(t.uid)}}

\* Files with many symbols and no symbol that documents anything.
Undocumented ==
    LET code(f) == {s \in GetFileSymbols(f) :
                        s.kind \in {"Function", "Method", "Class", "Interface"}}
    IN  {f \in {s.file : s \in Table} :
            /\ Cardinality(code(f)) >= ManySymbols
            /\ \A s \in GetFileSymbols(f) : s.kind \notin {"Rationale", "Document", "Section"}}

-----------------------------------------------------------------------------
\* generate_suggested_questions.  The diff it is given is parsed and then not used.
AskedOfCallers(n) == {s \in Table : InDegree(s.uid) > n}

\* Asked when no symbol at all is in a test file, of one file.
AskedOfCoverage ==
    IF \E s \in Table : IsTest(s) THEN {} ELSE {s.file : s \in Callable}

\* Calls between different top directories.
CrossingCalls ==
    {e \in CallRows : /\ e.source \in Uids /\ e.target \in Uids
                      /\ FileOf(e.source)[1] # FileOf(e.target)[1]}

AskedOfSize(n) == {f \in {s.file : s \in Table} : Cardinality(GetFileSymbols(f)) > n}

-----------------------------------------------------------------------------
\* get_graph (HTTP): symbols of any kind that nobody calls.
EntryPoints == {s \in Table : s.uid \notin Targets(CallRows)}

\* get_symbol (HTTP): both ends of its relationships of any kind, if they are symbols.
SymbolCallers(u) == {e \in To(edges, u) : e.source \in Uids}
SymbolCallees(u) == {e \in From(edges, u) : e.target \in Uids}

-----------------------------------------------------------------------------
\* What calls a symbol at some distance is called by it at that distance, whatever uid is
\* on the way.
CallersMirrorCallees ==
    \A a, b \in Uids, d \in 1..MaxDepth :
        <<b, d>> \in GetCallers(a, MaxDepth) <=> <<a, d>> \in GetCallees(b, MaxDepth)

\* A function outside of tests is dead, untested or called from a test, and only one of
\* the three: the list of gaps leaves out what the list of dead code has, and no function
\* falls between the two.
EveryFunctionIsJudged ==
    \A s \in Callable :
        ~IsTest(s) =>
            LET dead     == s \in FindDeadCode({})
                untested == s \in {g.symbol : g \in Untested}
                tested   == TestCaller(s.uid)
            IN  /\ dead \/ untested \/ tested
                /\ ~(dead /\ untested) /\ ~(dead /\ tested) /\ ~(untested /\ tested)

\* Without tests, everything that is called is a gap.
CoverageIsAGap ==
    AskedOfCoverage # {} =>
        \A s \in Callable : s \in FindDeadCode({}) \/ \E g \in Untested : g.symbol = s

\* The two servers agree: what is dead is an entry point of the graph page, and the
\* direct callers are those of the symbol page, which also shows a recursive call.
ServersAgreeOnCalls ==
    /\ FindDeadCode({}) \subseteq EntryPoints
    /\ \A u \in Uids :
          {x[1] : x \in GetCallers(u, 1)}
              = Sources({e \in SymbolCallers(u) : e.kind = "Calls"}) \ {u}

\* The degree that ranks a god node counts the rows of its calls: a symbol without any is an
\* entry point, and no symbol has more callers to show than rows.
DegreesAreCalls ==
    \A s \in Table :
        /\ InDegree(s.uid) = 0 <=> s \in EntryPoints
        /\ InDegree(s.uid) >= Cardinality(GetCallers(s.uid, 1))

\* What the tools say of calls fits together.  They share no code but the store: find_dead_code
\* and get_knowledge_gaps split the functions between them, get_callers and get_callees are
\* written twice, and the HTTP server has its own idea of callers and entry points.
CallToolsAgree ==
    /\ CallersMirrorCallees
    /\ EveryFunctionIsJudged
    /\ CoverageIsAGap
    /\ ServersAgreeOnCalls
    /\ DegreesAreCalls
=============================================================================
