--------------------------- MODULE DependencyTools ---------------------------
(***************************************************************************)
(* What detect_circular_dependencies, get_centrality_report and            *)
(* architecture_lint of the MCP server, and the pages of the HTTP server   *)
(* for them, compute from the relationships between symbols.  (What is     *)
(* computed from imports alone, get_dependencies, get_module_coupling and  *)
(* the rule of unstable dependencies, is empty: no analysis stores any.)   *)
(***************************************************************************)
EXTENDS CallTools, CommunityTools

CONSTANT Refusal    \* the answer of a tool that fails

\* It is none of the answers of a tool that does not: a set of symbols, or of cycles.
ASSUME RefusalAssumption ==
    LET uids == {s.uid : s \in UNION {Range(t) : t \in Tables}}
    IN  /\ \A found \in SUBSET uids : Refusal # found
        /\ \A cycles \in SUBSET SUBSET (uids \cup {Gone}) : Refusal # cycles

\* Everything to be reached by one row or more.
Reach(rows, u) ==
    UNION Range(Layers([v \in Uids \cup {Gone} |-> Targets(From(rows, v))], {u},
                       Cardinality(Uids) + 1))

\* Symbols that depend on each other.
Circles(rows) ==
    {{v \in Ends(rows) : v \in Reach(rows, u) /\ u \in Reach(rows, v)} : u \in Ends(rows)}

CycleRows(kinds) == Proper(Rels(kinds))

\* The crate refuses two rows with the same source and target, which detect_cycles does not
\* merge; two in opposite directions are two edges to it.
RefusedDirected(rows) ==
    \E e, f \in rows : e # f /\ e.source = f.source /\ e.target = f.target

DetectCycles(kinds, min) ==
    LET rows == CycleRows(kinds)
    IN  IF RefusedDirected(rows) THEN Refusal
        ELSE {c \in Circles(rows) : Cardinality(c) >= Max({min, 2})}

\* compute_centrality: for it, opposite directions are the same, and not merged either.
\* get_centrality_report lists the symbols it measures.
GetCentralityReport ==
    IF Refused(StructuralRows) THEN Refusal ELSE Ends(StructuralRows) \cap Uids

-----------------------------------------------------------------------------
\* lint_architecture.  That the cycles could not be computed is not a finding.
LintCycles ==
    LET cycles == DetectCycles({"Calls", "Imports"}, 2)
    IN  IF cycles = Refusal THEN {}
        ELSE {[rule |-> "circular_dependency", about |-> c] : c \in cycles}

Lint(threshold) ==
    LintCycles
    \cup {[rule |-> "god_node", about |-> {s.uid}] : s \in HighCoupling(threshold)}
    \cup {[rule |-> "high_fan_out", about |-> {s.uid}] :
            s \in {t \in Table : OutDegree(t.uid) > threshold}}

-----------------------------------------------------------------------------
\* No graph of calls is refused, and two symbols are in one cycle if and only if get_callers,
\* asked as deep as there are uids, lists each as a caller of the other.
CyclesAreCallers ==
    LET cycles     == DetectCycles({"Calls", "Imports"}, 2)
        callers(u) == {x[1] : x \in GetCallers(u, Cardinality(Uids) + 1)}
    IN  /\ cycles # Refusal
        /\ \A u, v \in Uids :
              u # v => ((\E c \in cycles : {u, v} \subseteq c) <=> v \in callers(u) /\ u \in callers(v))

\* Two that call each other.
Mutual(u, v) == u # v /\ v \in Targets(From(CallRows, u)) /\ u \in Targets(From(CallRows, v))

\* There is a centrality for every symbol, called or not; for none at all as soon as any two
\* call each other.
CentralityIsOfAll ==
    GetCentralityReport =
        IF \E u, v \in Uids \cup {Gone} : Mutual(u, v) THEN Refusal ELSE Uids

\* What makes the centrality fail is a finding of the linter.
LintNamesTheRefused ==
    GetCentralityReport = Refusal =>
        \E f \in Lint(1) : /\ f.rule = "circular_dependency"
                           /\ \E u, v \in f.about : Mutual(u, v)

\* What is said of dependencies fits together.  Cycles, centrality and labels are computed from
\* a graph each builds for itself, directed or not and merged or not, and get_callers goes
\* through the rows; a graph that the crate refuses is an answer that fails.
DependencyToolsAgree ==
    /\ CyclesAreCallers
    /\ CentralityIsOfAll
    /\ LintNamesTheRefused
=============================================================================
