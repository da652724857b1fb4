------------------------------ MODULE GraphSearch ------------------------------
(***************************************************************************)
(* The breadth-first searches that answer questions about a graph, one     *)
(* turn of their loop at a time: get_callers and get_callees of the MCP    *)
(* server, the shortest path of find_path and `myc path`, the impact of a  *)
(* diff (impact.rs) and the call depths of the visualiser.  They differ in *)
(* where they start, which edges they follow, when they mark a node (when  *)
(* it is put into the queue or when it leaves it) and where they stop.     *)
(*                                                                         *)
(* A node is a uid; an edge may name a uid that is no symbol: a file, or a *)
(* symbol that is gone.  Neighbours are taken in one order: the answers do *)
(* not depend on it, except for which of several shortest paths is shown.  *)
(***************************************************************************)
EXTENDS Naturals, Sequences, FiniteSets, SequencesExt

CONSTANTS
    Nodes, NoNode,
    MaxEdges, MaxDepth      \* bounds: edges of the graph, depth asked for

VARIABLES
    search,     \* "callers", "callees", "path", "impact" or "depths"
    calls,      \* the edges
    symbols,    \* uids that are symbols
    starts,     \* the symbol asked about, the changed symbols, or the entry points
    goal,       \* the end of the path
    limit,      \* max_depth
    queue,      \* [node, depth], and for an impact nothing of its marks
    marked,     \* visited, or for the depths the keys of the map
    depth,      \* depth at which a node was marked
    parent,     \* the node a node was found from
    reported    \* nodes reported so far

question   == <<search, calls, symbols, starts, goal, limit>>
searchVars == <<question, queue, marked, depth, parent, reported>>

Edges == Nodes \X Nodes

-----------------------------------------------------------------------------
\* The neighbours a search looks at.
Next_(n) ==
    LET out == {m \in Nodes : <<n, m>> \in calls}
        in  == {m \in Nodes : <<m, n>> \in calls}
    IN  CASE search = "callers"            -> in
          [] search \in {"callees", "depths"} -> out
          [] OTHER                         -> in \cup out

AtDepth(set, d) == [i \in 1..Cardinality(set) |-> [node |-> SetToSeq(set)[i], depth |-> d]]

\* Entry points of the depths: symbols nobody calls.
Uncalled == {s \in symbols : \A n \in Nodes : <<n, s>> \notin calls}

\* What the impact starts with: the neighbours of the changed symbols.
Seeds == {n \in UNION {Next_(s) : s \in starts} : n \notin starts}

Begin ==
    /\ queue = IF search = "impact" THEN AtDepth(Seeds, 1) ELSE AtDepth(starts, 0)
    /\ marked = starts
    /\ depth = [n \in Nodes |-> 0]
    /\ parent = [n \in Nodes |-> NoNode]
    /\ reported = {}

SearchInit ==
    /\ search \in {"callers", "callees", "path", "impact", "depths"}
    /\ \E k \in 0..MaxEdges : calls \in {e \in SUBSET Edges : Cardinality(e) = k}
    /\ symbols \in (SUBSET Nodes) \ {{}}
    /\ limit \in 0..MaxDepth /\ (search = "depths" => limit = 0)
    /\ CASE search = "depths" -> starts = Uncalled
         [] search = "impact" -> starts \in SUBSET symbols
         [] OTHER             -> \E s \in symbols : starts = {s}
    /\ IF search = "path" THEN goal \in symbols ELSE goal = NoNode
    /\ Begin

-----------------------------------------------------------------------------
Popped == Head(queue)
Turn   == queue # <<>>

\* Nodes found from n are marked when they are put into the queue.
Mark(n, new, d) ==
    /\ marked' = marked \cup new
    /\ depth' = [m \in Nodes |-> IF m \in new THEN d ELSE depth[m]]
    /\ parent' = [m \in Nodes |-> IF m \in new THEN n ELSE parent[m]]

\* get_callers, get_callees
Reach ==
    /\ search \in {"callers", "callees"} /\ Turn
    /\ LET n == Popped.node
           d == Popped.depth
           new == IF d < limit THEN Next_(n) \ marked ELSE {}
       IN  /\ reported' = reported \cup (IF d > 0 /\ d <= limit /\ n \in symbols THEN {n} ELSE {})
           /\ Mark(n, new, d + 1)
           /\ queue' = Tail(queue) \o AtDepth(new, d + 1)
    /\ UNCHANGED question

\* find_path, cmd_path: stop at the goal
FindPath ==
    /\ search = "path" /\ Turn
    /\ LET n == Popped.node
           d == Popped.depth
           new == IF d < limit THEN Next_(n) \ marked ELSE {}
       IN  IF n = goal
           THEN reported' = {n} /\ queue' = <<>> /\ UNCHANGED <<marked, depth, parent>>
           ELSE /\ Mark(n, new, d + 1)
                /\ queue' = Tail(queue) \o AtDepth(new, d + 1)
                /\ UNCHANGED reported
    /\ UNCHANGED question

\* Mutant of Affect: a node at the limit is extended, and what it leads to reported.
AffectDeep ==
    /\ search = "impact" /\ Turn
    /\ LET n == Popped.node
           d == Popped.depth
           new == IF n \in symbols /\ d <= limit THEN Next_(n) \ (marked \cup {n}) ELSE {}
       IN  IF n \in marked
           THEN queue' = Tail(queue) /\ UNCHANGED <<marked, depth, reported>>
           ELSE /\ marked' = marked \cup {n}
                /\ depth' = [depth EXCEPT ![n] = d]
                /\ reported' = reported \cup ({n} \cap symbols)
                /\ queue' = Tail(queue) \o AtDepth(new, d + 1)
    /\ UNCHANGED <<question, parent>>

\* detect_impact: a node is marked when it leaves the queue, and only a symbol is
\* reported and extended
Affect ==
    /\ search = "impact" /\ Turn
    /\ LET n == Popped.node
           d == Popped.depth
           new == IF n \in symbols /\ d < limit THEN Next_(n) \ (marked \cup {n}) ELSE {}
       IN  IF d > limit \/ n \in marked
           THEN queue' = Tail(queue) /\ UNCHANGED <<marked, depth, reported>>
           ELSE /\ marked' = marked \cup {n}
                /\ depth' = [depth EXCEPT ![n] = d]
                /\ reported' = reported \cup ({n} \cap symbols)
                /\ queue' = Tail(queue) \o AtDepth(new, d + 1)
    /\ UNCHANGED <<question, parent>>

\* calculate_depths: a node is queued again for every caller one level above it
Descend ==
    /\ search = "depths" /\ Turn
    /\ LET n == Popped.node
           d == depth[n] + 1
       IN  /\ Mark(n, Next_(n) \ marked, d)
           /\ queue' = Tail(queue) \o AtDepth({m \in Next_(n) : depth'[m] = d}, d)
    /\ UNCHANGED <<question, reported>>

SearchNext == Reach \/ FindPath \/ Affect \/ Descend

\* The loops block on nothing.
SearchFairness == WF_searchVars(SearchNext)

SearchSpec == SearchInit /\ [][SearchNext]_searchVars /\ SearchFairness

-----------------------------------------------------------------------------
\* Reference: the nodes at most d edges away.  An impact passes through symbols only.
Passable(n) == search # "impact" \/ n \in symbols
Ball[d \in Nat] ==
    IF d = 0 THEN starts
    ELSE Ball[d - 1] \cup UNION {Next_(n) : n \in {m \in Ball[d - 1] : Passable(m)}}
Within(d) == Ball[d]
Everything == Within(Cardinality(Nodes))

\* Callers, callees and the impact of a change are all the symbols within the depth
\* asked for, each reported at its least distance.
ReachIsExact ==
    search \in {"callers", "callees", "impact"} /\ queue = <<>> =>
        /\ reported = (Within(limit) \ starts) \cap symbols
        /\ \A n \in reported : n \in Within(depth[n]) /\ n \notin Within(depth[n] - 1)

\* The path from the goal back along the parents.
Back[i \in Nat] == IF i = 0 THEN goal ELSE parent[Back[i - 1]]

\* A path is found if and only if there is one of at most the depth asked for, and the
\* one that is shown is a walk along edges from the start to the goal, and a shortest.
PathIsShortest ==
    search = "path" /\ queue = <<>> =>
        /\ goal \in reported <=> goal \in Within(limit)
        /\ goal \in reported =>
              LET hops == depth[goal]
              IN  /\ Back[hops] \in starts
                  /\ \A i \in 1..hops : Back[i] \in Next_(Back[i - 1])
                  /\ hops > 0 => goal \notin Within(hops - 1)

\* The depth of a symbol is the length of a shortest chain of calls from a symbol that
\* nobody calls, and 0 when there is none.
DepthsAreLeast ==
    search = "depths" /\ queue = <<>> =>
        \A s \in symbols :
            IF s \in Everything
            THEN s \in Within(depth[s]) /\ (depth[s] > 0 => s \notin Within(depth[s] - 1))
            ELSE depth[s] = 0

\* The answer of get_callers and get_callees is marked as cut off by the depth.
DepthLimited == \E n \in reported : depth[n] >= limit

\* An answer that is not marked so is complete, unless depth 0 was asked for or an edge
\* leads to something that is no symbol.
UnmarkedIsComplete ==
    search \in {"callers", "callees"} /\ queue = <<>> /\ ~DepthLimited /\ limit > 0
    /\ (\A e \in calls : e \in symbols \X symbols)
    => Everything \ starts \subseteq reported

\* Searches answer exactly what they are asked: what is in reach and how far it is, a path
\* that is a shortest one, depths that are least, and a mark whenever something was cut off.
SearchIsExact == ReachIsExact /\ PathIsShortest /\ DepthsAreLeast /\ UnmarkedIsComplete

\* Every search comes to its end, on graphs with cycles and loops as well.
SearchEnds == <>(queue = <<>>)
=============================================================================
