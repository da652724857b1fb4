--------------------------- MODULE CommunityTools ---------------------------
(***************************************************************************)
(* Communities: how they are detected, labelled and measured, and what the *)
(* MCP and HTTP servers say of them.  The partition itself is Leiden's, of *)
(* an external crate: any partition of the uids it is given.  A stored     *)
(* community keeps at most MaxTop names of its members, and everything     *)
(* that reads it back takes every symbol of such a name for a member.      *)
(***************************************************************************)
EXTENDS StoredGraph

CONSTANTS
    MaxTop,         \* names kept of a community
    NoCommunity,    \* the label of a symbol that is in none
    PerPage,        \* bound: clusters of a page asked for
    MaxParted       \* bound: uids of which all partitions are looked at

\* The label of a community of which no member is a symbol.
Nameless(i) == "community-" \o ToString(i)

\* Uids are unique (OneRowPerSymbol of IndexGraph), and no label is the word for none.
ASSUME CommunityAssumption ==
    /\ MaxTop \in Nat \ {0} /\ PerPage \subseteq Nat \ {0}
    /\ \A g \in Groupings : g \in Seq(Range(g))
    /\ \A t \in Tables : \A r, s \in Range(t) : r.uid = s.uid => r = s
    /\ \A t \in Tables : \A s \in Range(t) : s.name # NoCommunity
    /\ \A t \in Tables : \A i \in 1..(2 * Len(t) + 1) : Nameless(i) # NoCommunity

StructuralRows == Rels({"Calls", "Imports", "ContainedBy"})
Ends(rows) == Sources(rows) \cup Targets(rows)
Joins(e)   == {e.source, e.target}
Proper(rows) == {e \in rows : e.source # e.target}

\* The edges of detect: all rows between two symbols are one.
Ties(rows) == {Joins(e) : e \in Proper(rows)}

Degrees(u) == Cardinality({t \in Ties(StructuralRows) : u \in t})

\* The crate refuses a graph with two edges between the same nodes.
Refused(rows) == \E e, f \in Proper(rows) : e # f /\ Joins(e) = Joins(f)

\* Too little to partition.
Sparse == StructuralRows = {} \/ Len(symbols) < 2

\* Partitions with one more element, which joins a part or is one of its own.
Joining(u, partitions) ==
    UNION {{p \cup {{u}}} \cup {(p \ {part}) \cup {part \cup {u}} : part \in p} : p \in partitions}

Partitions(nodes) == FoldSet(Joining, {{}}, nodes)

\* What Leiden may answer, in some order or its reverse.
Leiden(nodes) ==
    IF Cardinality(nodes) > MaxParted THEN {}
    ELSE UNION {{SetToSeq(p), Reverse(SetToSeq(p))} : p \in Partitions(nodes)}

-----------------------------------------------------------------------------
\* detect: members by degree, in any order where it is the same; the names of the first
\* ones that are symbols; the first of them is the label.
Rankings(members) ==
    {r \in SetToSeqs(members) : \A i, j \in DOMAIN r : i < j => Degrees(r[i]) >= Degrees(r[j])}

Described(i, ranking) ==
    LET name(list, u) == IF u \in Uids THEN Append(list, SymbolOf(u).name) ELSE list
        names == FoldLeft(name, <<>>, SubSeq(ranking, 1, Min({MaxTop, Len(ranking)})))
    IN  Community("uid-" \o ToString(i), IF names = <<>> THEN Nameless(i) ELSE names[1],
                  names, Len(ranking))

Descriptions(i, members) == {Described(i, r) : r \in Rankings(members)}

\* compute_uid_to_community_label, and the labels of compute_community_metrics: the name of
\* a member with the highest degree.
Labels(i, members) ==
    {IF u \in Uids THEN SymbolOf(u).name ELSE Nameless(i) :
        u \in {v \in members : \A w \in members : Degrees(v) >= Degrees(w)}}

LabelMaps ==
    IF Sparse \/ Refused(StructuralRows) THEN {<<>>}
    ELSE UNION {LET given  == UNION {{<<i, l>> : l \in Labels(i, p[i])} : i \in DOMAIN p}
                    labels == {l \in [DOMAIN p -> {x[2] : x \in given}] :
                                  \A i \in DOMAIN p : <<i, l[i]>> \in given}
                IN  {[u \in Ends(StructuralRows) |-> l[CHOOSE i \in DOMAIN p : u \in p[i]]] :
                        l \in labels} :
            p \in Leiden(Ends(StructuralRows))}

\* compute_community_metrics: rows inside of each community, rows between any two, and the
\* most there could be inside.  The modularity is a sum over the same rows.
Within(p, i)      == {e \in Proper(StructuralRows) : Joins(e) \subseteq p[i]}
Between(p, i, j)  == {e \in Proper(StructuralRows) : Joins(e) \cap p[i] # {} /\ Joins(e) \cap p[j] # {}}
Possible(p, i)    == (Cardinality(p[i]) * (Cardinality(p[i]) - 1)) \div 2

\* The partitions that are measured.
Measured == IF Sparse \/ Refused(StructuralRows) THEN {} ELSE Leiden(Ends(StructuralRows))

-----------------------------------------------------------------------------
\* get_community_detail.  Members are found by name.
Members(c) == {s \in Table : s.name \in Range(c.names)}
UidsOf(c)  == {s.uid : s \in Members(c)}

Detail(id) ==
    LET i == SelectInSeq(communities, LAMBDA c : c.uid = id \/ c.label = id)
        c == communities[i]
        touching == {e \in edges : Joins(e) \cap UidsOf(c) # {}}
        inside   == {e \in touching : Joins(e) \subseteq UidsOf(c)}
    IN  [community |-> c, internal |-> Cardinality(inside),
         external |-> Cardinality(touching \ inside)]

\* get_knowledge_gaps: communities with at most one call across their border.
Crossing(c) == {e \in CallRows : Joins(e) \cap UidsOf(c) # {} /\ ~(Joins(e) \subseteq UidsOf(c))}

Isolated ==
    {c \in Range(communities) :
        c.count >= 2 /\ Cardinality(Crossing(c)) <= 1 /\ Members(c) # {}}

\* The last community that has a symbol's name is the symbol's.
HomeOf(s) ==
    LET i == SelectLastInSeq(communities, LAMBDA c : s.name \in Range(c.names))
    IN  IF i = 0 THEN NoCommunity ELSE communities[i].label

StoredMap == [u \in {s.uid : s \in {t \in Table : HomeOf(t) # NoCommunity}} |-> HomeOf(SymbolOf(u))]

LabelIn(map, u) == IF u \in DOMAIN map THEN map[u] ELSE NoCommunity

\* Rows whose ends are in different communities of a map.
Across(map) ==
    {e \in edges : /\ Joins(e) \subseteq DOMAIN map
                   /\ map[e.source] # map[e.target]}

\* get_knowledge_gaps: the only call between two communities, and who makes it.
Bridges ==
    LET calls == {e \in Across(StoredMap) : e.kind = "Calls"}
        pair(e) == {StoredMap[e.source], StoredMap[e.target]}
    IN  {e \in calls : \A f \in calls : pair(f) = pair(e) => f = e}

-----------------------------------------------------------------------------
\* build_community_map (HTTP): of the stored communities, or else computed on the spot, or
\* else the first two parts of the path.
CommunityMaps ==
    IF StoredMap # <<>> THEN {StoredMap}
    ELSE {IF m # <<>> THEN m
          ELSE [u \in Uids |-> SubSeq(FileOf(u), 1, Min({2, Len(FileOf(u))}))] : m \in LabelMaps}

\* Mutant of CrossEdges: only the rows that go out.
CrossEdgesOut(map, u) ==
    Cardinality({e \in edges :
        e.source = u /\ LabelIn(map, e.target) \notin {LabelIn(map, u), NoCommunity}})

\* count_cross_community_edges.  A symbol that is in none has them with every community.
CrossEdges(map, u) ==
    Cardinality({e \in edges :
        \/ e.source = u /\ LabelIn(map, e.target) \notin {LabelIn(map, u), NoCommunity}
        \/ e.target = u /\ LabelIn(map, e.source) \notin {LabelIn(map, u), NoCommunity}})

\* graph_v1_overview: one cluster for each label, and one for the symbols without; the pages.
Clusters(map) ==
    {{u \in Uids : LabelIn(map, u) = l} : l \in {LabelIn(map, u) : u \in Uids}}

Page(clusters, page, per) ==
    LET start == (page - 1) * per
    IN  SubSeq(clusters, start + 1, Min({start + per, Len(clusters)}))

\* compute_surprising_connections: calls across, scored by how few join the same two
\* communities, at least min percent.
Surprising(map, min) ==
    LET calls   == {e \in Across(map) : e.kind = "Calls"}
        pair(e) == {map[e.source], map[e.target]}
        same(e) == Cardinality({f \in calls : pair(f) = pair(e)})
        all     == Cardinality(calls)
    IN  {e \in calls : Joins(e) \subseteq Uids /\ 100 * (all - same(e)) >= min * all}

-----------------------------------------------------------------------------
\* CommunityDetector::detect, and what it finds is stored.
Detect ==
    /\ \/ Sparse /\ communities' = <<>>
       \/ /\ ~Sparse
          /\ \E p \in Leiden(Ends(StructuralRows)) :
                communities' \in {c \in [DOMAIN p -> UNION {Descriptions(i, p[i]) : i \in DOMAIN p}] :
                                     \A i \in DOMAIN p : c[i] \in Descriptions(i, p[i])}
    /\ UNCHANGED <<symbols, edges>>

CommunityNext == Connect \/ Detect
CommunitySpec == GraphInit /\ [][CommunityNext]_graphVars

-----------------------------------------------------------------------------
\* A bridge is marked on the graph page: its row crosses communities there too.
BridgesCross ==
    \A e \in Bridges : \A map \in CommunityMaps :
        CrossEdges(map, e.source) > 0 /\ CrossEdges(map, e.target) > 0

\* No name is in two communities, and no two have the same label.
Distinct ==
    \A i, j \in DOMAIN communities : i # j =>
        /\ communities[i].label # communities[j].label
        /\ Range(communities[i].names) \cap Range(communities[j].names) = {}

\* Then an isolated community has at most one bridge.
IsolatedHasOneBridge ==
    Distinct =>
        \A c \in Isolated : Cardinality({e \in Bridges : Joins(e) \cap UidsOf(c) # {}}) <= 1

\* What is isolated has no more calls across its border than its page shows.
DetailShowsCrossings ==
    \A c \in Isolated :
        Detail(c.uid).community = c => Detail(c.uid).external >= Cardinality(Crossing(c))

\* Every row is counted once, inside of a community or between two, and no community is
\* denser than a complete graph.
MetricsAddUp ==
    \A p \in Measured :
        /\ Cardinality(Proper(StructuralRows))
              = SumFunction([i \in DOMAIN p |-> Cardinality(Within(p, i))])
                + SumFunction([ij \in {x \in (DOMAIN p) \X (DOMAIN p) : x[1] < x[2]} |->
                                  Cardinality(Between(p, ij[1], ij[2]))])
        /\ \A i \in DOMAIN p : Cardinality(p[i]) >= 2 => Cardinality(Within(p, i)) <= Possible(p, i)

\* The clusters of the overview are all symbols, each once, and its pages are all clusters.
OverviewIsAPartition ==
    \A map \in CommunityMaps :
        LET all == SetToSeq(Clusters(map))
        IN  /\ UNION Clusters(map) = Uids
            /\ MapThenSumSet(Cardinality, Clusters(map)) = Cardinality(Uids)
            /\ \A per \in PerPage :
                  FlattenSeq([n \in 1..Len(all) |-> Page(all, n, per)]) = all

\* Where nothing is stored, a surprising connection crosses communities on the graph page
\* that is computed from the same labels.
SurprisingCross ==
    \A map \in LabelMaps : \A e \in Surprising(map, 10) :
        CrossEdges(map, e.source) > 0 /\ CrossEdges(map, e.target) > 0

\* What is said of communities fits together.  Four copies of the membership by name, three
\* of the detection and two of the rows across have to agree, on stored communities that may be
\* older than the edges.
CommunityToolsAgree ==
    /\ BridgesCross
    /\ IsolatedHasOneBridge
    /\ DetailShowsCrossings
    /\ MetricsAddUp
    /\ OverviewIsAPartition
    /\ SurprisingCross

\* "matching the labelling logic in detect" (community.rs:489): the label computed on the spot
\* is one that detection gives to the same partition.  It is not where a file has the highest
\* degree of its community, as it does among the symbols that are in it: detection names the
\* first member that is a symbol, and the label says that there is none.
LabelsMatch ==
    \A p \in Measured : \A i \in DOMAIN p :
        Labels(i, p[i]) \subseteq {c.label : c \in Descriptions(i, p[i])}
=============================================================================
