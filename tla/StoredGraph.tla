----------------------------- MODULE StoredGraph -----------------------------
(***************************************************************************)
(* What a tool gets when it asks a store for its symbols, relationships    *)
(* and communities: rows.  Every symbol has a row that says which file it  *)
(* is in, and a row for each symbol it was resolved to call or to mention; *)
(* resolution leaves one row of a kind between the same two, each way.  A  *)
(* row may name a uid that no symbol has: that of a file, or of a symbol   *)
(* that is gone.                                                           *)
(*                                                                         *)
(* The modules that extend this one say what the tools answer.  The graph  *)
(* grows by one row at a time, so that every answer is asked of every      *)
(* graph within the bounds.                                                *)
(***************************************************************************)
EXTENDS Naturals, Sequences, FiniteSets, SequencesExt

CONSTANTS
    Tables,         \* bound: the symbol tables it starts from
    Groupings,      \* bound: the communities tables it starts from
    Kinds,          \* bound: kinds of the relationships that are resolved
    FileUid,        \* the uid of the file of each path
    Gone,           \* a uid of nothing that is stored
    TestFiles,      \* paths with "test" or "spec" in them
    MaxEdges,       \* bound: rows that were resolved
    MaxLines        \* bound: lines of a symbol that call or mention the same one

\* A table is a sequence of rows, and no symbol has the uid of a file.  No analysis stores
\* rows of kind Imports: what is imported is used to resolve calls, and dropped.
ASSUME TablesAssumption ==
    /\ \A t \in Tables : t \in Seq(Range(t))
    /\ \A t \in Tables : \A r, s \in Range(t) : FileUid[r.file] \notin {s.uid, Gone}
    /\ Kinds \cap {"ContainedBy", "Imports"} = {}

VARIABLES
    symbols,        \* sequence of rows
    edges,          \* set of rows; line is part of what is stored with one
    communities     \* sequence of rows

graphVars == <<symbols, edges, communities>>

-----------------------------------------------------------------------------
\* A path is the sequence of its parts.
Symbol(uid, name, qual, kind, file, first, last) ==
    [uid |-> uid, name |-> name, qual |-> qual, kind |-> kind, file |-> file,
     first |-> first, last |-> last]

\* names is top_symbols: at most five names, not uids, of a community's members.
Community(uid, label, names, count) ==
    [uid |-> uid, label |-> label, names |-> names, count |-> count]

Table     == Range(symbols)
Uids      == {s.uid : s \in Table}
SymbolOf(u) == CHOOSE s \in Table : s.uid = u
FileOf(u)   == SymbolOf(u).file
Named(n)    == SelectSeq(symbols, LAMBDA s : s.name = n)
Callable  == {s \in Table : s.kind \in {"Function", "Method"}}
IsTest(s) == s.file \in TestFiles

Rels(kinds)      == {e \in edges : e.kind \in kinds}
CallRows         == Rels({"Calls"})
From(rows, u)    == {e \in rows : e.source = u}
To(rows, u)      == {e \in rows : e.target = u}
Sources(rows)    == {e.source : e \in rows}
Targets(rows)    == {e.target : e \in rows}

\* What a breadth-first search finds at each distance up to n from the uids in start,
\* Near[u] being the neighbours of u.
Layers(Near, start, n) ==
    LET layer[d \in 0..n] ==
            IF d = 0 THEN [at |-> start, seen |-> start]
            ELSE LET new == (UNION {Near[v] : v \in layer[d - 1].at}) \ layer[d - 1].seen
                 IN  [at |-> new, seen |-> layer[d - 1].seen \cup new]
    IN  [d \in 0..n |-> layer[d].at]

-----------------------------------------------------------------------------
\* The rows every analysis stores for its symbols.
FileRow(s) == [kind |-> "ContainedBy", source |-> s.uid, target |-> FileUid[s.file], line |-> 0]

GraphInit ==
    /\ symbols \in Tables
    /\ communities \in Groupings
    /\ edges = {FileRow(s) : s \in Range(symbols)}

Resolved == {e \in edges : e.kind # "ContainedBy"}

Alike(e, f) == e.kind = f.kind /\ e.source = f.source /\ e.target = f.target

\* Mutant of Deduplicated: a row for every line.
NotDeduplicated(rows) == rows

\* "same source+target only once": the first one that was met.
Deduplicated(rows) == {e \in rows : \A f \in rows : Alike(e, f) => e.line <= f.line}

\* One symbol was resolved to call or mention another, on the first n lines of what it does.
Connect ==
    /\ Cardinality(Resolved) < MaxEdges
    /\ \E kind \in Kinds, from \in Uids \cup {Gone}, to \in Uids \cup {Gone}, n \in 1..MaxLines :
          LET row(l) == [kind |-> kind, source |-> from, target |-> to, line |-> l]
          IN  /\ \A e \in edges : ~Alike(e, row(n))
              /\ edges' = edges \cup Deduplicated({row(l) : l \in 1..n})
    /\ UNCHANGED <<symbols, communities>>

GraphSpec == GraphInit /\ [][Connect]_graphVars
=============================================================================
