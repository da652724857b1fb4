----------------------------- MODULE ImpactTools -----------------------------
(***************************************************************************)
(* detect_impact and get_review_context: which symbols a diff of git       *)
(* touches, what is called from or calls them, and how risky that is.  A   *)
(* diff has one section for each path, its lines are headers and hunks;    *)
(* lines of content are left out, none is taken for a header.              *)
(***************************************************************************)
EXTENDS StoredGraph

CONSTANTS
    DiffPaths,      \* sequence of the paths that may be in a diff, in git's order
    Hunks,          \* bound: new-side ranges of a section, as sequences of [start, count]
    MaxSections,    \* bound: sections of a diff
    PartOf          \* pairs of names, the first of which is part of the second

VARIABLE diff       \* sequence of sections [path, change, hunks]

NoPath == <<>>

\* Paths and symbols have names and lines, and the uid that is no symbol is none.
ImpactOK ==
    /\ DiffPaths \in Seq(Range(DiffPaths)) /\ NoPath \notin Range(DiffPaths)
    /\ Hunks \subseteq Seq([start : Nat, count : Nat])
    /\ \A t \in Tables : \A r, s \in Range(t) :
          /\ r.uid # Gone /\ r.first \in Nat /\ r.last \in Nat
          /\ r.uid = s.uid => r = s

Changes == {"modified", "added", "deleted", "mode"}

\* The lines of a section.  One without changes of content has no paths; the hunks of a
\* deleted file have an empty new side.
SectionLines(s) ==
    LET old == IF s.change = "added" THEN [is |-> "---", path |-> NoPath]
               ELSE [is |-> "---", path |-> s.path]
        new == IF s.change = "deleted" THEN [is |-> "+++", path |-> NoPath]
               ELSE [is |-> "+++", path |-> s.path]
        hunk(h) == [is |-> "@@", start |-> IF s.change = "deleted" THEN 0 ELSE h.start,
                    count |-> IF s.change = "deleted" THEN 0 ELSE h.count]
    IN  <<[is |-> "diff"]>>
        \o (IF s.change = "mode" THEN <<>>
            ELSE <<old, new>> \o [i \in DOMAIN s.hunks |-> hunk(s.hunks[i])])

Lines(d) == FlattenSeq([i \in DOMAIN d |-> SectionLines(d[i])])

-----------------------------------------------------------------------------
Flush(st) ==
    IF st.file = NoPath THEN st.hunks
    ELSE Append(st.hunks, [file |-> st.file, ranges |-> st.ranges, new |-> st.new,
                           deleted |-> st.deleted])

\* Mutant of ParseLine: a file stays new until the end of the diff.
ParseLineNew(st, line) ==
    CASE line.is = "diff" ->
            [st EXCEPT !.hunks = Flush(st), !.file = NoPath, !.deleted = FALSE,
                       !.ranges = IF st.file = NoPath THEN @ ELSE {}]
      [] line.is = "+++" /\ line.path # NoPath -> [st EXCEPT !.file = line.path]
      [] line.is = "+++" /\ line.path = NoPath -> [st EXCEPT !.deleted = TRUE]
      [] line.is = "---" /\ line.path = NoPath -> [st EXCEPT !.new = TRUE]
      [] line.is = "---" /\ line.path # NoPath -> st
      [] line.is = "@@" ->
            [st EXCEPT !.ranges = IF line.count = 0 THEN @
                                  ELSE @ \cup {<<line.start, line.start + line.count - 1>>}]

\* parse_diff, line by line.  /dev/null as the new path leaves the section without a file.
ParseLine(st, line) ==
    CASE line.is = "diff" ->
            [st EXCEPT !.hunks = Flush(st), !.file = NoPath, !.new = FALSE, !.deleted = FALSE,
                       !.ranges = IF st.file = NoPath THEN @ ELSE {}]
      [] line.is = "+++" /\ line.path # NoPath -> [st EXCEPT !.file = line.path]
      [] line.is = "+++" /\ line.path = NoPath -> [st EXCEPT !.deleted = TRUE]
      [] line.is = "---" /\ line.path = NoPath -> [st EXCEPT !.new = TRUE]
      [] line.is = "---" /\ line.path # NoPath -> st
      [] line.is = "@@" ->
            [st EXCEPT !.ranges = IF line.count = 0 THEN @
                                  ELSE @ \cup {<<line.start, line.start + line.count - 1>>}]

ParseDiff(d) ==
    Flush(FoldLeft(ParseLine, [hunks |-> <<>>, file |-> NoPath, ranges |-> {}, new |-> FALSE,
                               deleted |-> FALSE], Lines(d)))

-----------------------------------------------------------------------------
Paths == {s.file : s \in Table}

\* find_matching_symbols: the path itself, or else any stored path that is an ending of it
\* or has it for an ending, or none.
Candidates(path) ==
    IF path \in Paths THEN {path}
    ELSE LET near == {f \in Paths : IsSuffix(f, path) \/ IsSuffix(path, f)}
         IN  IF near = {} THEN {NoPath} ELSE near

Picks == {p \in [Range(DiffPaths) -> Paths \cup {NoPath}] :
             \A path \in Range(DiffPaths) : p[path] \in Candidates(path)}

Overlaps(range, s) == range[1] <= s.last /\ range[2] >= s.first

Touched(pick, hunk) ==
    {s \in Table : /\ s.file = pick[hunk.file]
                   /\ hunk.new \/ hunk.deleted \/ \E r \in hunk.ranges : Overlaps(r, s)}

DirectlyChanged(pick, d) == UNION {Touched(pick, h) : h \in Range(ParseDiff(d))}

\* Callers and callees, importers and imports; a uid that is no symbol ends the search.
Neighbours(u) ==
    LET rows == Rels({"Calls", "Imports"})
    IN  IF u = Gone THEN {} ELSE Sources(To(rows, u)) \cup Targets(From(rows, u))

Affected(pick, d, max) ==
    LET changed == {s.uid : s \in DirectlyChanged(pick, d)}
        layers  == Layers([u \in Uids \cup {Gone} |-> Neighbours(u)], changed, max)
    IN  {x \in Uids \X (1..max) : x[1] \in layers[x[2]]}

AffectedFiles(pick, d, max) ==
    {h.file : h \in Range(ParseDiff(d))} \cup {FileOf(x[1]) : x \in Affected(pick, d, max)}

\* In hundredths: one for each changed symbol, a half for each affected one, 0.3 for each row
\* that calls or imports a changed one and 0.2 for each file, of 50 at most, scaled to 10.
RiskScore(pick, d, max) ==
    LET changed == DirectlyChanged(pick, d)
        raw == 10 * Cardinality(changed) + 5 * Cardinality(Affected(pick, d, max))
               + 3 * Cardinality({e \in Rels({"Calls", "Imports"}) :
                                     e.target \in {s.uid : s \in changed}})
               + 2 * Cardinality(AffectedFiles(pick, d, max))
    IN  IF ParseDiff(d) = <<>> THEN 0 ELSE 2 * Min({raw, 500})

-----------------------------------------------------------------------------
\* get_review_context: a changed symbol is looked up again, by its qualified name, and its
\* neighbours are those of calls alone.
ReviewChanged(pick, d) ==
    {symbols[SelectInSeq(symbols, LAMBDA t : t.qual = s.qual)].uid : s \in DirectlyChanged(pick, d)}

ReviewCallers(pick, d) ==
    LET c == ReviewChanged(pick, d)
    IN  ((UNION {Sources(To(CallRows, u)) : u \in c}) \ c) \cap Uids

ReviewCallees(pick, d) ==
    LET c == ReviewChanged(pick, d)
    IN  ((UNION {Targets(From(CallRows, u)) : u \in c}) \ c) \cap Uids

\* A community is touched if a changed name is part of its list of names.
ReviewCommunities(pick, d) ==
    {c.label : c \in {x \in Range(communities) :
        \E s \in DirectlyChanged(pick, d), n \in Range(x.names) :
            n = s.name \/ <<s.name, n>> \in PartOf}}

-----------------------------------------------------------------------------
ImpactInit == GraphInit /\ diff = <<>>

\* git diff has another section, of a later path.
AddSection ==
    /\ Len(diff) < MaxSections
    /\ \E i \in DOMAIN DiffPaths, change \in Changes, hunks \in Hunks :
          /\ change \in {"deleted", "mode"} => hunks = CHOOSE h \in Hunks : TRUE
          /\ \A s \in Range(diff) : SelectInSeq(DiffPaths, LAMBDA p : p = s.path) < i
          /\ diff' = Append(diff, [path |-> DiffPaths[i], change |-> change, hunks |-> hunks])
    /\ UNCHANGED graphVars

ImpactNext == AddSection \/ (Connect /\ UNCHANGED diff)
ImpactSpec == ImpactInit /\ [][ImpactNext]_<<graphVars, diff>>

-----------------------------------------------------------------------------
\* Every section with a new side is read, in order, with its own path, mark and ranges; what
\* is read is of a section that changes lines.
ParseIsFaithful ==
    LET written == {i \in DOMAIN diff : diff[i].change \in {"modified", "added"}}
        read    == ParseDiff(diff)
    IN  /\ \E place \in [written -> DOMAIN read] :
              /\ \A i, j \in written : i < j => place[i] < place[j]
              /\ \A i \in written :
                    /\ read[place[i]].file = diff[i].path
                    /\ read[place[i]].new <=> diff[i].change = "added"
                    /\ ~read[place[i]].deleted
                    /\ read[place[i]].ranges = {<<h.start, h.start + h.count - 1>> :
                                                  h \in {x \in Range(diff[i].hunks) : x.count > 0}}
        /\ \A h \in Range(read) : \E x \in Range(diff) : x.path = h.file /\ x.change # "mode"

\* A symbol is changed if a section with a new side touches it; one of another file only if
\* the path of the section is unknown to the store and ends like it.  Nothing is asked of the
\* symbols of a deleted file: "All symbols in new/deleted files are affected" (impact.rs:268),
\* but its new side is /dev/null, which parse_diff takes for no path.
ChangedAreTouched ==
    \A pick \in Picks :
        LET changed == DirectlyChanged(pick, diff)
        IN  /\ \A s \in Table, x \in Range(diff) :
                  /\ x.path = s.file /\ x.change \in {"modified", "added"}
                  /\ x.change = "added" \/ \E h \in Range(x.hunks), line \in s.first..s.last :
                                               line \in h.start..(h.start + h.count - 1)
                  => s \in changed
            /\ \A s \in changed :
                  \E x \in Range(diff) :
                      x.path = s.file \/ (x.path \notin Paths /\ s.file \in Candidates(x.path))

\* Nothing is both changed and affected, what is next to a changed symbol is affected, and
\* the files of both are listed, unless a changed one was found under another path.
AffectedAreNear ==
    \A pick \in Picks :
        LET changed  == {s.uid : s \in DirectlyChanged(pick, diff)}
            affected == Affected(pick, diff, 2)
        IN  /\ {x[1] : x \in affected} \cap changed = {}
            /\ \A e \in Rels({"Calls", "Imports"}) :
                  /\ e.source \in changed /\ e.target \in Uids \ changed
                        => <<e.target, 1>> \in affected
                  /\ e.target \in changed /\ e.source \in Uids \ changed
                        => <<e.source, 1>> \in affected
            /\ \A x \in affected : FileOf(x[1]) \in AffectedFiles(pick, diff, 2)

\* Another section never lowers the risk.
RiskGrows ==
    diff # <<>> =>
        \A pick \in Picks : RiskScore(pick, Front(diff), 2) <= RiskScore(pick, diff, 2)

\* A review shows the same changed symbols, and callers and callees that the impact report
\* has as well, unless a qualified name is another symbol's too.
ReviewIsImpact ==
    (\A s, t \in Table : s.qual = t.qual => s = t) =>
        \A pick \in Picks :
            /\ ReviewChanged(pick, diff) = {s.uid : s \in DirectlyChanged(pick, diff)}
            /\ \A u \in ReviewCallers(pick, diff) \cup ReviewCallees(pick, diff) :
                  <<u, 1>> \in Affected(pick, diff, 1)

\* Impact and review follow from the diff, in any order of kinds of sections.
ImpactFollowsDiff ==
    /\ ParseIsFaithful
    /\ ChangedAreTouched
    /\ AffectedAreNear
    /\ RiskGrows
    /\ ReviewIsImpact
=============================================================================
