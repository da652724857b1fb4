----------------------------- MODULE IndexReaders -----------------------------
(***************************************************************************)
(* The index of one repository under its readers.  Full runs (myc analyze, *)
(* the MCP tool analyze) and updates of a file (myc watch, email sync)     *)
(* change the five tables and the snapshot step by step, and every read of *)
(* a table is a query of its own: nothing makes a run or a call atomic.    *)
(* Calls do not disturb each other, so one call at a time stands for all.  *)
(* It is followed as long as one graph can explain its answer: it starts   *)
(* on an index that the last run left whole, and is forgotten when a write *)
(* falls into it.  What other calls answer is a mixture of graphs that the *)
(* code does nothing to prevent.                                           *)
(*                                                                         *)
(* Every analysis draws the uids of its rows anew.  A symbol or file row   *)
(* is the run that drew it and its file, an edge is the pair of its ends,  *)
(* a community or process the set of its symbols.  A run finds one symbol  *)
(* in every file and an edge from each to each.                            *)
(***************************************************************************)
EXTENDS Naturals, Sequences, FiniteSets

CONSTANTS
    Indexers,   \* processes that write the index
    CodeFiles,  \* the files of the repository
    NoOne, NoSnapshot,
    MaxStarts   \* bound: runs

ASSUME ReadersAssumption == MaxStarts \in Nat /\ NoOne \notin Indexers

VARIABLES
    index,        \* table -> its rows
    snapshot,     \* snapshots/<repo_id>.json: the symbols and edges of a full run
    versions,     \* snapshots/<repo_id>/: the snapshots snapshot_diff compares
    starts,       \* runs started: the source of fresh uids
    stage,        \* of each writer: the step its run takes next, 0 without a run
    work,         \* of each writer: the kind and number of its run and the files it indexes
    loaded,       \* of each writer: the rows it read or collected
    call,         \* the call in progress
    lone,         \* history: the writer that has been alone since it started
    trust, before,\* history: how the last run left the index, and the one before it
    built, saved, \* history: what the last full run built, and whether it saved it
    full          \* history: full runs that got to their end

shared      == <<index, snapshot, versions>>
runState    == <<starts, stage, work, loaded>>
readHistory == <<lone, trust, before, built, saved, full>>
readerVars  == <<shared, runState, call, readHistory>>

Tables == {"symbols", "files", "relationships", "communities", "processes"}

\* The steps of a full run (delete_repo_data comes first), of the update of files, which
\* begins like the removal of one (delete_file_data), and of a removal.
FullRun == <<<<"wipe", "symbols">>, <<"wipe", "files">>, <<"wipe", "relationships">>,
             <<"wipe", "communities">>, <<"wipe", "processes">>,
             <<"store", "symbols">>, <<"store", "files">>, <<"store", "relationships">>,
             <<"load", "symbols">>, <<"load", "relationships">>,
             <<"derive", "communities">>, <<"derive", "processes">>, <<"save", "snapshot">>>>
Update  == <<<<"collect", "symbols">>,
             <<"drop", "symbols">>, <<"drop", "files">>, <<"drop", "relationships">>,
             <<"store", "symbols">>, <<"store", "files">>, <<"store", "relationships">>>>
Removal == <<<<"collect", "symbols">>,
             <<"drop", "symbols">>, <<"drop", "files">>, <<"drop", "relationships">>>>
StepsOf == [full |-> FullRun, update |-> Update, removal |-> Removal]

Each(rows) == rows \X rows
NoRows     == [symbols |-> {}, relationships |-> {}]
NoWork     == [kind |-> "full", run |-> 0, files |-> {}]
NoCall     == [open |-> FALSE, left |-> <<>>, lenient |-> 0, seen |-> {}, short |-> FALSE,
               trust |-> "none", saved |-> FALSE, full |-> 0, holes |-> FALSE]

\* What a full run of this number finds and derives.
Built(n) == LET rows == {n} \X CodeFiles
            IN  [symbols |-> rows, files |-> rows, relationships |-> Each(rows),
                 communities |-> {rows}, processes |-> {rows}]
Graph(of) == [symbols |-> of["symbols"], relationships |-> of["relationships"]]

Rows   == (0..MaxStarts) \X CodeFiles
Graphs == [symbols : SUBSET Rows, relationships : SUBSET (Rows \X Rows)]
ReadersTypeOK ==
    /\ index = [t \in Tables |-> index[t]]
    /\ index["symbols"] \subseteq Rows /\ index["files"] \subseteq Rows
    /\ index["relationships"] \subseteq Rows \X Rows
    /\ index["communities"] \subseteq SUBSET Rows /\ index["processes"] \subseteq SUBSET Rows
    /\ snapshot \in Graphs \cup {NoSnapshot}
    /\ starts \in 0..MaxStarts
    /\ work \in [Indexers -> [kind : DOMAIN StepsOf, run : 0..MaxStarts,
                              files : SUBSET CodeFiles]]
    /\ stage \in [Indexers -> 0..13]
    /\ loaded \in [Indexers -> Graphs]
    /\ built \in Graphs /\ saved \in BOOLEAN
    /\ {trust, before} \subseteq {"whole", "updated", "none"}

\* No run yet, or a first one, which did or did not save its snapshot.
ReadersInit ==
    /\ full \in {0, 1} /\ saved \in BOOLEAN /\ (saved => full = 1)
    /\ starts = 0
    /\ index = IF full = 1 THEN Built(0) ELSE [t \in Tables |-> {}]
    /\ built = Graph(index)
    /\ snapshot = IF saved THEN built ELSE NoSnapshot
    /\ versions = {}
    /\ stage = [w \in Indexers |-> 0]
    /\ work = [w \in Indexers |-> NoWork]
    /\ loaded = [w \in Indexers |-> NoRows]
    /\ call = NoCall
    /\ lone = NoOne /\ trust = "whole" /\ before = "whole"

-----------------------------------------------------------------------------
(* Runs *)

Steps(w)  == StepsOf[work[w].kind]
AtLast(w) == stage[w] = Len(Steps(w))

\* Runs whose w is alone from start to end are the ones that trust speaks of.
Launch(w, kind, files) ==
    /\ stage[w] = 0 /\ starts < MaxStarts
    /\ starts' = starts + 1
    /\ stage' = [stage EXCEPT ![w] = 1]
    /\ work' = [work EXCEPT ![w] = [kind |-> kind, run |-> starts + 1, files |-> files]]
    /\ lone' = IF \A v \in Indexers : stage[v] = 0 THEN w ELSE NoOne
    /\ before' = trust /\ trust' = "none"
    /\ UNCHANGED <<shared, loaded, call, built, saved, full>>

LaunchFull(w)    == Launch(w, "full", CodeFiles)
LaunchUpdate(w)  == \E f \in CodeFiles : Launch(w, "update", {f})
LaunchRemoval(w) == \E f \in CodeFiles : Launch(w, "removal", {f})

\* What a run holds in memory goes with it.
EndRun(w) ==
    /\ stage' = [stage EXCEPT ![w] = 0]
    /\ work' = [work EXCEPT ![w] = NoWork]
    /\ loaded' = [loaded EXCEPT ![w] = NoRows]

\* The next step of w's run does this to this table, and the run goes on with these rows.
Step(w, what, t, rows) ==
    /\ stage[w] # 0 /\ Steps(w)[stage[w]] = <<what, t>>
    /\ IF AtLast(w) THEN EndRun(w)
       ELSE /\ stage' = [stage EXCEPT ![w] = @ + 1]
            /\ loaded' = [loaded EXCEPT ![w] = rows]
            /\ UNCHANGED work
    /\ UNCHANGED starts

Write(t, rows) ==
    /\ index' = [index EXCEPT ![t] = rows]
    /\ call' = NoCall
    /\ UNCHANGED <<snapshot, versions>>

\* History: an update that was alone leaves what is derived from the graph as it was.
EndUpdate(w) ==
    trust' = IF AtLast(w) /\ lone = w /\ before # "none" THEN "updated" ELSE trust

\* delete_repo_data
Wipe(w) ==
    /\ \E t \in Tables : Step(w, "wipe", t, loaded[w]) /\ Write(t, {})
    /\ UNCHANGED readHistory

\* store_symbols, store_files, store_relationships: what the run found
Found(w) == {work[w].run} \X work[w].files
Store(w) ==
    /\ \E t \in {"symbols", "files", "relationships"} :
        /\ Step(w, "store", t, loaded[w])
        /\ Write(t, index[t] \cup IF t = "relationships" THEN Each(Found(w)) ELSE Found(w))
    /\ EndUpdate(w)
    /\ UNCHANGED <<lone, before, built, saved, full>>

\* get_symbols and get_relationships, once the graph is stored
Load(w) ==
    /\ \E t \in {"symbols", "relationships"} :
        Step(w, "load", t, [loaded[w] EXCEPT ![t] = index[t]])
    /\ UNCHANGED <<shared, call, readHistory>>

\* store_communities and store_processes: one community of all symbols, one process
\* of those on an edge whose ends are known
Members(w, t) ==
    LET known == loaded[w].symbols
    IN  IF t = "communities" THEN known
        ELSE {s \in known : \E r \in known : <<s, r>> \in loaded[w].relationships}
Derive(w) ==
    /\ \E t \in {"communities", "processes"} :
        Step(w, "derive", t, loaded[w]) /\ Write(t, index[t] \cup ({Members(w, t)} \ {{}}))
    /\ IF Steps(w)[stage[w]] = <<"derive", "processes">> /\ lone = w
       THEN trust' = "whole" /\ built' = loaded[w] /\ saved' = FALSE
       ELSE UNCHANGED <<trust, built, saved>>
    /\ UNCHANGED <<lone, before, full>>

\* Mutant of Save: the first snapshot is kept as the baseline.
SaveFirst(w) ==
    /\ Step(w, "save", "snapshot", loaded[w])
    /\ snapshot' = IF snapshot = NoSnapshot THEN loaded[w] ELSE snapshot
    /\ call' = NoCall
    /\ saved' = (saved \/ lone = w) /\ full' = full + 1
    /\ UNCHANGED <<index, versions, lone, trust, before, built>>

\* save_snapshot; save_versioned_snapshot is called by none of the program's commands.
Save(w) ==
    /\ Step(w, "save", "snapshot", loaded[w])
    /\ snapshot' = loaded[w]
    /\ call' = NoCall
    /\ saved' = (saved \/ lone = w) /\ full' = full + 1
    /\ UNCHANGED <<index, versions, lone, trust, before, built>>

\* The snapshot is saved at best: the run goes on without it.
SaveFails(w) ==
    /\ Step(w, "save", "snapshot", loaded[w])
    /\ full' = full + 1
    /\ UNCHANGED <<shared, call, lone, trust, before, built, saved>>

\* fs::write empties the file first: a save that fails there, or dies there before the run
\* is over, leaves one that does not parse, from which a call answers as little as from
\* none.  A call that reads between the two halves of a save that succeeds fails as well.
SaveTorn(w) ==
    /\ Step(w, "save", "snapshot", loaded[w])
    /\ snapshot' = NoSnapshot
    /\ call' = NoCall
    /\ saved' = FALSE /\ full' \in {full, full + 1}
    /\ UNCHANGED <<index, versions, lone, trust, before, built>>

\* delete_file_data: the uids of the file's symbols, then table by table
OfFiles(w, rows) == {r \in rows : r[2] \in work[w].files}
CollectUids(w) ==
    /\ Step(w, "collect", "symbols",
            [loaded[w] EXCEPT !.symbols = OfFiles(w, index["symbols"])])
    /\ UNCHANGED <<shared, call, readHistory>>

\* Mutant of Touching: edges are deleted by the symbol they go out from.
GoingOut(w, edges) == {e \in edges : e[1] \in loaded[w].symbols}
Touching(w, edges) == {e \in edges : {e[1], e[2]} \cap loaded[w].symbols # {}}
Drop(w) ==
    /\ \E t \in {"symbols", "files", "relationships"} :
        /\ Step(w, "drop", t, loaded[w])
        /\ Write(t, index[t] \ IF t = "relationships" THEN Touching(w, index[t])
                               ELSE OfFiles(w, index[t]))
    /\ EndUpdate(w)
    /\ UNCHANGED <<lone, before, built, saved, full>>

\* A run fails or its process dies, anywhere.
CutOff(w) ==
    /\ stage[w] # 0
    /\ EndRun(w)
    /\ UNCHANGED <<shared, starts, call, readHistory>>

-----------------------------------------------------------------------------
(* Calls *)

Served == INSTANCE ReadTools

Ask ==
    /\ ~call.open /\ trust # "none"
    /\ \E tool \in Served!Tools :
        call' = [NoCall EXCEPT !.open = TRUE, !.left = tool.reads, !.lenient = tool.lenient,
                               !.trust = trust, !.saved = saved, !.full = full]
    /\ UNCHANGED <<shared, runState, readHistory>>

\* Read: the head of the reads that are left, a table or another store.
Reads(t)  == call.open /\ call.left # <<>> /\ Head(call.left) = t
AfterRead == [call EXCEPT !.left = Tail(@), !.lenient = IF @ = 0 THEN 0 ELSE @ - 1]

Read ==
    /\ \E t \in Tables :
        Reads(t) /\ call' = [AfterRead EXCEPT !.seen = @ \cup {<<t, index[t]>>}]
    /\ UNCHANGED <<shared, runState, readHistory>>

\* unwrap_or_default: the call goes on without the table; or it ends with the error.
ReadFails ==
    /\ \E t \in Tables :
        /\ Reads(t)
        /\ call' = IF call.lenient = 0 THEN NoCall
                   ELSE [AfterRead EXCEPT !.seen = @ \cup {<<t, {}>>}, !.holes = TRUE]
    /\ UNCHANGED <<shared, runState, readHistory>>

\* load_snapshot; without one the call ends with a hint, with a torn one with an error.
ReadSnapshot ==
    /\ Reads("snapshot")
    /\ call' = IF snapshot = NoSnapshot THEN NoCall
               ELSE [AfterRead EXCEPT !.seen = @ \cup {<<"snapshot", snapshot>>}]
    /\ UNCHANGED <<shared, runState, readHistory>>

\* list_snapshots: with fewer than two the call has nothing to compare.
ReadVersions ==
    /\ Reads("versions")
    /\ \E few \in {\A x, y \in versions : x = y} : call' = [AfterRead EXCEPT !.short = few]
    /\ UNCHANGED <<shared, runState, readHistory>>

Answered == call.open /\ call.left = <<>>

Answer ==
    /\ Answered
    /\ call' = NoCall
    /\ UNCHANGED <<shared, runState, readHistory>>

ReadersNext ==
    \/ \E w \in Indexers :
          \/ LaunchFull(w) \/ LaunchUpdate(w) \/ LaunchRemoval(w)
          \/ Wipe(w) \/ Store(w) \/ Load(w) \/ Derive(w) \/ Save(w) \/ SaveFails(w) \/ SaveTorn(w)
          \/ CollectUids(w) \/ Drop(w) \/ CutOff(w)
    \/ Ask \/ Read \/ ReadFails \/ ReadSnapshot \/ ReadVersions \/ Answer

ReadersSpec == ReadersInit /\ [][ReadersNext]_readerVars

-----------------------------------------------------------------------------
Seen(t) == {s[2] : s \in {x \in call.seen : x[1] = t}}

\* Nothing orders the reads of a call and the writes of a run, and nothing makes either
\* atomic.  What the code does give: a call that no write fell into, on an index whose last
\* run was neither cut off nor overlapped by another, answers from one graph: every table
\* it read twice is the same, every edge has both of its ends, every symbol its file, and,
\* until files are updated one by one, communities and processes have all their symbols.
AnswersAreCoherent ==
    Answered /\ ~call.holes =>
        /\ \A x, y \in call.seen : x[1] = y[1] => x = y
        /\ \A symbols \in Seen("symbols") :
            /\ \A edges \in Seen("relationships") : edges \subseteq Each(symbols)
            /\ \A files \in Seen("files") : symbols \subseteq files
            /\ call.trust = "whole" =>
                \A groups \in Seen("communities") \cup Seen("processes") :
                    UNION groups \subseteq symbols

\* `myc diff`, get_graph_diff and detect_architecture_drift compare the index with what
\* the last full run built, whichever updates came after it, if its snapshot was saved.
\* Right after a full run the comparison is empty: the run replaced the snapshot.
DiffIsSinceFullRun ==
    Answered /\ ~call.holes /\ call.saved =>
        \A shot \in Seen("snapshot") :
            /\ shot = built
            /\ call.trust = "whole" =>
                /\ \A symbols \in Seen("symbols") : symbols = shot.symbols
                /\ \A edges \in Seen("relationships") : edges = shot.relationships

\* "A new snapshot is saved automatically after each analysis", for the historical
\* comparison of snapshot_diff: after two full runs it has something to compare.
SnapshotDiffAnswers == Answered /\ call.full >= 2 => ~call.short
=============================================================================
