----------------------------- MODULE IndexGraph -----------------------------
(***************************************************************************)
(* The graph of a repository: its rows of symbols and files and the edges  *)
(* between them, as Analyzer::analyze (after delete_repo_data) builds it   *)
(* anew, and as analyze_files and handle_file_deleted change it file by    *)
(* file.  Every run draws new uids, and resolves the edges of the files it *)
(* reads among the files it reads.  `myc watch`, the email sync and the    *)
(* MCP server write without the analysis lock, so runs may overlap.        *)
(*                                                                         *)
(* A file's text is what the graph takes from it: the symbols it defines,  *)
(* its calls, import aliases and aliases of variables, and, for a mail,    *)
(* the persons and the symbols it names.                                   *)
(***************************************************************************)
EXTENDS Naturals, Sequences, SequencesExt

CONSTANTS
    Writers,
    WalkOrder,      \* the files, in the order of discover_files
    Symbols, People,
    Text, Node,     \* the symbol of a mail, and the node of a file
    Contents,       \* the contents of files
    NoFile,
    FirstTrees,
    MaxRuns, MaxEdits   \* bounds: runs started, changes of the tree

Files == ToSet(WalkOrder)
Items == Symbols \cup People \cup {Text, Node}
Uids  == [run : 0..MaxRuns, file : Files, item : Items]
Kinds == {"contained", "calls", "sent", "mentions"}
Edges == [src : Uids, dst : Uids, kind : Kinds]
Trees == [Files -> Contents \cup {NoFile}]
Orders == {s \in UNION {[1..n -> Files] : n \in 1..Len(WalkOrder)} : IsInjective(s)}

ASSUME IndexGraphAssumption ==
    /\ MaxRuns \in Nat /\ MaxEdits \in Nat
    /\ WalkOrder \in Seq(Files) /\ IsInjective(WalkOrder) /\ FirstTrees \subseteq Trees /\ NoFile \notin Contents
    /\ Node \notin Symbols \cup People \cup {Text}
    /\ \A c \in Contents :
        /\ c.people \cup c.mentions # {} => Text \in c.defs
        /\ c.defs \subseteq Symbols \cup {Text} /\ c.people \subseteq People
        /\ c.calls \subseteq Symbols \X Symbols /\ c.mentions \subseteq Symbols
        /\ c.imports \subseteq Symbols \X Symbols /\ c.vars \subseteq Symbols \X Symbols
        /\ c.guarded \in BOOLEAN

VARIABLES
    tree, edits,    \* the working tree, and how often it changed
    symbols, nodes, edges,  \* the tables symbols, files and relationships
    runs,           \* runs started: the source of fresh uids
    pc, kind, order, todo, doomed, run, parsed, \* of each writer
    read,           \* history: what the index was last told of each file
    touched, base,  \* history: files re-indexed since the last full run, its edges
    alone, overlapped, cut, fresh   \* history: see StoreEdges and Interrupt

table   == <<symbols, nodes, edges>>
writer  == <<pc, kind, order, todo, doomed, run, parsed>>
history == <<read, touched, base, alone, overlapped, cut, fresh>>
vars == <<tree, edits, table, runs, writer, history>>

-----------------------------------------------------------------------------
(* What a run makes of the files it read. *)

\* should_skip_file guards analyze only; a missing or empty file is skipped.
Kept(k, c) == c # NoFile /\ (k = "full" => ~c.guarded)

\* The texts a run of kind k goes on with, and their files.
KeptTexts(k, src) == [f \in Files |-> IF Kept(k, src[f]) THEN src[f] ELSE NoFile]
Batch(ord, src) == {f \in ToSet(ord) : src[f] # NoFile}

Defining(ord, src, n)  == {f \in Batch(ord, src) : n \in src[f].defs}
Naming(ord, src, p)    == {f \in Batch(ord, src) : p \in src[f].people}
Importing(ord, src, n) == {f \in Batch(ord, src) : \E o \in Symbols : <<n, o>> \in src[f].imports}
Assigning(ord, src, n) == {f \in Batch(ord, src) : \E o \in Symbols : <<n, o>> \in src[f].vars}

\* The last file of a set wins (HashMap::insert), or the first one (get).
LastOf(ord, S) ==
    ord[CHOOSE i \in DOMAIN ord : ord[i] \in S /\ \A j \in DOMAIN ord : j > i => ord[j] \notin S]
FirstOf(ord, S) ==
    ord[CHOOSE i \in DOMAIN ord : ord[i] \in S /\ \A j \in DOMAIN ord : j < i => ord[j] \notin S]

Uid(r, f, i) == [run |-> r, file |-> f, item |-> i]
Edge(u, v, k) == [src |-> u, dst |-> v, kind |-> k]

\* The uid a name is registered with, and that of a person: a symbol of the
\* first mail that names it.
SymbolUid(r, ord, src, n) == Uid(r, LastOf(ord, Defining(ord, src, n)), n)
PersonUid(r, ord, src, p) == Uid(r, FirstOf(ord, Naming(ord, src, p)), p)

\* The name a callee stands for: an import alias first, then, in a full run,
\* a variable's (register_alias); any file's alias counts for all files.
Original(k, ord, src, n) ==
    IF Importing(ord, src, n) # {}
    THEN CHOOSE o \in Symbols : <<n, o>> \in src[LastOf(ord, Importing(ord, src, n))].imports
    ELSE IF k = "full" /\ Assigning(ord, src, n) # {}
    THEN CHOOSE o \in Symbols : <<n, o>> \in src[LastOf(ord, Assigning(ord, src, n))].vars
    ELSE n

SymbolRows(r, ord, src) ==
    UNION {{Uid(r, f, i) : i \in src[f].defs} \cup {PersonUid(r, ord, src, p) : p \in src[f].people} :
                f \in Batch(ord, src)}

NodeRows(r, ord, src) == {Uid(r, f, Node) : f \in Batch(ord, src)}

\* resolve_calls: caller and callee are looked up by name in the whole batch.
CallEdges(r, k, ord, src) ==
    LET Resolves(c) == /\ Defining(ord, src, c[1]) # {}
                       /\ Defining(ord, src, Original(k, ord, src, c[2])) # {}
    IN  UNION {{Edge(SymbolUid(r, ord, src, c[1]),
                     SymbolUid(r, ord, src, Original(k, ord, src, c[2])), "calls") :
                    c \in {c \in src[f].calls : Resolves(c)}} : f \in Batch(ord, src)}

SentEdges(r, ord, src) ==
    UNION {{Edge(Uid(r, f, Text), PersonUid(r, ord, src, p), "sent") : p \in src[f].people} :
                f \in Batch(ord, src)}

\* extract_mentions: every symbol of the batch with the name.
MentionEdges(r, ord, src) ==
    UNION {UNION {{Edge(Uid(r, f, Text), Uid(r, g, n), "mentions") : g \in Defining(ord, src, n)} :
                        n \in src[f].mentions} : f \in Batch(ord, src)}

ContainedEdges(r, ord, src) ==
    {Edge(u, Uid(r, u.file, Node), "contained") : u \in SymbolRows(r, ord, src)}

EdgeRows(r, k, ord, src) ==
    CallEdges(r, k, ord, src) \cup SentEdges(r, ord, src) \cup MentionEdges(r, ord, src)
        \cup ContainedEdges(r, ord, src)

-----------------------------------------------------------------------------
\* The graph without its uids.
Place(u) == <<u.file, u.item>>
Shape(e) == <<Place(e.src), Place(e.dst), e.kind>>

\* The graph a full run would build of a tree.
IsGraphOf(src) ==
    LET texts == KeptTexts("full", src) IN
    /\ {Place(u) : u \in symbols} = {Place(u) : u \in SymbolRows(0, WalkOrder, texts)}
    /\ {Place(u) : u \in nodes} = {Place(u) : u \in NodeRows(0, WalkOrder, texts)}
    /\ {Shape(e) : e \in edges} = {Shape(e) : e \in EdgeRows(0, "full", WalkOrder, texts)}

Idle(w) == pc[w] = "idle"
Quiet == \A w \in Writers : Idle(w)
Nothing == [f \in Files |-> NoFile]

TablesOK ==
    /\ tree \in Trees /\ edits \in 0..MaxEdits /\ runs \in 0..MaxRuns
    /\ symbols \subseteq Uids /\ nodes \subseteq Uids /\ edges \subseteq Edges

WritersOK ==
    /\ pc \in [Writers -> {"idle", "wipe symbols", "wipe files", "wipe edges", "collect",
                           "drop symbols", "drop node", "drop edges",
                           "parse", "store symbols", "store files", "store edges"}]
    /\ kind \in [Writers -> {"full", "batch", "removal"}]
    /\ order \in [Writers -> Orders \cup {<<>>}] /\ todo \in [Writers -> Seq(Files)]
    /\ doomed \in [Writers -> SUBSET Uids] /\ run \in [Writers -> 0..MaxRuns]
    /\ parsed \in [Writers -> Trees]
    /\ \A w \in Writers : IsSuffix(todo[w], order[w]) /\ run[w] <= runs

HistoryOK ==
    /\ read \in Trees /\ touched \subseteq Files /\ base \subseteq Edges
    /\ alone \in [Writers -> BOOLEAN] /\ overlapped \in BOOLEAN /\ fresh \in BOOLEAN
    /\ cut \in {"none", "rows", "edges"}

TypeOK == TablesOK /\ WritersOK /\ HistoryOK

\* A repository that was just analyzed, with no writer at work.
Init ==
    /\ tree \in FirstTrees /\ edits = 0 /\ runs = 0
    /\ symbols = SymbolRows(0, WalkOrder, KeptTexts("full", tree))
    /\ nodes = NodeRows(0, WalkOrder, KeptTexts("full", tree))
    /\ edges = EdgeRows(0, "full", WalkOrder, KeptTexts("full", tree))
    /\ pc = [w \in Writers |-> "idle"] /\ kind = [w \in Writers |-> "full"]
    /\ order = [w \in Writers |-> <<>>] /\ todo = order
    /\ doomed = [w \in Writers |-> {}] /\ run = [w \in Writers |-> 0]
    /\ parsed = [w \in Writers |-> Nothing]
    /\ read = tree /\ touched = {} /\ base = edges
    /\ alone = [w \in Writers |-> FALSE]
    /\ overlapped = FALSE /\ cut = "none" /\ fresh = TRUE

-----------------------------------------------------------------------------
\* A file is written, created or removed.
Edit(f, c) ==
    /\ edits < MaxEdits /\ c # tree[f]
    /\ tree' = [tree EXCEPT ![f] = c]
    /\ edits' = edits + 1
    /\ UNCHANGED <<table, runs, writer, history>>

\* A run of kind k over the files of ord begins at step at.
Start(w, k, ord, at) ==
    /\ Idle(w) /\ runs < MaxRuns
    /\ runs' = runs + 1
    /\ run' = [run EXCEPT ![w] = runs + 1]
    /\ kind' = [kind EXCEPT ![w] = k]
    /\ order' = [order EXCEPT ![w] = ord] /\ todo' = [todo EXCEPT ![w] = ord]
    /\ pc' = [pc EXCEPT ![w] = at]
    /\ fresh' = FALSE
    /\ overlapped' = (overlapped \/ \E v \in Writers : ~Idle(v))
    /\ alone' = [v \in Writers |-> v = w /\ Quiet]
    /\ UNCHANGED <<tree, edits, table, doomed, parsed, read, touched, base, cut>>

\* cmd_analyze and the tool analyze: delete_repo_data, then Analyzer::analyze
StartFull(w) == Start(w, "full", WalkOrder, "wipe symbols")

\* FilesChanged of `myc watch`: analyze_files
StartBatch(w) == \E ord \in Orders : Start(w, "batch", ord, "collect")

\* FilesRemoved: handle_file_deleted of one file
StartRemoval(w) == \E f \in Files : Start(w, "removal", <<f>>, "collect")

Goto(w, at) == pc' = [pc EXCEPT ![w] = at]

\* delete_repo_data: one table after the other
WipeSymbols(w) ==
    /\ pc[w] = "wipe symbols" /\ symbols' = {} /\ Goto(w, "wipe files")
    /\ UNCHANGED <<tree, edits, nodes, edges, runs, kind, order, todo, doomed, run, parsed, history>>

WipeFiles(w) ==
    /\ pc[w] = "wipe files" /\ nodes' = {} /\ Goto(w, "wipe edges")
    /\ UNCHANGED <<tree, edits, symbols, edges, runs, kind, order, todo, doomed, run, parsed, history>>

\* Mutant of WipeEdges: the table of relationships is not in the list.
WipeNoEdges(w) ==
    /\ pc[w] = "wipe edges" /\ touched' = Files /\ Goto(w, "parse")
    /\ UNCHANGED <<tree, edits, table, runs, kind, order, todo, doomed, run, parsed,
                    read, base, alone, overlapped, cut, fresh>>

WipeEdges(w) ==
    /\ pc[w] = "wipe edges" /\ edges' = {} /\ touched' = Files /\ Goto(w, "parse")
    /\ UNCHANGED <<tree, edits, symbols, nodes, runs, kind, order, todo, doomed, run, parsed,
                    read, base, alone, overlapped, cut, fresh>>

\* delete_file_data: the uids of the next file, read before anything is deleted
Collect(w) ==
    /\ pc[w] = "collect"
    /\ doomed' = [doomed EXCEPT ![w] = {u \in symbols \cup nodes : u.file = Head(todo[w])}]
    /\ Goto(w, "drop symbols")
    /\ UNCHANGED <<tree, edits, table, runs, kind, order, todo, run, parsed, history>>

\* Mutant of DropSymbols: the path is not escaped as it was stored, and no row matches.
DropNoSymbols(w) ==
    /\ pc[w] = "drop symbols" /\ Goto(w, "drop node")
    /\ UNCHANGED <<tree, edits, table, runs, kind, order, todo, doomed, run, parsed, history>>

DropSymbols(w) ==
    /\ pc[w] = "drop symbols"
    /\ symbols' = {u \in symbols : u.file # Head(todo[w])}
    /\ Goto(w, "drop node")
    /\ UNCHANGED <<tree, edits, nodes, edges, runs, kind, order, todo, doomed, run, parsed, history>>

DropNode(w) ==
    /\ pc[w] = "drop node"
    /\ nodes' = {u \in nodes : u.file # Head(todo[w])}
    /\ Goto(w, "drop edges")
    /\ UNCHANGED <<tree, edits, symbols, edges, runs, kind, order, todo, doomed, run, parsed, history>>

\* Back to idle, with nothing in hand.
Rest(w) ==
    /\ Goto(w, "idle")
    /\ kind' = [kind EXCEPT ![w] = "full"] /\ run' = [run EXCEPT ![w] = 0]
    /\ order' = [order EXCEPT ![w] = <<>>] /\ todo' = [todo EXCEPT ![w] = <<>>]
    /\ doomed' = [doomed EXCEPT ![w] = {}]
    /\ parsed' = [parsed EXCEPT ![w] = Nothing]
    /\ alone' = [alone EXCEPT ![w] = FALSE]

\* The next file, or the step after the last one.
Advance(w) ==
    IF Len(todo[w]) = 1 /\ kind[w] = "removal" THEN Rest(w)
    ELSE /\ todo' = [todo EXCEPT ![w] = Tail(@)]
         /\ doomed' = [doomed EXCEPT ![w] = {}]
         /\ Goto(w, IF Len(todo[w]) = 1 THEN "parse" ELSE "collect")
         /\ UNCHANGED <<kind, order, run, parsed, alone>>

\* Mutant of DropEdges: only the edges that start in the file are deleted.
DropOutgoing(w) ==
    /\ pc[w] = "drop edges"
    /\ edges' = {e \in edges : e.src \notin doomed[w]}
    /\ read' = [read EXCEPT ![Head(todo[w])] = NoFile]
    /\ touched' = touched \cup {Head(todo[w])}
    /\ Advance(w)
    /\ UNCHANGED <<tree, edits, symbols, nodes, runs, base, overlapped, cut, fresh>>

\* Mutant of DropEdges: symbols are compared by name, not by uid.
DropByName(w) ==
    /\ pc[w] = "drop edges"
    /\ LET names == {u.item : u \in doomed[w]} IN
        edges' = {e \in edges : {e.src.item, e.dst.item} \cap names = {}}
    /\ read' = [read EXCEPT ![Head(todo[w])] = NoFile]
    /\ touched' = touched \cup {Head(todo[w])}
    /\ Advance(w)
    /\ UNCHANGED <<tree, edits, symbols, nodes, runs, base, overlapped, cut, fresh>>

\* Edges are deleted only if the file had symbols.
DropEdges(w) ==
    /\ pc[w] = "drop edges"
    /\ edges' = IF \E u \in doomed[w] : u.item # Node
                THEN {e \in edges : {e.src, e.dst} \cap doomed[w] = {}}
                ELSE edges
    /\ read' = [read EXCEPT ![Head(todo[w])] = NoFile]
    /\ touched' = touched \cup {Head(todo[w])}
    /\ Advance(w)
    /\ UNCHANGED <<tree, edits, symbols, nodes, runs, base, overlapped, cut, fresh>>

\* The files of the run are read and parsed.
Parse(w) ==
    /\ pc[w] = "parse"
    /\ parsed' = [parsed EXCEPT ![w] =
                    [f \in Files |-> IF f \in ToSet(order[w]) THEN tree[f] ELSE NoFile]]
    /\ Goto(w, "store symbols")
    /\ UNCHANGED <<tree, edits, table, runs, kind, order, todo, doomed, run, history>>

\* What this run stores is made of.
Ours(w) == KeptTexts(kind[w], parsed[w])

StoreSymbols(w) ==
    /\ pc[w] = "store symbols"
    /\ symbols' = symbols \cup SymbolRows(run[w], order[w], Ours(w))
    /\ Goto(w, "store files")
    /\ UNCHANGED <<tree, edits, nodes, edges, runs, kind, order, todo, doomed, run, parsed, history>>

StoreFiles(w) ==
    /\ pc[w] = "store files"
    /\ nodes' = nodes \cup NodeRows(run[w], order[w], Ours(w))
    /\ Goto(w, "store edges")
    /\ UNCHANGED <<tree, edits, symbols, edges, runs, kind, order, todo, doomed, run, parsed, history>>

\* The last store.  History: a full run that was alone settles everything.
StoreEdges(w) ==
    /\ pc[w] = "store edges"
    /\ edges' = edges \cup EdgeRows(run[w], kind[w], order[w], Ours(w))
    /\ read' = [f \in Files |-> IF f \in ToSet(order[w]) THEN parsed[w][f] ELSE read[f]]
    /\ IF kind[w] = "full"
       THEN /\ touched' = {} /\ base' = edges' /\ fresh' = alone[w]
            /\ overlapped' = (overlapped /\ ~alone[w])
            /\ cut' = IF alone[w] THEN "none" ELSE cut
       ELSE /\ touched' = touched \cup ToSet(order[w])
            /\ UNCHANGED <<base, fresh, overlapped, cut>>
    /\ Rest(w)
    /\ UNCHANGED <<tree, edits, symbols, nodes, runs>>

\* The run dies, or a store call fails.  History: edges outlive their rows
\* when it stops after the rows were deleted and before the edges were.
Interrupt(w) ==
    /\ ~Idle(w)
    /\ cut' = IF pc[w] \in {"wipe files", "wipe edges", "drop node", "drop edges"} \/ cut = "edges"
              THEN "edges" ELSE "rows"
    /\ Rest(w)
    /\ UNCHANGED <<tree, edits, table, runs, read, touched, base, overlapped, fresh>>

Next ==
    \/ \E f \in Files, c \in Contents \cup {NoFile} : Edit(f, c)
    \/ \E w \in Writers :
        \/ StartFull(w) \/ StartBatch(w) \/ StartRemoval(w)
        \/ WipeSymbols(w) \/ WipeFiles(w) \/ WipeEdges(w)
        \/ Collect(w) \/ DropSymbols(w) \/ DropNode(w) \/ DropEdges(w)
        \/ Parse(w) \/ StoreSymbols(w) \/ StoreFiles(w) \/ StoreEdges(w)
        \/ Interrupt(w)

Spec == Init /\ [][Next]_vars

-----------------------------------------------------------------------------
\* The rows a writer is about to delete the edges of, or to wipe.
Going(u) == \E w \in Writers : u \in doomed[w] \/ pc[w] \in {"wipe files", "wipe edges"}

\* delete_file_data and delete_repo_data leave no edge behind whose symbol or
\* file is gone, and no run stores one: an edge without its ends is being
\* deleted, unless a run stopped between the tables or two runs overlapped.
NoDanglingEdges ==
    cut = "edges" \/ overlapped
        \/ \A e \in edges : \A u \in {e.src, e.dst} : u \in symbols \cup nodes \/ Going(u)

\* analyze_files never indexes a symbol twice, in whatever order files are
\* analyzed anew, removed and interrupted: only runs that overlap do.
OneRowPerSymbol ==
    overlapped \/ \A u, v \in symbols \cup nodes : Place(u) = Place(v) => u = v

\* A full run that is alone makes the graph of the tree it read, whatever
\* interrupted or overlapping runs left behind.
FullRunRebuilds == fresh => IsGraphOf(read)

\* An incremental run neither removes nor adds an edge between two files that
\* no run since the last full one re-indexed.
Untouched(E) == {e \in E : e.src.file \notin touched /\ e.dst.file \notin touched}
UntouchedKeepEdges == Untouched(edges) = Untouched(base)

\* "the knowledge graph to stay current as you edit": once every change was
\* indexed, without failures or overlaps, the graph is that of the tree.
GraphStaysCurrent ==
    Quiet /\ cut = "none" /\ ~overlapped /\ read = tree => IsGraphOf(tree)
=============================================================================
