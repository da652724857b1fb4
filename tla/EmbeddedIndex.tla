---------------------------- MODULE EmbeddedIndex ----------------------------
(***************************************************************************)
(* The vectors of one repository's index and the three records that must   *)
(* agree with them: the dimension of the symbols table, the embedder named *)
(* in index_meta["embedding"], the accounting in index_meta                *)
(* ["embedding_stats"].  They live in separate LanceDB tables, written one *)
(* after the other by Analyzer::analyze (a full run of `myc analyze`) and  *)
(* Analyzer::analyze_files (an incremental run of `myc watch`), and any    *)
(* run may stop between two writes.                                        *)
(*                                                                         *)
(* A file stands for the symbols parsed from it.  vector[f] is NoRow when  *)
(* the symbols table has no row for f, Zero for rows that hold the         *)
(* placeholder of symbols_to_batch, and else the embedder of its vectors.  *)
(* An embedder is named by its fingerprint.                                *)
(***************************************************************************)
EXTENDS Integers, FiniteSets

CONSTANTS
    Files,          \* the repository's source files
    Embedders,      \* fingerprints a configuration can resolve to
    DimOf,          \* the dimension of each embedder's vectors
    Legacy,         \* IndexEmbeddingMeta::legacy()
    NoRow, Zero, NoMeta, NoStats,
    MayInterrupt,   \* FALSE: every run ends on its own
    MaxTotal        \* bound: stats.symbols_total of the modelled runs

ASSUME EmbedderAssumption ==
    /\ Legacy \in Embedders
    /\ DimOf \in [Embedders -> Nat \ {0}]
    /\ NoMeta \notin Embedders
    /\ {NoRow, Zero} \cap Embedders = {} /\ NoRow # Zero
    /\ NoStats \notin [total : Nat, embedded : Nat]
    /\ MaxTotal \in Nat /\ MayInterrupt \in BOOLEAN
    /\ IsFiniteSet(Files)

NoTable == 0

\* schema::DEFAULT_EMBEDDING_DIM is the legacy model's dimension
DefaultDim == DimOf[Legacy]

VARIABLES
    symDim,     \* dimension of the symbols table, NoTable when it is absent
    vector,     \* what the symbols table holds for each file
    meta,       \* index_meta["embedding"]
    stats,      \* index_meta["embedding_stats"]
    config,     \* the embedder .myceliums.toml resolves to
    pc, kind, skip,     \* the run in progress: its step, its kind, skip_embeddings
    dim,        \* embedding_dim of the run's Store handle
    emb,        \* the run's embed_meta, NoMeta when embeddings are skipped
    targets,    \* files an incremental run replaces
    batch,      \* files whose symbols the run parsed
    todo,       \* files still to delete, then files still to store
    count,      \* the embedding_count of the run
    orphaned,   \* history: vectors were stored, their embedder was not recorded
    hidden      \* history: a run left rows that no accounting covers

index == <<symDim, vector, meta, stats>>
run   == <<pc, kind, skip, dim, emb, targets, batch, todo, count>>
vars  == <<index, config, run, orphaned, hidden>>

Steps == {"idle", "wipe", "prepare", "purge", "parse", "store", "embed",
          "meta", "account", "finish"}

TypeOK ==
    /\ symDim \in {NoTable} \cup {DimOf[e] : e \in Embedders}
    /\ vector \in [Files -> {NoRow, Zero} \cup Embedders]
    /\ meta \in Embedders \cup {NoMeta}
    /\ stats \in {NoStats} \cup [total : Nat, embedded : Nat]
    /\ config \in Embedders
    /\ pc \in Steps /\ kind \in {"full", "incremental"} /\ skip \in BOOLEAN
    /\ dim \in {DimOf[e] : e \in Embedders}
    /\ emb \in Embedders \cup {NoMeta}
    /\ targets \subseteq Files /\ batch \subseteq Files /\ todo \subseteq Files
    /\ count \in Nat
    /\ orphaned \in BOOLEAN /\ hidden \in BOOLEAN

Init ==
    /\ symDim = NoTable
    /\ vector = [f \in Files |-> NoRow]
    /\ meta = NoMeta
    /\ stats = NoStats
    /\ config \in Embedders
    /\ pc = "idle" /\ kind = "full" /\ skip = FALSE
    /\ dim = DefaultDim /\ emb = NoMeta
    /\ targets = {} /\ batch = {} /\ todo = {}
    /\ count = 0
    /\ orphaned = FALSE /\ hidden = FALSE

-----------------------------------------------------------------------------
\* Mutant of Blank: delete_repo_data forgets the symbols table.
Kept == vector

Blank == [f \in Files |-> NoRow]
Rows  == {f \in Files : vector[f] # NoRow}

\* The embedder query paths use: the recorded one, else the legacy model.
QueryEmbedder == IF meta = NoMeta THEN Legacy ELSE meta

\* The run's local state goes out of scope.
EndRun ==
    /\ pc' = "idle" /\ kind' = "full" /\ skip' = FALSE
    /\ dim' = DefaultDim /\ emb' = NoMeta
    /\ targets' = {} /\ batch' = {} /\ todo' = {} /\ count' = 0

\* EmbeddingStats::is_partial
Partial == stats.embedded < stats.total

\* .myceliums.toml is edited; a run reads it once, when it starts
Configure ==
    /\ pc = "idle"
    /\ config' \in Embedders \ {config}
    /\ UNCHANGED <<index, run, orphaned, hidden>>

\* cmd_analyze and the MCP analyze tool: Store::open
StartFull(s) ==
    /\ pc = "idle"
    /\ pc' = "wipe" /\ kind' = "full" /\ skip' = s
    /\ dim' = DefaultDim
    /\ UNCHANGED <<index, config, emb, targets, batch, todo, count, orphaned, hidden>>

\* store.delete_repo_data(): rows go, index_meta and the table's schema stay
Wipe ==
    /\ pc = "wipe"
    /\ vector' = Blank
    /\ pc' = "prepare"
    /\ orphaned' = FALSE /\ hidden' = FALSE
    /\ UNCHANGED <<symDim, meta, stats, config, kind, skip, dim, emb, targets,
                   batch, todo, count>>

\* cmd_watch: one batch of changed files; T are those with a known extension
StartIncremental(s, T) ==
    /\ pc = "idle"
    /\ stats # NoStats => stats.total + Cardinality(T) <= MaxTotal
    /\ pc' = "prepare" /\ kind' = "incremental" /\ skip' = s
    /\ dim' = DefaultDim
    /\ targets' = T
    /\ UNCHANGED <<index, config, emb, batch, todo, count, orphaned, hidden>>

\* Mutant of RunEmbedder: an incremental run follows the configuration, too.
ConfiguredEmbedder == config

\* The embedder of a run that does not skip embeddings: a full run switches to
\* the configured one, an incremental run keeps the index's.
RunEmbedder == IF kind = "full" THEN config ELSE QueryEmbedder

\* Mutant of Rebuilt: ensure_symbols_dim is never called.
NeverRebuilt(e) == FALSE

\* ensure_symbols_dim drops the symbols table
Rebuilt(e) == symDim \notin {NoTable, DimOf[e]}

\* prepare_embeddings: resolve the embedder, wipe vectors a full run cannot
\* compare, set the handle's dimension, drop a symbols table of another one
Prepare ==
    /\ pc = "prepare"
    /\ IF skip
       THEN /\ emb' = NoMeta
            /\ UNCHANGED <<symDim, vector, dim, orphaned, hidden>>
       ELSE LET e     == RunEmbedder
                wiped == kind = "full" /\ meta # NoMeta /\ meta # e
            IN  /\ emb' = e
                /\ dim' = DimOf[e]
                /\ symDim' = IF Rebuilt(e) THEN NoTable ELSE symDim
                /\ vector' = IF wiped \/ Rebuilt(e) THEN Blank ELSE vector
                /\ orphaned' = (orphaned /\ ~(wiped \/ Rebuilt(e)))
                /\ hidden' = (hidden /\ ~(wiped \/ Rebuilt(e)))
    /\ pc' = CASE kind = "full"                        -> "parse"
              [] kind = "incremental" /\ targets # {}  -> "purge"
              [] kind = "incremental" /\ targets = {}  -> "finish"
    /\ todo' = targets
    /\ UNCHANGED <<meta, stats, config, kind, skip, targets, batch, count>>

\* analyze_files: delete_file_data for each changed file
Purge(f) ==
    /\ pc = "purge"
    /\ f \in todo
    /\ vector' = [vector EXCEPT ![f] = NoRow]
    /\ todo' = todo \ {f}
    /\ pc' = IF todo' = {} THEN "parse" ELSE "purge"
    /\ UNCHANGED <<symDim, meta, stats, config, kind, skip, dim, emb, targets,
                   batch, count, orphaned, hidden>>

\* Read and parse: an unreadable, empty or malformed file is skipped.
Parse ==
    /\ pc = "parse"
    /\ batch' \in SUBSET (IF kind = "full" THEN Files ELSE targets)
    /\ todo' = batch'
    /\ pc' = IF batch' = {} THEN "embed" ELSE "store"
    /\ UNCHANGED <<index, config, kind, skip, dim, emb, targets, count,
                   orphaned, hidden>>

\* store_symbols: a full run flushes parts of its symbols, an incremental run
\* all of them; the rows carry placeholder vectors of the handle's dimension, so
\* a table of another dimension refuses them and the error ends the run
StoreSymbols(part) ==
    /\ pc = "store"
    /\ part # {} /\ part \subseteq todo
    /\ kind = "incremental" => part = todo
    /\ symDim \in {NoTable, dim}
    /\ symDim' = dim
    /\ vector' = [f \in Files |-> IF f \in part THEN Zero ELSE vector[f]]
    /\ todo' = todo \ part
    /\ pc' = IF todo' = {} THEN "embed" ELSE "store"
    /\ UNCHANGED <<meta, stats, config, kind, skip, dim, emb, targets, batch,
                   count, orphaned, hidden>>

\* Mismatched dimensions: `?` on store_symbols
StoreRefused ==
    /\ pc = "store"
    /\ symDim \notin {NoTable, dim}
    /\ EndRun
    /\ UNCHANGED <<index, config, orphaned, hidden>>

\* get_embedder_for, embed_symbols or store_embeddings fails: only a warning
EmbedFails ==
    /\ pc = "embed" /\ emb # NoMeta
    /\ count' = 0
    /\ pc' = "account"
    /\ UNCHANGED <<index, config, kind, skip, dim, emb, targets, batch, todo,
                   orphaned, hidden>>

\* store_embeddings: merge_insert the vectors of the run's symbols
EmbedStores ==
    /\ pc = "embed" /\ emb # NoMeta
    /\ symDim \in {NoTable, dim}
    /\ vector' = [f \in Files |-> IF f \in batch \cap Rows THEN emb ELSE vector[f]]
    /\ symDim' = IF batch = {} THEN symDim ELSE dim
    /\ count' = IF batch \cap Rows = {} THEN 0 ELSE Cardinality(batch)
    /\ pc' = IF count' > 0 THEN "meta" ELSE "account"
    /\ UNCHANGED <<meta, stats, config, kind, skip, dim, emb, targets, batch,
                   todo, orphaned, hidden>>

\* embed_meta is None: no vectors, no accounting
EmbedSkipped ==
    /\ pc = "embed" /\ emb = NoMeta
    /\ count' = 0
    /\ pc' = "finish"
    /\ hidden' = (hidden \/ batch # {})
    /\ UNCHANGED <<index, config, kind, skip, dim, emb, targets, batch, todo,
                   orphaned>>

\* record_embedding_meta: an error is only a warning
RecordMeta ==
    /\ pc = "meta"
    /\ \/ meta' = emb /\ UNCHANGED orphaned
       \/ UNCHANGED meta /\ orphaned' = (orphaned \/ QueryEmbedder # emb)
    /\ pc' = "account"
    /\ UNCHANGED <<symDim, vector, stats, config, kind, skip, dim, emb, targets,
                   batch, todo, count, hidden>>

\* Mutant of Merged: the batch's counts are recorded as the index's.
Substituted(b) == b

\* merge_embedding_stats: the batch's counts are added, nothing is subtracted
Merged(b) ==
    IF stats = NoStats THEN b
    ELSE [total    |-> stats.total + b.total,
          embedded |-> stats.embedded + b.embedded]

\* EmbeddingStats::record after a full run, merge_embedding_stats after an
\* incremental one; an error is only a warning
Account ==
    /\ pc = "account"
    /\ LET b == [total |-> Cardinality(batch), embedded |-> count]
       IN \/ /\ stats' = IF kind = "full" THEN b ELSE Merged(b)
             /\ UNCHANGED hidden
          \/ UNCHANGED stats /\ hidden' = (hidden \/ batch # {})
    /\ pc' = "finish"
    /\ UNCHANGED <<symDim, vector, meta, config, kind, skip, dim, emb, targets,
                   batch, todo, count, orphaned>>

Finish ==
    /\ pc = "finish"
    /\ EndRun
    /\ UNCHANGED <<index, config, orphaned, hidden>>

\* The run has stored rows whose accounting is still to come.
Unaccounted == pc \in {"store", "embed", "meta", "account"}

\* The run stops between two writes: a crash, a dropped future (the session
\* timeout), or an error of the store that `?` propagates.
Interrupt ==
    /\ MayInterrupt
    /\ pc # "idle"
    /\ EndRun
    /\ orphaned' = (orphaned \/ (pc = "meta" /\ QueryEmbedder # emb))
    /\ hidden' = (hidden \/ (Unaccounted /\ batch \cap Rows # {}))
    /\ UNCHANGED <<index, config>>

\* cmd_watch: handle_file_deleted
RemoveFile(f) ==
    /\ pc = "idle"
    /\ vector' = [vector EXCEPT ![f] = NoRow]
    /\ UNCHANGED <<symDim, meta, stats, config, run, orphaned, hidden>>

Next ==
    \/ Configure \/ Wipe \/ Prepare \/ Parse
    \/ \E s \in BOOLEAN : StartFull(s)
    \/ \E s \in BOOLEAN, T \in SUBSET Files : StartIncremental(s, T)
    \/ \E f \in Files : Purge(f) \/ RemoveFile(f)
    \/ (\E part \in SUBSET Files : StoreSymbols(part)) \/ StoreRefused
    \/ EmbedFails \/ EmbedStores \/ EmbedSkipped
    \/ RecordMeta \/ Account \/ Finish \/ Interrupt

Spec == Init /\ [][Next]_vars

-----------------------------------------------------------------------------
\* Vectors of two models are never mixed, and queries are embedded in the space
\* of the stored vectors, unless a run lost the record of its embedder between
\* store_embeddings and set_index_meta (analyzer.rs:1094-1097).
OneVectorSpace ==
    pc # "meta" /\ ~orphaned =>
        \A f \in Files : vector[f] \in Embedders => vector[f] = QueryEmbedder

\* A run that embeds never meets a symbols table of another dimension, whatever
\* runs, failures and model changes came before (store.rs:128-159), and the
\* table always has the dimension of the vectors it holds.
EmbeddingRunFits ==
    /\ pc \in {"store", "embed"} /\ emb # NoMeta => symDim \in {NoTable, DimOf[emb]}
    /\ \A f \in Files : vector[f] \in Embedders => DimOf[vector[f]] = symDim

\* A full run whose embeddings and records were all written leaves a clean
\* index whatever it found: exactly the parsed files, in one vector space, that
\* of the query path, with accounting that reports it complete.
FullRunHeals ==
    pc = "finish" /\ kind = "full" /\ emb # NoMeta /\ count > 0 /\ ~orphaned /\ ~hidden =>
        /\ Rows = batch
        /\ \A f \in batch : vector[f] = emb
        /\ QueryEmbedder = emb /\ symDim = DimOf[emb]
        /\ ~Partial

\* Accounting that is not partial covers every row: strict mode may accept the
\* index (main.rs:1204) as long as no run left rows without accounting.
StrictIsSound ==
    pc = "idle" /\ ~hidden /\ stats # NoStats /\ ~Partial =>
        \A f \in Files : vector[f] # Zero

\* An incremental run leaves the rows of the files it was not given in place,
\* provided the table has the dimension of the recorded embedder.
KeepsOthers ==
    kind = "incremental" /\ pc # "idle" =>
        \A f \in Files \ targets : vector[f] # NoRow => vector'[f] = vector[f]
IncrementalKeepsOthers ==
    [][(symDim \in {NoTable, DimOf[QueryEmbedder]}) => KeepsOthers]_vars
=============================================================================
