# A TLA+ model of Myceliums

Myceliums (`myc`) parses a repository into a graph of symbols, stores it in a
LanceDB database below `~/.myceliums/data/<repo_id>`, and answers structural
queries from the command line, an MCP server and an HTTP server. This directory
holds TLA+ modules for the parts of it that keep state and for the functions that
answer from it, the TLC configurations that check them, and TLAPS proofs of what
matters most about them.

Paths below are relative to the root of the repository; `core/` stands for
`crates/myceliums-core/src/`, `storage/` for `crates/myceliums-storage/src/`, `mcp/`
for `crates/myceliums-mcp/src/`.

1 Inventory · 2 Modules · 3 Runs · 4 Proofs · 5 Where the code departs from its
documentation · 6 Not modelled · 7 Plan

## 1. Inventory

There is no resident daemon. Every `myc` command is a process of its own; an
editor runs one MCP server per session, which executes tool calls concurrently
on one tokio runtime. All of them share the files of the data home and nothing
else, so the interesting interleavings are those of system calls and of table
writes of several processes, and of futures inside one server.

| Component | State | Operations | Interacts with |
|---|---|---|---|
| Analysis lock (`core/lock.rs`) | `data/<id>/analysis.lock` | `acquire`, guard `Drop` | `cmd_analyze`; `cmd_delete` removes its directory |
| Embedding records (`core/analyzer.rs`, `core/embeddings.rs`, `core/embedding_stats.rs`) | `symbols` table and its vector dimension, `index_meta["embedding"]`, `index_meta["embedding_stats"]` | full run, incremental run, removal of a file, configuration change | every query path resolves its embedder from the records |
| Analysis cache (`core/cache.rs`) | the `RepoInfo` of the registry (commit, time, geometry), git, mtimes | `check_cache`, its mtime fallback | `cmd_analyze`, `cmd_session`, MCP `analyze` |
| Repository registry (`storage/registry.rs`, `myc/src/main.rs`) | `repos.json`, directories below `data/` | analyze, delete, clean `--orphans`, clean `--all` | every command that resolves a repository |
| Repository resolution (`main.rs`, `core/service.rs`, MCP) | the registry, the current directory | resolve by path, by default | every command and tool |
| Email sync (`core/imap.rs`, `cmd_email_sync`) | `imap_state/<account>.json`, temp directory, rows of the mails | fetch, write, index, save | `Analyzer::analyze_files` |
| File watcher (`core/watch.rs`, `cmd_watch`) | debouncer, two path sets, unbounded channel | debounce, classify, send, handle | `analyze_files`, `handle_file_deleted` |
| Store handles (`core/service.rs`, MCP tools) | `DashMap` of open stores | `open_store`, `Store::open` | all tools of the MCP and HTTP servers |
| Source parsing (`core/parser.rs`, `core/dsl`) | none kept; three walks of a syntax tree | symbols, calls, imports, by hand or by rules | the analyzer |
| Index graph (`core/analyzer.rs`, `core/resolver.rs`, `core/mentions.rs`) | tables of symbols, files and relationships | `analyze`, `analyze_files`, `delete_file_data` | everything that reads an index |
| Stored rows (`storage/store.rs`, `core/models.rs`) | Arrow tables | store, read back, embed, search | every reader |
| Readers (MCP tools and resources, CLI, HTTP handlers), snapshots | what a call has read; `snapshots/<id>.json` | read table by table, compute, answer | runs that write meanwhile |
| Answer tools (calls, communities, dependencies, impact) | none; functions of the rows | callers, dead code, coverage, god nodes, communities, cycles, centrality, lint, impact, review | each other's answers |
| Searches and process tracer (`core/process.rs`, MCP, `core/impact.rs`, viz) | queue, visited set, stack | one turn of a loop | stored processes |
| Query language (`crates/myceliums-cypher`) | tokens, syntax tree, rows | parse, execute | MCP and CLI query |
| Batch writer (`core/batch_writer.rs`) | buffers, bounded channel, counters | push, flush, task | store |
| Query result cache (`core/cache.rs`) | map with capacity and time to live | get, insert, invalidate | its callers |
| Documents (settings, Claude hooks, `config.toml`, records) and git hooks | small files shared with the user | setup, uninstall, wizard, record | editors, git, the user |
| Team store, exports, reports, benchmarks, doctor, providers, formatting | see sections 2 and 6 | | |

Hard behaviours, and where they come from:

* **No transaction spans two tables or two files.** A run writes symbols, then
  vectors, then the embedder's name, then the accounting, then the registry; it
  may stop between any two (a kill, the session timeout that drops the future,
  a best-effort write that only warns). A reader loads table after table.
* **Read-modify-write without a lock.** `repos.json`, the IMAP state, settings and
  records are loaded, edited and rewritten whole; `fs::write` truncates first.
* **Time of check, time of use.** The lock reads a pid, probes it and unlinks a
  path; the cache compares commits while the index was read from the working
  tree; the watcher asks `path.exists()` long before the file is read;
  `open_store` looks into the map, awaits, and then publishes; the result cache
  finds an expired entry and removes whatever is there by then.
* **Histories.** Runs with different configurations, releases and failures
  follow each other on one database and must not leave a mixture that a later
  run or query takes for a whole.
* **Twice the same question.** Callers, membership in a community, labels, entry
  points and cycles are computed by several pieces of code that share nothing but
  the store, and two walks of one syntax tree must agree on what a function is.

What makes each component correct: one holder of the lock, and no abandoned lock
that blocks; vectors in one space, that of the query path, and accounting that
never over-reports; a reused index that is as close to the repository as the
check says; a registry that lists what was analyzed and not deleted, and an index
behind each entry; a graph without dangling edges or doubled rows, that a full run
brings back to the tree; a saved mail position that never passes over unindexed mail;
an index that catches up with the files; one handle per repository; a call charged to
the function it is in; rows that are read back as they were stored; answers that come
from one graph and fit together; a document that keeps what its user put into it;
every pushed row in exactly one place; a search that finds what is in reach, and ends.

## 2. Modules

| Module | Models | Proofs |
|---|---|---|
| `AnalysisLock` | `acquire`, `Drop`, crashes, recycled pids, `myc delete` | `WatchedTree_proofs` |
| `Watcher` | debouncer, bridge thread, channel, loop of `cmd_watch` | `WatchedTree_proofs` |
| `EmbeddedIndex` | full and incremental runs over the table dimension, vectors, embedder record and accounting | `EmbeddedIndex_proofs` |
| `SourceRules`, `SourceWalk` | the walks of the parser and of the declarative engine, 19 languages | |
| `StoredRows` | what rows of the store and the team store keep | `EmbeddedIndex_proofs` |
| `CypherSyntax`, `CypherParser`, `CypherExecutor` | the query language | |
| `AnalysisCache` | `check_cache` and the runs, commits, edits, checkouts it judges | `AnalysisCache_proofs` |
| `StoredGraph`, `CallTools`, `CommunityTools`, `DependencyTools` | what the tools answer from the rows | `AnalysisCache_proofs` |
| `Registry` | `repos.json` and the data directories under concurrent commands | `DataHome_proofs` |
| `EmailSync` | `cmd_email_sync` | `DataHome_proofs` |
| `RepoResolution` | which repository a command or tool works on | `DataHome_proofs` |
| `Documents` | files that commands share with the user | `DataHome_proofs` |
| `GitHooks` | the block of myc in a git hook | `DataHome_proofs` |
| `IndexGraph` | rows and edges under full runs, incremental runs, removals | `IndexGraph_proofs` |
| `IndexReaders`, `ReadTools` | what calls read while runs write, table by table | `IndexReaders_proofs` |
| `ImpactTools` | `detect_impact`, `get_review_context` | `AnalysisCache_proofs` |
| `BatchEdges` | how the edges of one batch come about | |
| `StoreHandles` | `GraphService::open_store` and tools that go around it | `Server_proofs` |
| `HandleOnce` | the abstract promise of `open_store` | `Server_proofs` (refinement) |
| `BatchWriter` | accumulators, bounded channel, writing task | `Server_proofs` |
| `QueryCache` | the result cache under several threads | `Server_proofs` |
| `GraphSearch` | the breadth-first searches, turn by turn | `Search_proofs` |
| `ProcessTree` | the tracer of execution flows | `Search_proofs` |
| `MCProcesses`, `MCEmbeddedIndex`, `MCAnswers` (with `MCAnalysisCache`), `MCDataHome`, `MCIndexTables` (with `MCIndexGraph`) | what one run explores: model values, definitions for constants, symmetry sets | |

Every module keeps its state in VARIABLES whose comments name the code's state.
Variables marked *history* record what happened for the sake of a property; no
guard of code reads them. Definitions that begin with "Mutant of" are plausible bugs
of the definition they name: each property is known to fail when its mutant takes
the place of the real definition. They are not part of any specification.

An `MC` module puts several components side by side. Its variable `part` says which
one moves, and the behaviours of each part are those of the component's own
specification, the others resting at their initial states: the components share no
variable, so nothing is lost, and one run answers for all of them. Where the code
does share state between two components (the tables between runs and readers, the
records between runs and query paths), they are one module.

### Processes on their own: AnalysisLock, Watcher (MCProcesses)

`AnalysisLock` has one action per system call: `Start` (`create_dir_all`), `Exists`,
`Read` (`read_to_string` and `parse_lock_pid`), `Probe` (`kill -0`), `RemoveStale`, `Create`
(`create_new`), `Winner` (the loser of `create_new`), `OpenFile` and `Write` (the two
calls of `fs::write`), `Release` (the guard's `Drop`). `file` is the inode the path is linked to, with
its creator and its text; `linked` tells which open descriptors refer to it, so a
write through a descriptor whose file was unlinked goes nowhere. `WriteFails`,
`Die`, `Respawn` (a pid given to a new process) and `DeleteRepo` are the
environment. The liveness probe is taken to answer truthfully.

In `Watcher`, `Change` touches the tree and tells the debouncer; `Debounce` hands a
batch to the bridge, `Classify` asks `path.exists()` and `Track` `path.is_file()`, which
may find the file gone; `SendEvents` puts `FilesChanged` before `FilesRemoved` into the
channel; `NotifierFails` is an error of the notifier in place of a change; `Receive` and the actions after it are
`cmd_watch`, which deletes, reads and stores one file after the other, with failures
that are printed and forgotten and an open that fails and ends the command.

### What makes a row: EmbeddedIndex, SourceWalk, StoredRows, Cypher (MCEmbeddedIndex)

`EmbeddedIndex`: a file stands for the symbols parsed from it; `vector[f]` is absent,
the zero placeholder, or the embedder that produced it. `StartFull`/`Wipe` and
`StartIncremental`/`Purge` delete rows, `Prepare` resolves the embedder of the
run and makes the table fit (`reconcile_incremental_embedding`,
`ensure_symbols_dim`), `Parse` and `StoreSymbols` write placeholder rows,
`EmbedStores`, `EmbedFails`, `EmbedSkipped` are the outcomes of embedding,
`RecordMeta` and `Account` the best-effort records, `Interrupt` stops a run
between two writes. `Configure` edits `.myceliums.toml` between runs.

`SourceRules` is the table of what the parser does at a node of each kind in each
language, `SourceWalk` the descents along one path of a syntax tree. A walk hands its
children only the enclosing type and the enclosing function, so one path is enough,
and since these facts are finite, paths of every length are explored. Trees are a
superset of what the grammars produce, so what holds here holds for every file. The
named exceptions in the properties are what the walks really do: a function nested in
the declaration of a value, in a Go `type`/`const`/`var`, below a C++ template, in a
definition of Elixir or in the head of a type is a caller without a symbol, as is a
pointer-returning function of Objective-C; Go's `go` and `defer` lose the calls inside
the closure they start; macros, signatures and prototypes have no body to charge.

`StoredRows` is what is written and read back: kinds and roles as text with lists of
their own for either direction, optional metadata, `store_embeddings` that writes
whole rows anew from what it read, `vector_search` over the rows, and the team store.

`CypherParser` writes every query of at most `MaxParts` parts and carries along what it
means; `Parse` is the recursive descent. `CypherExecutor` executes fixed shapes of
queries on every small graph, and its answers are compared with those of `CallTools`,
of its other path functions and of its own pages and groups. It knows both limits, on
joined rows and on the answer.

### What is answered without analysing: AnalysisCache and the tools (MCAnswers)

`Reusable` is `check_cache` answering `UseCached`: by `git diff --name-only
<analyzed> HEAD` with its limit and its structural files, else by mtime. The
working tree, HEAD and the clock change at any time (`Edit`, `Delete`, `Commit`,
`Checkout`, `Forget`, `Tick`, `Upgrade`). A full run is `Start`, `Wipe`,
`Discover`, `ReadFile`, `Store`, `Register`; a watch run changes the index and
records nothing. `causes` names, for the index at hand, why it may differ from
what its entry claims. The clock may be set back:
`num_minutes() as u64` takes an entry that is less than a minute ahead for a fresh one
and one that is further ahead for a very old one, and a file whose mtime is ahead of the
clock is not counted as touched.

`StoredGraph` is what a tool gets from the store. Every symbol has a row to the uid of its
file (`FileRow`), which is no symbol, and a row for each symbol it was resolved to call or
mention; the resolver leaves one row of a kind between the same two (`Deduplicated`,
`resolver.rs:167-172`), each way, whose other end may be gone. No analysis stores rows of kind `Imports`:
what is imported resolves calls and is dropped, so `get_dependencies`,
`get_module_coupling` and the linter's rule of unstable dependencies answer that there is
nothing, and are not modelled. A graph grows row by row, so every graph within the bounds
is asked. `CallTools`, `CommunityTools` and `DependencyTools` are the answers of the MCP
and HTTP tools as sets; each tool is written as its own code computes it, and the
properties say that they fit together. Leiden's partition is an arbitrary partition of
the uids the external crate is given.

### The data home (MCDataHome)

`Registry`: each command loads `repos.json` into `copy`, edits it, truncates and writes
the file. `StartAnalyze`, `Wipe`, `Build` and `Load` empty the directory of the index of an
earlier analysis, while `repos.json` may list it, and fill it before the entry is
saved; `StartDelete`/.../`Unlink` remove it afterwards; `StartClean`/`Sweep` list
orphans, wait for the prompt, and remove. `StartCleanAll`, `RemoveDir` and `RemoveFile` are
`clean --all`, which takes directories and `repos.json` in any order, whoever is at work on
them; a save that has the file open then writes for nobody (`adrift`). `Torn` is a file
that does not parse. Two writes that interleave leave the later text, or a torn file.

`EmailSync`: for each folder of the account, fetch above the last UID, write the
messages to `<account>_<position>.eml`, index those files (purge, then store: rows are
keyed by the file's name, that is, by the position), remove the temp directory; after
the last folder, save. A sync may stop or die anywhere and another may run beside it.
Messages arrive (`Arrive`) and are expunged (`Expunge`) at any time. The server is taken to
answer in the order of UIDs and to keep them (the code never asks for UIDVALIDITY); each
folder is listed once.

`RepoResolution`: the registry's list is sorted by name and equal names come in the
order of a hash map, so `Lists` is the set of lists there can be. The CLI takes the
first repository that contains the current directory, component by component, the
servers the last one whose path begins the text of it; both fall back to the end of the
list.

`Documents`: one of the files that `myc` shares with its user, of a kind chosen at the
beginning; its commands read it whole, edit a copy and write it whole. Settings and hooks
are edited as JSON values; `config.toml` and the records go through a struct, so that what
it has no field for (`Foreign`: unknown keys, comments) is not read (`Taken`) and gone when
the copy is written. `excuses` collects why something may be gone. `GitHooks` inserts, replaces and removes the block
of myc in a hook whose lines the user edits.

### The tables and their readers (MCIndexTables)

`IndexGraph`: a row is a uid: the run that drew it, the file, and the item (a symbol, the
text of a mail, a person, or the node of the file). A full run is `WipeSymbols`,
`WipeFiles`, `WipeEdges` (the tables of `delete_repo_data` in turn), `Parse`,
`StoreSymbols`, `StoreFiles`, `StoreEdges`; a batch of `analyze_files` goes through
`Collect`, `DropSymbols`, `DropNode`, `DropEdges` (`delete_file_data`) for each of
its files before it parses and stores; a removal ends after the deletion. What a
run stores is a function of the files it read: `SymbolRows`, `NodeRows` and
`EdgeRows` (calls by the last definition of a name in the batch, through import
aliases and, in a full run only, variable aliases; mails to their persons and to
the symbols they name; every symbol to its file). `Kept` is `should_skip_file`,
which `analyze` asks and `analyze_files` does not. `Interrupt` stops a run between
any two table writes. Two writers stand for the processes that write without the
lock.

`BatchEdges` looks closer at the edges of one batch: qualified names, the module graph,
constructors, members and their parents, rationales, replies and conversations, for a
full run and an incremental one.

`IndexReaders` looks at the tables from the other side: five tables and the snapshot,
written step by step by runs, read step by step by calls. `ReadTools` lists, for every
MCP tool and resource, CLI command and HTTP handler, which tables it reads in which
order, and whether it goes on when one cannot be read. `SaveTorn` is a save of the snapshot
that has emptied the file and fails or dies there. A call on an index whose last run
was alone and whole is followed until a write falls into it; what calls answer that
overlap a write is a mixture the code does nothing to prevent, and nothing is claimed
of it.

`ImpactTools` reads every diff of a few sections, and says what `detect_impact` and
`get_review_context` make of it on every small graph.

### Inside a server (MCAnswers, MCProcesses)

`StoreHandles`: `Get`, `Open`, `Insert` are the three steps of `open_store` with the
await between them; `Bypass` is a tool that calls `Store::open` itself; `Finish` is a
return, an error or a dropped future. `HandleOnce` has two variables and two
actions: a caller asks, and is answered with the handle that is published, which
the first answer settles. `StoreHandles` implements it with `published` mapped to
the map and `answer` to what `open_store` answered to calls that are at work.

`BatchWriter`: one accumulator per kind of row, `Push`, `Split`, `Send` that waits for a
place in the channel and may be dropped there, `Flush`, and the task with `Recv`,
`StoreBatch`, `StoreFails`, `Abort`. A `BatchSize` of zero is excluded: `push` would
loop for ever.

`QueryCache`: a look-up, a choice of what to evict, each removal and each insertion is a
step, under several threads (the length check, the scan and the choice of an eviction are
looks of their own in the code and one step here); `Analyze` and `Clear` are an invalidation, shard by shard. Each race of two
inserts lets the cache grow by one entry for good. It evicts an expired entry or the
first one it sees, though `cache.rs:338` speaks of the oldest.

`GraphSearch` is one turn of the loop of get_callers/get_callees, of the shortest path,
of the impact and of the call depths; `ProcessTree` one callee of the topmost frame of
the tracer (its callees are places in the list of calls, so that a call made twice is
walked twice, in the order of the list). The `max_nodes` of `process.rs:18` is compared with the size of each
subtree: the run `process_nodes` shows that a process exceeds it, and `TraceIsFaithful`
states the bound that really follows.

## 3. Runs

| Run | Module | Checks | Instance |
|---|---|---|---|
| `processes_safety` | `MCProcesses` | `OnlyTheftBreaksExclusion`, `AbandonedLockIsReclaimed`; `QuietMeansCurrent`, `CatchesUp`; `Accounted`; `FaultsAreRaces`; `SearchIsExact`, `TraceIsFaithful`; `WorkEnds` | 2 processes, deletion allowed; 2 files, 2 versions, 3 changes; 2 kinds, batches of 2, channel of 2, 4 rows; 2 threads, 2 slots, capacity 1, 1 analysis; 3 nodes, 3 edges, depth 2; 3 calls, depth 2, trees of 3 |
| `embedded_safety` | `MCEmbeddedIndex` | `OneVectorSpace`, `EmbeddingRunFits`, `FullRunHeals`, `StrictIsSound`, `IncrementalKeepsOthers`; `CallsFindTheirFunction`, `DslFollowsWalks`; `RowsSurvive`; `QueryIsRead`, `QueriesAgree` | 2 files, 3 embedders, 2 of one dimension; 19 languages, paths of any length; 2 uids; queries of 3 parts; 3 symbols, 3 edges |
| `answers_safety` | `MCAnswers` | `GitReuseIsClose`, `MtimeReuseIsExact`, `ReuseHasOneGeometry`; `ImplementsOnce`; `CallToolsAgree`, `CommunityToolsAgree`, `DependencyToolsAgree` | 3 files, 1 structural, 2 contents, limit 1, 2 changes; 3 calls, 2 repositories, 3 handles; 3 symbols, each with its row to a file, 3 more rows, up to 2 lines of each |
| `home_safety` | `MCDataHome` | `LossNeedsOverlapOrCrash`, `ListedHasIndex`; `ResolutionIsSound`; `FilesKeepTheirLines`; `SavedAfterStored`, `RetryNeverDuplicates` | 2 processes, 2 repositories; 4 directories; 2 writers, 2 entries, 1 of them foreign to the structs, 1 save of the user; a hook of 8 lines, 3 edits; 2 syncs, 2 folders, 2 messages each, 1 malformed, 1 expunged |
| `index_safety` | `MCIndexTables` | `NoDanglingEdges`, `OneRowPerSymbol`, `FullRunRebuilds`, `UntouchedKeepEdges`; `AnswersAreCoherent`, `DiffIsSinceFullRun`; `ImpactFollowsDiff`; `EdgesFollowTheText` | 2 writers, 2 files, 4 contents, 2 runs, 1 change; 2 writers, 2 files, 2 runs; diffs of 2 sections; batches of 3 files or 3 mails |

and seven runs that show where the code departs from what its comments or
documentation say:

| Run | Violated | What happens |
|---|---|---|
| `lock_exclusion` | `MutualExclusion` | a process reads the lock file between its creation and its write, takes it for stale, removes it: two holders |
| `cache_blank` | `ReusedIndexIsThere` | a forced run dies after it wiped the rows; the old entry looks fresh and a blank index is reused |
| `graph_stale` | `GraphStaysCurrent` | a mail mentions a symbol of a code file; a re-indexing of one of the two alone deletes the edge and resolves mentions within its batch only, so it is gone until a full run |
| `email_loss` | `SyncedMailIsIndexed` | names are positions in a batch, so a later batch deletes the rows of an earlier one |
| `diff_blind` | `SnapshotDiffAnswers` | no command saves the versions that `snapshot_diff` compares |
| `labels` | `LabelsMatch` | a community whose member of highest degree is a file is labelled as if it had no symbol, where detection takes the first member that is one |
| `process_nodes` | `TracesStayWithinMax` | a chain of three symbols and a limit of two nodes: each subtree below a frame is short of the limit, and the process has three nodes |

The type invariants of the modules that have one are proved (section 4) and not run;
of the other modules the properties would fail if a value left its type.

### Bounds, and why they are enough

* Lock: the interference is pairwise (a victim and a thief), and the invariants
  are proved for any number of processes. Liveness is checked for two, where the
  other one may leave every kind of file.
* Watcher: three changes (`MaxChanges`) let a file vanish and return while an earlier event
  for it is anywhere between debouncer and storage, and the other file change beside it; the invariant is proved for any number.
* Embedding: one file given to an incremental run and one that is not; a legacy
  embedder, one of the same dimension (a swap the table cannot reveal) and one of
  another dimension. `MaxTotal` bounds the accounting, which grows with every
  incremental batch; no property depends on its size. All five properties are proved
  without these bounds.
* Source walks: no bound; the facts a walk carries are finite.
* Stored rows: two rows of one uid or of two, two bodies, every kind and role, one kind
  of a later build, orthogonal vectors: a row is read without looking at any other but
  those of its uid.
* Query language: three parts reach every pair of clauses and a third that follows
  them. Three symbols, two of one name, and three edges give cycles, paths of two
  lengths between the same ends; three edges are all calls. The limits are scaled down
  (`MaxJoined` 18, `MaxAnswer` 10) so that both are met: a product of patterns above the
  first, and an answer above the second. (In the code, with 10 000 and 100 000, a single
  pattern is all that can pass the first and meet the second.)
* Cache: three files put the number of changed files above the limit without a
  structural one among them. Two changes of the tree or of HEAD bring them out of
  step and back; a checkout may replace everything in one change, but for the manifest,
  which is changed and never deleted. `Ages` holds a
  fresh entry and one from the future; the proofs allow every age and every tree.
* Answers: three symbols of which two have one name and one is a test, ends that are no
  symbol (a file, or what is gone), a call from up to two lines (`MaxLines`), calls both
  ways; thresholds are scaled down (`ManyCallers`, `ManySymbols`, `MaxTop`, `PerPage`) so
  that both sides of each are reached. The partitions of up to five uids (`MaxParted`:
  three symbols, their file and what is gone) are all looked at.
* Registry: two commands suffice for a lost update, two repositories to tell whose
  entry was lost; safety is proved for any number of both.
* Email: two folders and two messages give a second batch and a second position; one
  expunged message (`MaxGone`) shifts the positions of those after it; what
  is proved holds for any syncs, folders and numbers of messages. The loss run needs
  one sync only.
* Resolution: one directory inside another, two of one name, two of which the text of
  one begins the other. Documents: two writers, an entry of the user and one that looks like one of myc's and has
  no field in a struct; both are proved for any number. Hooks: eight lines hold two damaged blocks
  with lines of the user around and between them.
* Graph: a batch of one file and a file outside it, batches of both files in either
  order; two runs reach every pair of kinds one after the other and overlapping,
  each stopped anywhere. The change falls before, between or into the runs. The first
  tree is a caller and its callee, the change may put a mail or a shadow in its place. The
  contents of `MCIndexGraph` reach every kind of edge, both kinds of alias, a
  shadowed name and a file `analyze` skips. The invariants are proved for any.
* Readers: a call, a run before it and a run beside it, over an index a full run built;
  proved for any number. Impact: two sections, one of which names a file the store has
  under a longer path, and an edge, or one section and two edges, which are calls. Batches:
  six files chosen so that names, module paths, constructors and aliases collide.
* Handles: three calls on two repositories and three handles, so that a late caller
  may open another one. Writer: two senders compete for the channel and a batch is
  split. Cache: with a capacity of one two inserts can evict the same entry. All proved
  for any number.
* Searches and tracer: three nodes have cycles, loops, two ways of different length to a
  node, nodes that are no symbol; depth two cuts a path of three.

`CHECK_DEADLOCK FALSE` is used where the system really stops: all processes dead
(lock), no change left and nothing to do (watcher), the bounded runs, edits and syncs
used up (data home, tables), a search or a trace that is finished.
Where a part only grows to its bound, `Rest` lets it stay there.

### What the provisos mean

Several properties hold except in a named situation that the code does not rule
out. The exception is always a history variable, so the property still says that
nothing *else* can go wrong:

* `OnlyTheftBreaksExclusion`: unless somebody unlinked the file of a holder
  (`robbed`), which stale-lock clean-up, another guard's `Drop` and `myc delete`
  all can do.
* `AbandonedLockIsReclaimed` (and `LiveNameHolds`, which is proved): unless the pid in
  the file was given to a new process (`recurred`). `acquire` then answers
  `AlreadyRunning` as long as that process lives, although `lock.rs:4-5` says that a
  stale lock is cleaned up; the timestamp in the file is never read.
* `QuietMeansCurrent`, `CatchesUp`: unless an event was given up after an error,
  which is printed and not retried.
* `OneVectorSpace`: unless a run stopped, or its write failed, between
  `store_embeddings` and the record of the embedder (`orphaned`,
  `analyzer.rs:1094-1097`). Queries are then embedded in another space, which
  `embeddings.rs:955-957` says cannot happen.
* `StrictIsSound`: unless a run left rows without accounting (`hidden`): the
  accounting of an earlier run survives a run with `--skip-embeddings`, and strict
  mode then accepts rows without vectors. An
  index built with embeddings skipped has none at all, and the MCP server reports
  it as fully embedded (`mcp/lib.rs:1139-1153`).
* `IncrementalKeepsOthers`: as long as the table has the dimension of the recorded
  embedder. After a full run with another dimension whose embedding failed it has
  not, and the next incremental run drops the rows of every file.
* `GitReuseIsClose`: unless the tree that was read was not HEAD's
  (`uncommitted`: `git diff <analyzed> HEAD` never sees the working tree, and
  HEAD is read after the analysis, `main.rs:1165`), the run was cut, or a watcher
  changed the index. The check also reuses the index of another branch when few
  files differ, where `docs/reference/data-management.md:151` promises a miss.
* `MtimeReuseIsExact`: unless files were deleted or put in place with an old
  mtime (`unseen`), a change fell into the run (`missed`) or it was cut.
* `LossNeedsOverlapOrCrash`, `ListedHasIndex`: unless two saves overlapped
  (`overlapped`, also for analyses of different repositories, as the analysis lock
  is per repository), a save was cut, or commands ran together. A listed repository lacks its
  index, moreover, where an analysis wiped it (`main.rs:1103`), or `clean --all` removed it
  before `repos.json`, and did not come to its end (`taken`): the run `cache_blank` shows
  what becomes of it. `clean --orphans`
  takes a registry that a cut save left torn for an empty one (`main.rs:1430`) and
  removes every index.
* `SavedAfterStored`, `RetryNeverDuplicates`: unless two syncs of one account were at
  work at once; they share the temp directory and the state file. A message that is fetched
  again is stored a second time where one before it was expunged in between (`shifted`):
  its position is another one, and `analyze_files` purges under the new name only.
* `ResolutionIsSound`: the server unless another repository's path looks alike, the two
  together unless repositories are nested, look alike or have one name.
* `FilesKeepTheirLines`: a document unless a command was overtaken by another or by the
  user, started from an empty one because the file did not parse, took a hook of the user
  whose command contains `myc ` for its own, or died while it wrote; `config.toml` and the
  records also lose whatever their struct has no field for (`dropped`), and nothing else
  with it; a hook unless somebody took the block apart.
* `NoDanglingEdges`: unless a run stopped after it deleted rows and before it
  deleted their edges. `delete_file_data` then never deletes them, since it finds
  no symbols the next time (`storage/store.rs:591`); a full run does.
* `OneRowPerSymbol`, `NoDanglingEdges`: unless runs overlapped. `UntouchedKeepEdges`
  needs no proviso, and `FullRunRebuilds` speaks of a full run that nobody overlapped,
  whatever came before it.
* `AnswersAreCoherent`, `DiffIsSinceFullRun`: calls that no write falls into, on an index
  whose last run was neither cut nor overlapped.
* `Accounted` needs no proviso: rows that were refused or dropped are in `lost`. An
  aborted task may have stored what it did not count.
* `FaultsAreRaces`: two overlapping inserts, an insert computed before an invalidation
  and made after its shard was cleared.
* `SharedByAllCallers` (proved) speaks of calls that go through `open_store`. Most tools
  of the MCP server call `Store::open` directly (e.g. `mcp/lib.rs:1236`), so the
  "exactly one open handle per repository per process" of `service.rs:137-138` is not
  what the process has.

### Fairness

* `AnalysisLock`: weak fairness of each process's own next call in `acquire`.
  The function is straight-line code that blocks on nothing; `Start`, `Drop`,
  `Die`, `Respawn` and `DeleteRepo` have none, since nobody has to call them.
* `Watcher`: weak fairness of the bridge thread and of the loop of `cmd_watch`,
  which run whenever their queue has work. `Change` has none: `CatchesUp` says
  what happens once changes stop, which the bound makes certain.
* `BatchWriter`: weak fairness of the task, which the runtime polls when there is a
  message, and strong fairness of a send that waits for a place: the channel's semaphore
  serves waiters in their order. Nobody has to push, flush or drop.
* `GraphSearch`, `ProcessTree`: weak fairness of their loops, which block on nothing.

The other specifications state no fairness; only safety is checked of them.

## 4. Proofs

All proofs are for arbitrary values of the constants under the named assumption of
the module. The assumptions say that model values are distinct from each other and
from ordinary values, that finite sets are finite, that bounds are numbers, and, for the
graph, that the files are listed once each and that texts are made of the symbols and
people declared; for mail, that folders are listed once each; for resolution, that paths
are not empty and made of the names that are sorted; for the answers, that a table of
symbols is a list without a uid twice, that no symbol has the uid of a file, that what is
resolved are no rows to files and no imports, the greatest depth a number, a refusal no answer,
no name or label the word for none, and that a page and a list of names hold at least one; for the batch writer, that a batch
and the channel hold at least one. `Watcher`'s is the operator `WatcherOK`, assumed in
`MCProcesses` and a hypothesis of its theorems, and so is `ImpactOK` of `ImpactTools`,
assumed in `MCIndexTables`: paths and hunks are lists, lines and counts numbers, and a
table has no uid twice, nor the one that is no symbol's.

| Theorem | Statement |
|---|---|
| `WatchedTree_proofs!TypeCorrect` | `LockSpec => []LockTypeOK` |
| `...!Ownership` | `LockSpec => []UnrobbedOwnsFile` |
| `...!ExclusionUpToTheft` | `LockSpec => []OnlyTheftBreaksExclusion` |
| `...!NamesAreTruthful` | `LockSpec => []LiveNameHolds` |
| `...!WatchTypeCorrect` | `WatcherOK`: `WatchSpec => []WatchTypeOK` |
| `...!QuietMeansCurrentAlways` | `WatcherOK`: `WatchSpec => []QuietMeansCurrent` |
| `EmbeddedIndex_proofs!TypeCorrect` | `Spec => []TypeOK` |
| `...!VectorsShareASpace` | `Spec => []OneVectorSpace` |
| `...!EmbeddingRunsFit` | `Spec => []EmbeddingRunFits` |
| `...!FullRunHealsAlways` | `Spec => []FullRunHeals` |
| `...!StrictIsSoundAlways` | `Spec => []StrictIsSound` |
| `...!IncrementalKeeps` | `Spec => IncrementalKeepsOthers` |
| `...!RowsInvAlways` | `RowsSpec => []RowsInv` |
| `...!RowsSurviveAlways` | `RowsSpec => []RowsSurvive` |
| `AnalysisCache_proofs!TypeCorrect` | `Spec => []TypeOK` |
| `...!ReuseHasOneGeometryAlways` | `Spec => []ReuseHasOneGeometry` |
| `...!GitReuseIsCloseAlways` | `Spec => []GitReuseIsClose` |
| `...!MtimeReuseIsExactAlways` | `Spec => []MtimeReuseIsExact` |
| `...!CallToolsAgreeAlways` | `CommunitySpec => []CallToolsAgree` |
| `...!DependencyToolsAgreeAlways` | `CommunitySpec => []DependencyToolsAgree` |
| `...!CommunityToolsAgreeAlways` | `CommunitySpec => []CommunityToolsAgree` |
| `...!ImpactFollowsDiffAlways` | `ImpactOK`: `ImpactSpec => []ImpactFollowsDiff` (of `ImpactTools`) |
| `DataHome_proofs!TypeCorrect` | `Spec => []TypeOK` (of `Registry`) |
| `...!RegistryIsExact` | `Spec => []LossNeedsOverlapOrCrash` |
| `...!OneAtATime` | `Spec => []ListedHasIndex` |
| `...!TornIsStable` | `Spec => TornStays` |
| `...!SavedAfterStoredAlways` | `MailSpec => []SavedAfterStored` |
| `...!RetryNeverDuplicatesAlways` | `MailSpec => []RetryNeverDuplicates` |
| `...!ResolutionIsSoundAlways` | `ResolutionSpec => []ResolutionIsSound` |
| `...!DocumentIsLedgerAlways` | `DocSpec => []DocumentIsLedger` |
| `...!HookKeepsLines` | `HookSpec => []UserLinesKept` |
| `...!FilesKeepTheirLinesAlways` | `DocSpec /\ HookSpec => []FilesKeepTheirLines` |
| `IndexGraph_proofs!TypeCorrect` | `Spec => []TypeOK` |
| `...!UntouchedEdgesStay` | `Spec => []UntouchedKeepEdges` |
| `...!OneRow` | `Spec => []OneRowPerSymbol` |
| `...!NoDanglingEdgesAlways` | `Spec => []NoDanglingEdges` |
| `...!FullRunRebuildsAlways` | `Spec => []FullRunRebuilds` |
| `IndexReaders_proofs!TypeCorrect` | `ReadersSpec => []ReadersTypeOK` |
| `...!AnswersAreCoherentAlways` | `ReadersSpec => []AnswersAreCoherent` |
| `...!DiffIsSinceFullRunAlways` | `ReadersSpec => []DiffIsSinceFullRun` |
| `Server_proofs!TypeCorrect` | `HandlesSpec => []HandlesTypeOK` |
| `...!HandlesMatch` | `HandlesSpec => []HandleOfItsRepo` |
| `...!OneHandle` | `HandlesSpec => []SharedByAllCallers` |
| `...!Refinement` | `HandlesSpec => ImplementsOnce` |
| `...!AccountedAlways` | `BatchSpec => []Accounted` |
| `...!FaultsAreRacesAlways` | `CacheSpec => []FaultsAreRaces` |
| `Search_proofs!SearchesAreSound` | `IsFiniteSet(Nodes)`: `SearchSpec => []SearchInv` |
| `...!SearchIsExactAlways` | `IsFiniteSet(Nodes)`: `SearchSpec => []SearchIsExact` |
| `...!TracesAreSound` | `ProcessSpec => []TraceInv` |
| `...!TraceIsFaithfulAlways` | `ProcessSpec => []TraceIsFaithful` |

A run explores a part under the specification of its module (section 2), so a theorem
about that specification is the general form of what the run checks.

The inductive invariants, and why the properties alone are not inductive:

* Lock: two holders say nothing of the file. `OwnerInv` adds that whoever created
  the file and was not robbed owns the linked one (`UnrobbedOwnsFile`), and that
  descriptors are only open on a linked file (`DescriptorsOpen`), without which a
  write could bring a file into being.
* Watcher: three sources can disagree with the tree: a set in the bridge or an event in
  the channel, what `cmd_watch` has read, and the index. `IInv` says of each that it is
  right about the files of which nothing more is coming; an event of removed files is
  right about those of which it is the last, since the channel keeps the order.
* Embedding: `SpaceInv` ties the vectors, the dimension of the table and the
  embedder of the run in progress together for every step of a run: what a run has
  deleted, rebuilt and embedded so far determines which embedders the remaining
  vectors may have. It needs the embedder record only between runs. `RunInv` follows
  the run for the rest: it works on files it was given (`WorkIsGiven`), which of them it
  has emptied and which have rows again (`StoredOnce`), that all rows are a full run's
  own and have its vectors once they were embedded (`FullRunOwns`), and that the
  placeholders outside the batch in hand are reported by the accounting
  (`OthersAreReported`).
* Rows: a row and what was stored in it go together (`RowIsKept`) only while nothing else
  was stored under its uid, since embedding copies the last row of a uid over all of them;
  the uid itself stays the row's for good, and that is what finds that last row
  (`LastRowIs`). The text of a kind is what was written until the uid has a vector, and
  from then on that of the kind that was read. The teams of a user are what two walks over
  the rows collect (`OwnedList`, `FoundList`), each once because a uid has one row
  (`TeamsAreDistinct`).
* Cache: a reused index is right because of what the entry and the index have in common
  *while nothing in `causes` has happened since the entry was written*: with git the
  index is the content the entry records (`GitInv`); without git a file of another
  version was touched, or written while the clock was behind the entry, which it then
  still is (`TouchInv`, `EarlyInv`); vectors of an earlier geometry are there only under
  an entry of that geometry or none (`CutInv` for runs that were cut).
* Answers: of the state they need what every analysis stores (`EdgesInv`): one row for each
  symbol to its file, which is no symbol, and of what was resolved no two rows of a kind
  with the same ends; and that the table is one of those there are (`GraphInv`). What is
  said holds for every such graph. A path that is walked backwards is as long, so callers
  and callees mirror each other although each is a search of its own (`WayBack`,
  `LayersMirror`). Layers are disjoint, so that as many of them as there are nodes leave
  none out (`SeenIsClosed`, `AllLayers`): what two members of a circle reach is the same as
  of an endless search (`ReachIs`), so that the cycles, which no row to a file can be part
  of, are what get_callers finds both ways (`CyclesAreMutual`, `CallersReach`). A graph
  without directions is refused only where two symbols call each other (`RefusedAre`). That
  every function is dead, untested or tested is a case distinction on the rows that end in it.
  Of the stored communities they need that they are a list (`CommunitiesInv`). The parts of
  a partition are disjoint (`PartitionsAre`), so sums over them count every row and every
  symbol once (`SumOfCounts`, `SumOfParts`); a name that is in one community only leads home
  (`HomeIs`); the pages of an overview are all of it, by induction on their number
  (`PagesAreAll`).
* Impact: the diff is a sequence of sections (`ImpactInv`). The fold over its lines is a
  walk that can be cut anywhere (`FoldWalks`, `FoldJoins`), so it is cut between sections:
  there no ranges are held for no file (`BetweenSections`), each section adds its entry or none
  (`SectionFlushes`), and after i sections the k-th entry is that of the k-th section with a
  new side (`DiffIsRead`). The rest compares sets: a longer diff changes no less
  (`DiffGrows`), and a symbol that is no longer affected is newly changed, so that each
  costs at most 5 + 2 of the score and brings 10 (`RawGrows`). A symbol is affected at one
  distance only, since layers are disjoint (`AffectedCount`).
* Registry: `Coherent` says, as long as no save was late or cut, that there is at
  most one writer, that it holds the ledger with its own edit, and that no other
  loaded copy counts as up to date meanwhile. `Backed` says, as long as commands ran
  one at a time, that what is listed *or about to be listed* has its index or had it taken
  by an analysis or `clean --all` that was cut, and that what is about to be removed is not
  listed.
* Mail: the saved UIDs say nothing of a sync that is under way. `MailInv` says, while
  no two syncs overlap, that the batch in hand is some of what came after the position the
  sync started from, each message in its position (`BatchIs`), that the names it is about
  to store under are free (`NamesFree`), that what its position passes over is stored,
  expunged or in the batch (`PassedStored`), and that whatever a failed sync left above the
  saved position is stored where the next one will put it (`RowsPlaced`): a message's
  position is its rank among those above that position that parse and are still there
  (`MailRank`), which an expunge changes for those after it only, whose folder then counts
  as shifted (`RankStays`).
* Resolution: needs of the state only that the registered paths and the current
  directory are known ones; the work is in the lemmas about prefixes, about the least and
  the greatest position in a list, and about lists sorted by names of their own, whose
  last element is one (`OneLast`). The recursive choice of the code is a minimum and a
  maximum here.
* Hooks: `SoundIs` says of a hook nobody has damaged that it is lines of the user, one
  block with its two markers or none, and lines of the user, and `UserLinesKept` that those
  are the lines the user put there. What the code cuts out by line numbers and by splitting
  a text is then these parts, and the user's lines of a concatenation are the concatenation
  of the parts' (`UsersConcat`), by induction on the length.
* Documents: `Ledger` says, while nothing has been excused, that a document that can be
  read is the ledger, that a writer nobody has overtaken will write the ledger with its
  own edit, and that after it has truncated nobody else is current. It says the same of
  everything but `Foreign` while nothing but a struct's loss has been excused: the two are
  one invariant, with what may be lost as its argument.
* Graph: the types need that a writer that removes a file still has one
  (`HasFile`), and that what is left of its list ends the list it began with. Edges
  of untouched files stay because the rows in `doomed` are those of the file in
  hand (`Doomed`) and because the edges of a batch begin in its files
  (`EdgesOfBatch`; that the last file of a set exists follows from the
  well-foundedness of the numbers). A symbol has one row because, unless runs
  overlap, nobody else is at work (`Solo`) and a writer has emptied what it is about
  to store: `Emptied` says step by step which rows of its files are left, and
  `Walks` that a full run covers all of them. For dangling edges `EInv` adds, for a
  writer that is alone, what it has already stored of its batch and that every row of the
  file in hand is doomed, so that its deletion of edges forgets none; that the ends of
  every edge are rows or doomed is then kept step by step. A full run rebuilds the graph
  because what is stored at its end is what it parsed, no more and no less; that its graph
  is that of the tree up to the names of the rows is a renaming of the run that drew them
  (`RenamedUid` and the lemmas after it). `FreshInv` keeps this until the next run starts.
* Readers: `RunsInv` follows the one writer that has been alone since it started.
  `FullIsOn` and `UpdateIsOn` say which tables its run has already emptied, stored,
  loaded and derived; `Calm`, what it leaves; `CallStands`, that an open call has seen
  what the tables still hold, because the first write closes it.
* Handles: `Owned` relates published, answered and pending handles to the
  repository they were opened for; `Published` says that whoever was answered by
  `open_store` holds the published handle, which also carries the refinement: `Get`
  and `Insert` are answers of `HandleOnce`, `Finish` ends one, the rest stutters.
* Batch writer: `Accounted` is inductive once `InOrder` says that messages are intervals
  of their own kind, that a send holds a batch exactly while it sends, and that no more
  leaves a buffer than was pushed; the six places of a row are a partition, and each step
  moves a piece from one to another (`RowsAreSent`, `RowsAreStored`, ...). That two
  messages in the channel have no row in common (`Apart`) is needed to count.
* Result cache: the capacity is kept because, unless inserts overlapped, at most one
  thread is between its choice and its insertion (`OneInserts`) and the place it made is
  still there (`PlaceKept`). Staleness is that a shard which was cleared holds nothing
  old that is not late (`ClearedIsCurrent`).
* Searches: `SearchInv` says that the queue is in the order of its depths, of which there
  are two at most (`InOrder`); that every marked node but the starts follows a marked one
  that is one level nearer (`Supported`); and that whatever is marked and no longer in the
  queue has marked all its neighbours, one level deeper at most (`EagerQueue`; the impact,
  which marks a node when it leaves the queue, has `ImpactQueue`). An empty queue then
  leaves the marks closed up to the limit, and induction on the radius of the reference's
  balls makes the mark's depth the least one: what is marked lies in the ball of its depth
  (`MarkedIsNear`), what lies in a ball is marked no deeper (`NearIsMarked`). The path read
  back along `parent` goes down one level at a time (`PathLeadsBack`), and the reference's
  ball of every node reaches everything there is because balls that stop growing have
  stopped for good (`BallsStop`, `EverythingIsAll`), which is where `Nodes` has to be
  finite.
* Tracer: the frames are a simple path and the tree is made of them (`WalkIsSimple`). A
  path of the tree that can be extended is extended in it, or the callee is among those a
  frame has left (`NothingIsMissed`), unless the topmost frame is full, which a frame stays
  until it is reported. A frame is entered only below one that is short of the limit, so
  a subtree with k levels below its root is bounded by 1 + k (most - 1)
  (`SubtreesAreSmall`).

Induction over numbers is used where these need it: an induction theorem cannot be
instantiated, but the least element of a set of numbers can be had from the
well-foundedness theorem (`LeastNumber`), a set that holds zero and every successor of a
member is all of them (`Counting`), and a function defined by steps exists because its
finite runs do (`Iterates`, `CollectExists`, `StepsExist`).

What stays with TLC, and why:

* Liveness: `AbandonedLockIsReclaimed`, `CatchesUp`, `WorkEnds`. The prover has neither
  fairness nor ENABLED.
* Modules with recursive operators, `BatchEdges`, `CypherParser`, `CypherExecutor`, in
  which the provers lose their SMT backend: `EdgesFollowTheText`, `QueryIsRead`,
  `QueriesAgree`.
* Properties of a finite table, of which TLC has seen every case: `CallsFindTheirFunction`,
  `DslFollowsWalks`.

## 5. Where the code departs from its documentation

The seven violation runs of section 3 are recorded as findings in `PROJECT.json`. Other
departures met while modelling, none of which a run claims to show:

* The default repository is the last of a list sorted by name, where `service.rs:111`
  and the MCP server (`mcp/lib.rs:5131`) speak of the most recent.
* `setup_all` and `uninstall_all` omit Cursor; the wizard passes "VS Code" on as "vs".
  Setup replaces settings that do not parse by an empty document.
* The announced resources of a community and of a process (`mcp/lib.rs:5354`, 5363) cannot
  be read: `read_resource_inner` matches the second of three parts only (5168, 5182).
* `delete` and `clean` leave snapshots behind.
* `docs/reference/config.md:30` and `ROADMAP.md:27-31` gate the declarative engine to
  Python and Go; `rules_for` and `analyzer.rs:498` apply it to 15 languages, where it
  takes each Rust `impl` and Swift extension for a class and finds no imports of
  TypeScript and Rust, no arrow functions and no types and constants of Go.
* `impact.rs:268` says 'All symbols in new/deleted files are affected'. Of a deleted file none
  is: its new side is `/dev/null`, so that `parse_diff` keeps no path of it
  (`impact.rs:130-133`) and it is not in the list that line 268 goes through. No property
  asserts one or the other; `ImpactFollowsDiff` asks nothing of the symbols of a deleted
  file. A diff of a path that is unknown to the store is charged to
  a file whose path ends like it.
* `store.rs:216` says that `store_symbols` persists symbols 'replacing any existing rows with
  the same UID'; it only adds (`store.rs:217-232`), so a uid that is stored again has two
  rows, and a reader takes whichever it meets. No property asserts one or the other;
  `RowsSurvive` asks nothing of a uid that was stored again. `vector_search` scores a row without a vector 0.5, while the brute-force search skips
  it. A kind of a later build becomes a variable for good once its symbol is embedded.
* `docs/guides/cypher-queries.md:163-170` asks for a file label in a relationship, which
  never matches. A property as a group key is always null; `count(*)` is 0; patterns
  that share a variable are not joined; an undirected pattern follows the row's direction
  only; path functions ignore direction and kind; what follows the last clause is ignored.
* A community is stored with names and read back by name, so two symbols of one name are
  in it together. The graph crate's refusal of a doubled edge makes the centrality
  report fail, metrics zero and surprising connections empty as soon as two symbols call
  each other, since only `detect` merges the two directions (`community.rs:123-128`).
* The surprising connections' "total" is the count after the limit;
  `get_suggested_questions` parses its diff and ignores it; an empty pattern in
  `exclude_patterns` excludes every symbol.
* Conversations are grouped in one pass and groups are not merged
  (`analyzer.rs:2012-2014`). Import aliases are those of the last file that binds them,
  relative imports of nested TypeScript files are looked up from the root, a member is
  tied to the last symbol with its parent's short name, and calls of notebooks carry no
  file.

## 6. Not modelled

* What a text looks like: names, signatures and metadata of symbols, the characters of a
  token, formatting of answers, exports, reports, the visualiser, doctor.
* Floating-point numbers and external algorithms: embedding models, BM25 and fused
  scores, centralities, the partition Leiden finds, `sum`, `avg`, `min` and `max`, the
  similarities of `cross_repo.rs`.
* Parsers of single documents (PDF, mail, notebooks, OpenAPI) and LLM mentions: functions
  of a text. Which files are skipped and what a run makes of the result is modelled.
* Inline properties in query patterns; the answers of the knowledge and mail tools, of
  `rename` and of drift reports, beyond which tables they read.
* Connecting to a mail server, the account files, HTTP clients of models, benchmarks.

`PROJECT.json` lists every component with its status and the reason.

## 7. Plan

Modelled first was what damages every later query when it goes wrong: the lock, the
records that say what an index holds, the decision to reuse it, the registry; then the
graph, the pipelines that feed it and the handles that serve it; then readers, answers and
the language they are asked in. The proofs followed in that order. What is left:

1. `BatchEdges`, `CypherParser` and `CypherExecutor` with recursive functions in place of
   recursive operators, and then `EdgesFollowTheText` and `QueryIsRead` as theorems.
2. A run for each disagreement of section 5 that has none, first those of `store.rs:216`
   and `impact.rs:268`.
