--------------------------- MODULE AnalysisCache ---------------------------
(***************************************************************************)
(* When `myc analyze`, `myc session` and the MCP analyze tool reuse the    *)
(* index of a repository instead of building it (cache::check_cache), and  *)
(* what they then reuse.  The working tree, the commits and the clock move *)
(* on their own; a full run wipes the index, reads the files one by one,   *)
(* stores them and only then records HEAD and the time in the registry; an *)
(* incremental run of `myc watch` changes the index and records nothing.   *)
(*                                                                         *)
(* A commit is its content, a file version a model value, and index[f] the *)
(* version whose symbols the index holds.  One run writes at a time.       *)
(***************************************************************************)
EXTENDS Integers, FiniteSets

CONSTANTS
    Files, Contents, NoFile,
    Structural,         \* STRUCTURAL_FILES
    MaxChanged,         \* CacheCheckConfig.max_changed_files
    MaxAge,             \* CacheCheckConfig.max_age_minutes
    Wide,               \* the number of values of an unsigned integer
    Ages,               \* bound: the ages in minutes an entry can have
    NoCommit, NoEntry,
    FirstTrees,         \* bound: the working trees it starts from
    MaxChanges          \* bound: changes of the working tree and of HEAD

Tree   == [Files -> Contents \cup {NoFile}]
Blank  == [f \in Files |-> NoFile]

ASSUME CacheAssumption ==
    /\ FirstTrees \subseteq Tree
    /\ NoFile \notin Contents
    /\ Structural \subseteq Files /\ IsFiniteSet(Files)
    /\ MaxChanged \in Nat /\ MaxChanges \in Nat
    /\ MaxAge \in Nat /\ Wide \in Nat \ {0} /\ 0 \in Ages
    /\ Ages \subseteq Int /\ \A m \in Ages : -Wide < m /\ m < Wide
    /\ \A m \in Ages : m < 0 => m % Wide > MaxAge     \* what a cast makes of them

VARIABLES
    tree,       \* the working tree
    head,       \* the content of HEAD, NoCommit outside git
    changes,    \* number of changes so far
    entry,      \* the RepoInfo of the registry
    age,        \* whole minutes from its analyzed_at to the clock
    known,      \* its analyzed_commit is still in the repository
    touched,    \* files whose mtime is later than its analyzed_at
    index,      \* the version of each file in the index
    old,        \* files whose vectors have an earlier geometry than the code's
    pc, read, todo,     \* the full run in progress
    causes      \* history: why the index may not be what the entry says

env   == <<tree, head, changes>>
entryVars == <<entry, age, known, touched>>
run   == <<pc, read, todo>>
vars  == <<env, entryVars, index, old, run, causes>>

Cause == {"interrupted", "dropped", "watched", "uncommitted", "missed", "unseen", "early"}

TypeOK ==
    /\ tree \in Tree /\ head \in Tree \cup {NoCommit} /\ changes \in 0..MaxChanges
    /\ entry # NoEntry =>
          entry \in [commit : Tree \cup {NoCommit}, geometry : BOOLEAN,
                     files : 0..Cardinality(Files)]
    /\ age \in Ages /\ known \in BOOLEAN /\ touched \subseteq Files
    /\ index \in Tree /\ old \subseteq {f \in Files : index[f] # NoFile}
    /\ pc \in {"idle", "wipe", "discover", "read", "store", "register"}
    /\ read \in Tree /\ todo \subseteq Files
    /\ causes \subseteq Cause

Init ==
    /\ tree \in FirstTrees /\ head \in {tree, NoCommit} /\ changes = 0
    /\ entry = NoEntry /\ age = 0 /\ known = TRUE /\ touched = {}
    /\ index = Blank /\ old = {}
    /\ pc = "idle" /\ read = Blank /\ todo = {}
    /\ causes = {}

-----------------------------------------------------------------------------
Present(t) == {f \in Files : t[f] # NoFile}

\* get_changed_files: git diff --name-only <analyzed_commit> HEAD
Changed == {f \in Files : entry.commit[f] # head[f]}

\* No commit recorded, or git diff fails: the check goes by mtime.
ByGit == entry.commit # NoCommit /\ head # NoCommit /\ known

\* no structural file among few changed ones
GitReuse ==
    \/ Changed = {}
    \/ Changed \cap Structural = {} /\ Cardinality(Changed) <= MaxChanged

\* check_cache_by_mtime: no file is newer than the analysis
MtimeReuse == touched = {}

\* Mutant of TooOld: an age below zero counts as none.
TooOldClamped == age > MaxAge

\* age.num_minutes() as u64 > max_age_minutes
TooOld == age % Wide > MaxAge

\* Mutant of Reusable: the geometry version is not compared.
ReusableAnyGeometry ==
    /\ entry # NoEntry /\ ~TooOld
    /\ IF ByGit THEN GitReuse ELSE MtimeReuse

\* check_cache answers UseCached
Reusable ==
    /\ entry # NoEntry /\ entry.geometry /\ ~TooOld
    /\ IF ByGit THEN GitReuse ELSE MtimeReuse

-----------------------------------------------------------------------------
Change ==
    /\ changes < MaxChanges
    /\ changes' = changes + 1

\* A file is written, perhaps by a clock behind the entry's time, or put in place
\* with an earlier mtime (mv, cp -p, tar).
Edit(f, c, keepsMtime) ==
    /\ Change
    /\ c # tree[f]
    /\ tree' = [tree EXCEPT ![f] = c]
    /\ touched' = IF keepsMtime \/ age < 0 THEN touched \ {f} ELSE touched \cup {f}
    /\ causes' = causes \cup (IF keepsMtime THEN {"unseen"} ELSE {})
                        \cup (IF age < 0 THEN {"early"} ELSE {})
    /\ UNCHANGED <<head, entry, age, known, index, old, run>>

Delete(f) ==
    /\ Change
    /\ tree[f] # NoFile
    /\ tree' = [tree EXCEPT ![f] = NoFile]
    /\ touched' = touched \ {f}
    /\ causes' = causes \cup {"unseen"}
    /\ UNCHANGED <<head, entry, age, known, index, old, run>>

\* Some of the changes are committed.
Commit(S) ==
    /\ Change
    /\ LET base == IF head = NoCommit THEN Blank ELSE head
       IN  head' = [f \in Files |-> IF f \in S THEN tree[f] ELSE base[f]]
    /\ head' # head
    /\ UNCHANGED <<tree, entryVars, index, old, run, causes>>

\* Another commit is checked out in a clean tree.
Checkout(c) ==
    /\ Change
    /\ tree = head /\ c # head
    /\ tree' = c /\ head' = c
    /\ LET written == {f \in Files : c[f] # tree[f]}
       IN  touched' = (IF age < 0 THEN touched \ written ELSE touched \cup written)
                          \cap Present(c)
    /\ causes' = causes \cup (IF Present(tree) \subseteq Present(c) THEN {} ELSE {"unseen"})
                        \cup (IF age < 0 THEN {"early"} ELSE {})
    /\ UNCHANGED <<entry, age, known, index, old, run>>

\* The analyzed commit was rewritten and collected.  Like Tick, SetBack and Upgrade this
\* matters, and is modelled, only between runs: a run that ends well resets it.
Forget ==
    /\ pc = "idle"
    /\ entry # NoEntry /\ entry.commit # head /\ known
    /\ known' = FALSE
    /\ UNCHANGED <<env, entry, age, touched, index, old, run, causes>>

\* The clock goes on.  Once it has passed the entry's time again, nothing tells
\* what was written while it was behind.
Tick ==
    /\ pc = "idle" /\ entry # NoEntry
    /\ age' \in {m \in Ages : m > age}
    /\ causes' = causes \cup (IF "early" \in causes /\ age' >= 0 THEN {"unseen"} ELSE {})
    /\ UNCHANGED <<env, entry, known, touched, index, old, run>>

\* The clock is set back, modelled where mtimes are what is looked at.  A file
\* whose mtime is then ahead of a new entry is not counted as touched: it would
\* only make the entry less reusable.
SetBack ==
    /\ pc = "idle" /\ entry # NoEntry /\ ~ByGit
    /\ age' \in {m \in Ages : m < age}
    /\ UNCHANGED <<env, entry, known, touched, index, old, run, causes>>

\* A release with another schema::VECTOR_GEOMETRY_VERSION is installed.
Upgrade ==
    /\ pc = "idle" /\ entry # NoEntry /\ entry.geometry
    /\ entry' = [entry EXCEPT !.geometry = FALSE]
    /\ old' = Present(index)
    /\ UNCHANGED <<env, age, known, touched, index, run, causes>>

\* --force, no entry, or check_cache answers ReanalyzeNeeded
Start(force) ==
    /\ pc = "idle"
    /\ force \/ ~Reusable
    /\ pc' = "wipe"
    /\ UNCHANGED <<env, entryVars, index, old, read, todo, causes>>

\* store.delete_repo_data(): the registry entry stays
Wipe ==
    /\ pc = "wipe"
    /\ index' = Blank /\ old' = {}
    /\ causes' = {"interrupted"}
    /\ pc' = "discover"
    /\ UNCHANGED <<env, entryVars, read, todo>>

\* discover_files
Discover ==
    /\ pc = "discover"
    /\ todo' = Present(tree)
    /\ pc' = IF todo' = {} THEN "store" ELSE "read"
    /\ UNCHANGED <<env, entryVars, index, old, read, causes>>

\* Read one file; one that is gone is skipped.
ReadFile(f) ==
    /\ pc = "read" /\ f \in todo
    /\ read' = [read EXCEPT ![f] = tree[f]]
    /\ todo' = todo \ {f}
    /\ pc' = IF todo' = {} THEN "store" ELSE "read"
    /\ UNCHANGED <<env, entryVars, index, old, causes>>

Store ==
    /\ pc = "store"
    /\ index' = read
    /\ pc' = "register"
    /\ UNCHANGED <<env, entryVars, old, read, todo, causes>>

\* What the new entry claims and the index does not hold.
Gaps == (IF head # NoCommit /\ read # head THEN {"uncommitted"} ELSE {})
        \cup (IF read # tree THEN {"missed"} ELSE {})

\* Mutant of Register: the entry keeps the commit it had.
RegisterKeepsCommit ==
    /\ pc = "register"
    /\ entry' = [commit   |-> IF entry = NoEntry THEN head ELSE entry.commit,
                 geometry |-> TRUE, files |-> Cardinality(Present(read))]
    /\ age' = 0 /\ known' = TRUE /\ touched' = {}
    /\ causes' = Gaps
    /\ pc' = "idle" /\ read' = Blank
    /\ UNCHANGED <<env, index, old, todo>>

\* get_head_commit, registry.register with Utc::now(), save: after the analysis
Register ==
    /\ pc = "register"
    /\ entry' = [commit |-> head, geometry |-> TRUE, files |-> Cardinality(Present(read))]
    /\ age' = 0 /\ known' = TRUE /\ touched' = {}
    /\ causes' = Gaps
    /\ pc' = "idle" /\ read' = Blank
    /\ UNCHANGED <<env, index, old, todo>>

\* The process dies, the session timeout drops the run, or an error ends it;
\* parts of the symbols may be stored.
Interrupt ==
    /\ pc # "idle"
    /\ \E S \in SUBSET (IF pc = "store" THEN Files ELSE {}) :
          index' = IF pc = "store"
                   THEN [f \in Files |-> IF f \in S THEN read[f] ELSE NoFile]
                   ELSE index
    /\ pc' = "idle" /\ read' = Blank /\ todo' = {}
    /\ UNCHANGED <<env, entryVars, old, causes>>

\* cmd_watch: analyze_files or handle_file_deleted for one file, perhaps cut
\* between the deletion of its rows and their storage
Watch(f, completes) ==
    /\ pc = "idle" /\ entry # NoEntry
    /\ index' = [index EXCEPT ![f] = IF completes THEN tree[f] ELSE NoFile]
    /\ old' = old \ {f}
    /\ causes' = causes \cup {IF completes THEN "watched" ELSE "dropped"}
    /\ UNCHANGED <<env, entryVars, run>>

Next ==
    \/ \E f \in Files, c \in Contents, keeps \in BOOLEAN : Edit(f, c, keeps)
    \/ \E f \in Files : Delete(f) \/ ReadFile(f)
    \/ \E S \in SUBSET Files : Commit(S)
    \/ \E c \in Tree : Checkout(c)
    \/ Forget \/ Tick \/ SetBack \/ Upgrade
    \/ \E force \in BOOLEAN : Start(force)
    \/ Wipe \/ Discover \/ Store \/ Register \/ Interrupt
    \/ \E f \in Files, completes \in BOOLEAN : Watch(f, completes)

Spec == Init /\ [][Next]_vars

-----------------------------------------------------------------------------
Stale(t) == {f \in Files : index[f] # t[f]}

\* An index reused by the git check differs from HEAD in at most MaxChanged
\* files, none of them structural, unless the run that built it was cut or saw
\* another content than HEAD's, or a watcher changed it afterwards.
GitReuseIsClose ==
    /\ pc = "idle" /\ Reusable /\ ByGit
    /\ causes \cap {"interrupted", "dropped", "uncommitted", "watched"} = {}
    => /\ Stale(head) \cap Structural = {}
       /\ Cardinality(Stale(head)) <= MaxChanged

\* An index reused by the mtime check is that of the working tree, unless its
\* run was cut or missed a change made while it ran, or files came and went
\* without a new mtime.
MtimeReuseIsExact ==
    /\ pc = "idle" /\ Reusable /\ ~ByGit
    /\ causes \cap {"interrupted", "dropped", "missed", "unseen"} = {}
    => index = tree

\* A reused index holds no vector of an earlier geometry (cache.rs:60-64),
\* whatever runs were cut and whatever a watcher of the new release re-indexed.
ReuseHasOneGeometry == Reusable => old = {}

\* "Cached analysis is fresh enough to reuse" (cache.rs:30): what full runs left
\* is not blank.
ReusedIndexIsThere ==
    pc = "idle" /\ Reusable /\ entry.files > 0 /\ causes \cap {"dropped", "watched"} = {} =>
        index # Blank
=============================================================================
