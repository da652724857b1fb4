------------------------------ MODULE Registry ------------------------------
(***************************************************************************)
(* repos.json and the data directories it accounts for.  Every command     *)
(* that changes the registry loads the whole file, edits its copy and      *)
(* writes the whole file back (RepoRegistry::load, register, remove,       *)
(* save), without a lock; fs::write truncates the file before it writes.   *)
(* `myc analyze` creates data/<id>, empties it of an earlier index, fills  *)
(* it and then registers the repository; `myc delete` removes the          *)
(* directory after it saved the registry; `myc clean --orphans` removes    *)
(* directories the registry does not know, and takes a registry it cannot  *)
(* parse for an empty one; `myc clean --all` removes the directories and   *)
(* repos.json one after another, whoever is at work on them.               *)
(***************************************************************************)
EXTENDS FiniteSets

CONSTANTS
    Procs,          \* processes that run commands
    Repos,          \* repository ids
    NoFile,         \* repos.json does not exist
    Torn,           \* repos.json does not parse
    NoRepo

ASSUME RegistryAssumption ==
    /\ \A s \in SUBSET Repos : s # NoFile /\ s # Torn
    /\ NoFile # Torn
    /\ NoRepo \notin Repos

VARIABLES
    file,       \* repos.json: NoFile, Torn, or the ids it lists
    dirs,       \* ids whose data directory exists
    data,       \* ids whose data directory holds the index of an analysis
    pc, cmd,    \* step and command of each process
    repo,       \* the repository it works on
    copy,       \* its RepoRegistry, or the orphans find_orphans returned
    fresh,      \* history: nobody saved since the process loaded its copy
    ledger,     \* history: ids of the registrations that were saved, not deleted
    overlapped, \* history: a save wrote a copy that was out of date
    cut,        \* history: a process died inside fs::write
    together,   \* history: a command began while another was at work
    taken       \* history: ids whose index an analysis wiped to build it anew, or
                \* `clean --all` removed, and that has not been built since

local == <<pc, cmd, repo, copy>>
vars  == <<file, dirs, data, local, fresh, ledger, overlapped, cut, together, taken>>

\* The steps of a command.  One that is adrift has repos.json open, but the file has
\* lost its name.
Stages == {"idle", "wipe", "build", "load", "truncate", "write", "adrift", "unlink",
           "sweep", "empty"}

TypeOK ==
    /\ file \in {NoFile, Torn} \cup SUBSET Repos
    /\ dirs \subseteq Repos /\ data \subseteq dirs
    /\ pc \in [Procs -> Stages]
    /\ cmd \in [Procs -> {"none", "analyze", "delete", "clean"}]
    /\ repo \in [Procs -> Repos \cup {NoRepo}]
    /\ copy \in [Procs -> SUBSET Repos]
    /\ fresh \in [Procs -> BOOLEAN]
    /\ ledger \subseteq Repos /\ overlapped \in BOOLEAN
    /\ cut \in BOOLEAN /\ together \in BOOLEAN /\ taken \subseteq Repos

Init ==
    /\ file = NoFile /\ dirs = {} /\ data = {}
    /\ pc = [p \in Procs |-> "idle"] /\ cmd = [p \in Procs |-> "none"]
    /\ repo = [p \in Procs |-> NoRepo] /\ copy = [p \in Procs |-> {}]
    /\ fresh = [p \in Procs |-> FALSE]
    /\ ledger = {} /\ overlapped = FALSE /\ cut = FALSE /\ together = FALSE
    /\ taken = {}

-----------------------------------------------------------------------------
Goto(p, step) == pc' = [pc EXCEPT ![p] = step]

Begin(p, c, r) ==
    /\ pc[p] = "idle"
    /\ cmd' = [cmd EXCEPT ![p] = c]
    /\ repo' = [repo EXCEPT ![p] = r]
    /\ together' = (together \/ \E q \in Procs : pc[q] # "idle")

End(p) ==
    /\ Goto(p, "idle")
    /\ cmd' = [cmd EXCEPT ![p] = "none"]
    /\ repo' = [repo EXCEPT ![p] = NoRepo]
    /\ copy' = [copy EXCEPT ![p] = {}]
    /\ fresh' = [fresh EXCEPT ![p] = FALSE]

\* RepoRegistry::load: an absent file is an empty registry
Content == IF file = NoFile THEN {} ELSE file

\* cmd_analyze: unless forced it reads the registry first; create_dir_all
StartAnalyze(p, r, force) ==
    /\ force \/ file # Torn
    /\ Begin(p, "analyze", r) /\ Goto(p, "wipe")
    /\ dirs' = dirs \cup {r}
    /\ UNCHANGED <<file, data, copy, fresh, ledger, overlapped, cut, taken>>

\* Store::open and delete_repo_data: the index of an earlier analysis goes, while
\* repos.json still lists it
Wipe(p) ==
    /\ pc[p] = "wipe"
    /\ dirs' = dirs \cup {repo[p]} /\ data' = data \ {repo[p]}
    /\ taken' = taken \cup ({repo[p]} \cap data)
    /\ Goto(p, "build")
    /\ UNCHANGED <<file, cmd, repo, copy, fresh, ledger, overlapped, cut, together>>

\* The analysis stores its tables; Store::open creates a missing directory.
Build(p) ==
    /\ pc[p] = "build"
    /\ dirs' = dirs \cup {repo[p]} /\ data' = data \cup {repo[p]}
    /\ taken' = taken \ {repo[p]}
    /\ Goto(p, "load")
    /\ UNCHANGED <<file, cmd, repo, copy, fresh, ledger, overlapped, cut, together>>

\* load()? and register
Load(p) ==
    /\ pc[p] = "load"
    /\ IF file = Torn
       THEN End(p)
       ELSE /\ copy' = [copy EXCEPT ![p] = Content \cup {repo[p]}]
            /\ fresh' = [fresh EXCEPT ![p] = TRUE]
            /\ Goto(p, "truncate") /\ UNCHANGED <<cmd, repo>>
    /\ UNCHANGED <<file, dirs, data, ledger, overlapped, cut, together, taken>>

\* Mutant of StartDelete: the directory is removed before the registry is saved.
DeleteDirFirst(p, r) ==
    /\ file # Torn /\ r \in Content
    /\ Begin(p, "delete", r) /\ Goto(p, "truncate")
    /\ copy' = [copy EXCEPT ![p] = Content \ {r}]
    /\ fresh' = [fresh EXCEPT ![p] = TRUE]
    /\ dirs' = dirs \ {r} /\ data' = data \ {r}
    /\ UNCHANGED <<file, ledger, overlapped, cut, taken>>

\* cmd_delete and the MCP delete tool: load()?, look the repository up, remove
StartDelete(p, r) ==
    /\ file # Torn /\ r \in Content
    /\ Begin(p, "delete", r) /\ Goto(p, "truncate")
    /\ copy' = [copy EXCEPT ![p] = Content \ {r}]
    /\ fresh' = [fresh EXCEPT ![p] = TRUE]
    /\ UNCHANGED <<file, dirs, data, ledger, overlapped, cut, taken>>

\* save: fs::write opens with O_TRUNC ...
Truncate(p) ==
    /\ pc[p] = "truncate"
    /\ file' = Torn
    /\ overlapped' = (overlapped \/ ~fresh[p])
    /\ fresh' = [q \in Procs |-> q = p /\ fresh[p]]
    /\ Goto(p, "write")
    /\ UNCHANGED <<dirs, data, cmd, repo, copy, ledger, cut, together, taken>>

\* Mutant of Write: a deletion writes the copy it loaded.
WriteUnremoved(p) ==
    /\ pc[p] = "write"
    /\ file' = copy[p] \cup {repo[p]}
    /\ ledger' = IF cmd[p] = "delete" THEN ledger \ {repo[p]} ELSE ledger \cup {repo[p]}
    /\ IF cmd[p] = "delete"
       THEN Goto(p, "unlink") /\ UNCHANGED <<cmd, repo, copy, fresh>>
       ELSE End(p)
    /\ UNCHANGED <<dirs, data, overlapped, cut, together, taken>>

\* ... and writes: over what another process wrote meanwhile, the tail of the
\* longer text may stay behind; into a file that `clean --all` unlinked, for nobody
Write(p) ==
    /\ \/ /\ pc[p] = "write"
          /\ \/ file' = copy[p]
             \/ file # Torn /\ file' = Torn
          /\ UNCHANGED overlapped
       \/ /\ pc[p] = "adrift"
          /\ overlapped' = TRUE
          /\ UNCHANGED file
    /\ ledger' = IF cmd[p] = "delete" THEN ledger \ {repo[p]} ELSE ledger \cup {repo[p]}
    /\ IF cmd[p] = "delete"
       THEN Goto(p, "unlink") /\ UNCHANGED <<cmd, repo, copy, fresh>>
       ELSE End(p)
    /\ UNCHANGED <<dirs, data, cut, together, taken>>

\* cmd_delete: remove_dir_all
Unlink(p) ==
    /\ pc[p] = "unlink"
    /\ dirs' = dirs \ {repo[p]} /\ data' = data \ {repo[p]}
    /\ taken' = taken \ {repo[p]}
    /\ End(p)
    /\ UNCHANGED <<file, ledger, overlapped, cut, together>>

\* find_orphans: a registry that fails to load counts as empty
Orphans == dirs \ (IF file = Torn THEN {} ELSE Content)

\* cmd_clean --orphans: list them, then the prompt
StartClean(p) ==
    /\ Orphans # {}
    /\ Begin(p, "clean", NoRepo) /\ Goto(p, "sweep")
    /\ copy' = [copy EXCEPT ![p] = Orphans]
    /\ UNCHANGED <<file, dirs, data, fresh, ledger, overlapped, cut, taken>>

\* One remove_dir_all; a directory that is gone is an error that ends the loop.
Sweep(p, r) ==
    /\ pc[p] = "sweep" /\ r \in copy[p]
    /\ dirs' = dirs \ {r} /\ data' = data \ {r}
    /\ IF r \notin dirs \/ copy[p] = {r}
       THEN End(p)
       ELSE /\ copy' = [copy EXCEPT ![p] = @ \ {r}]
            /\ UNCHANGED <<pc, cmd, repo, fresh>>
    /\ UNCHANGED <<file, ledger, overlapped, cut, together, taken>>

\* cmd_clean --all: the prompt, then remove_dir_all of the whole data home, which
\* asks nobody and takes its entries in any order
StartCleanAll(p) ==
    /\ dirs # {} \/ file # NoFile
    /\ Begin(p, "clean", NoRepo) /\ Goto(p, "empty")
    /\ UNCHANGED <<file, dirs, data, copy, fresh, ledger, overlapped, cut, taken>>

RemoveDir(p, r) ==
    /\ pc[p] = "empty" /\ r \in dirs
    /\ dirs' = dirs \ {r} /\ data' = data \ {r}
    /\ taken' = taken \cup ({r} \cap data)
    /\ UNCHANGED <<file, local, fresh, ledger, overlapped, cut, together>>

\* repos.json is unlinked: nobody's copy is current, and one that is being written
\* has lost its name.
RemoveFile(p) ==
    /\ pc[p] = "empty" /\ file # NoFile
    /\ file' = NoFile /\ ledger' = {}
    /\ pc' = [q \in Procs |-> IF pc[q] = "write" THEN "adrift" ELSE pc[q]]
    /\ fresh' = [q \in Procs |-> FALSE]
    /\ overlapped' = FALSE /\ cut' = FALSE
    /\ UNCHANGED <<dirs, data, cmd, repo, copy, together, taken>>

\* All is gone.  An entry that somebody made meanwhile is an error, which ends the
\* command as a crash does.
EndCleanAll(p) ==
    /\ pc[p] = "empty" /\ dirs = {} /\ file = NoFile
    /\ End(p)
    /\ taken' = {}
    /\ together' = (together /\ \E q \in Procs \ {p} : pc[q] # "idle")
    /\ UNCHANGED <<file, dirs, data, ledger, overlapped, cut>>

\* The process dies.
Crash(p) ==
    /\ pc[p] # "idle"
    /\ End(p)
    /\ cut' = (cut \/ pc[p] = "write")
    /\ UNCHANGED <<file, dirs, data, ledger, overlapped, together, taken>>

Next ==
    \E p \in Procs :
       \/ \E r \in Repos : StartDelete(p, r) \/ Sweep(p, r) \/ RemoveDir(p, r)
       \/ \E r \in Repos, force \in BOOLEAN : StartAnalyze(p, r, force)
       \/ Wipe(p) \/ Build(p) \/ Load(p) \/ Truncate(p) \/ Write(p) \/ Unlink(p)
       \/ StartClean(p) \/ StartCleanAll(p) \/ RemoveFile(p) \/ EndCleanAll(p)
       \/ Crash(p)

Spec == Init /\ [][Next]_vars

-----------------------------------------------------------------------------
Quiet == \A p \in Procs : pc[p] # "write"

\* The registry lists exactly what was registered and not deleted, unless two
\* read-modify-write cycles overlapped or a save was cut.
LossNeedsOverlapOrCrash ==
    Quiet /\ ~overlapped /\ ~cut => file # Torn /\ Content = ledger

\* Commands that run one at a time list a repository without its index only where an
\* analysis wiped it to build it anew (main.rs:1103), or `clean --all` removed it before
\* repos.json, and died before it came to the end: wherever else they die the directory
\* is filled before the entry is saved, and removed after it (main.rs:1389-1394).
ListedHasIndex == ~together /\ file # Torn => Content \ taken \subseteq data

\* repos.json does not parse and nobody is about to save over it.
TornForGood == file = Torn /\ \A p \in Procs : pc[p] \notin {"truncate", "write"}

\* A registry that was left torn stays torn until `myc clean --all`, whatever
\* commands run on it: none rewrites it from its own point of view, so the
\* entries of the other repositories can still be rescued by hand.
TornStays == [][TornForGood => TornForGood' \/ file' = NoFile]_vars
=============================================================================
