---------------------------- MODULE AnalysisLock ----------------------------
(***************************************************************************)
(* The per-repository lock file of crates/myceliums-core/src/lock.rs, used *)
(* by `myc analyze` (myc/src/main.rs).  One system call is one action, so  *)
(* the processes interleave between `exists`, `read_to_string`, `kill -0`, *)
(* `remove_file`, `create_new`, the open of fs::write (which creates or    *)
(* truncates), its write, and the unlink of the guard's Drop.              *)
(*                                                                         *)
(* A process is named by its pid.  A process killed at any point leaves    *)
(* the file as it is; an I/O error makes acquire return Err, which also    *)
(* leaves a file it may have created, because no guard exists yet.         *)
(***************************************************************************)
EXTENDS FiniteSets

CONSTANTS
    Procs,      \* pids of the processes that call AnalysisLock::acquire
    MayDelete,  \* TRUE: `myc delete` may run at any time
    NoFile,     \* nothing at the path of the lock file
    Blank       \* a content that parse_lock_pid maps to None

ASSUME LockAssumption ==
    /\ MayDelete \in BOOLEAN
    /\ Blank \notin Procs
    /\ NoFile \notin [owner : Procs, text : Procs \cup {Blank}]

VARIABLES
    dirExists,  \* data/{repo_id} exists
    file,       \* what the path analysis.lock is linked to
    linked,     \* processes whose open descriptor is the linked file
    stage,         \* where each process is in acquire, hold, drop
    seen,       \* the pid each process parsed from the file
    robbed,     \* history: processes whose file another actor unlinked
    recurred    \* history: new processes with a dead one's pid, until they write it

lockVars == <<dirExists, file, linked, stage, seen, robbed, recurred>>

Quiet   == {"idle", "refused", "failed"}       \* alive, outside the lock
Section == {"open", "write", "holding"}        \* created the file, not yet dropped
Step    == {"exists", "read", "probe", "remove", "create", "winner"}
Pcs     == Quiet \cup Section \cup Step \cup {"dead"}

Files == {NoFile} \cup [owner : Procs, text : Procs \cup {Blank}]

LockTypeOK ==
    /\ dirExists \in BOOLEAN
    /\ file \in Files
    /\ linked \subseteq Procs
    /\ stage \in [Procs -> Pcs]
    /\ seen \in [Procs -> Procs]
    /\ robbed \subseteq Procs
    /\ recurred \subseteq Procs

LockInit ==
    /\ dirExists = FALSE
    /\ file = NoFile
    /\ linked = {}
    /\ stage = [p \in Procs |-> "idle"]
    /\ seen = [p \in Procs |-> p]
    /\ robbed = {}
    /\ recurred = {}

-----------------------------------------------------------------------------
MoveTo(p, l) == stage' = [stage EXCEPT ![p] = l]

\* `kill -0 pid` succeeds
Alive(p) == stage[p] # "dead"

\* The path is unlinked by the actors `by`: open descriptors keep the old inode.
Unlink(by) ==
    /\ file' = NoFile
    /\ linked' = {}
    /\ robbed' = robbed \cup {p \in Procs \ by : /\ file # NoFile
                                                 /\ file.owner = p
                                                 /\ stage[p] \in Section}

\* fs::create_dir_all(&repo_dir)
Start(p) ==
    /\ stage[p] \in Quiet
    /\ MoveTo(p, "exists")
    /\ dirExists' = TRUE
    /\ robbed' = robbed \ {p}
    /\ UNCHANGED <<file, linked, seen, recurred>>

\* if lock_path.exists()
Exists(p) ==
    /\ stage[p] = "exists"
    /\ MoveTo(p, IF file = NoFile THEN "create" ELSE "read")
    /\ UNCHANGED <<dirExists, file, linked, seen, robbed, recurred>>

\* read_to_string and parse_lock_pid; a file gone since `exists` cannot be read
Read(p) ==
    /\ stage[p] = "read"
    /\ IF file # NoFile /\ file.text \in Procs
       THEN MoveTo(p, "probe") /\ seen' = [seen EXCEPT ![p] = file.text]
       ELSE MoveTo(p, "remove") /\ UNCHANGED seen
    /\ UNCHANGED <<dirExists, file, linked, robbed, recurred>>

\* Mutant of Probe: any readable pid counts as a running analysis.
ProbeTrusts(p) ==
    /\ stage[p] = "probe"
    /\ MoveTo(p, "refused")
    /\ UNCHANGED <<dirExists, file, linked, seen, robbed, recurred>>

\* if is_process_alive(pid) { return AlreadyRunning }
Probe(p) ==
    /\ stage[p] = "probe"
    /\ MoveTo(p, IF Alive(seen[p]) THEN "refused" ELSE "remove")
    /\ UNCHANGED <<dirExists, file, linked, seen, robbed, recurred>>

\* let _ = fs::remove_file(&lock_path): whatever file is at the path by now
RemoveStale(p) ==
    /\ stage[p] = "remove"
    /\ Unlink({p})
    /\ MoveTo(p, "create")
    /\ UNCHANGED <<dirExists, seen, recurred>>

\* Mutant of Create: create(true) instead of create_new(true).
CreateShared(p) ==
    /\ stage[p] = "create"
    /\ IF dirExists
       THEN /\ file' = IF file = NoFile THEN [owner |-> p, text |-> Blank] ELSE file
            /\ MoveTo(p, "open")
       ELSE MoveTo(p, "failed") /\ UNCHANGED file
    /\ UNCHANGED <<dirExists, linked, seen, robbed, recurred>>

\* OpenOptions::create_new(true).open(&lock_path)
Create(p) ==
    /\ stage[p] = "create"
    /\ \/ /\ ~dirExists
          /\ MoveTo(p, "failed")
          /\ UNCHANGED file
       \/ /\ dirExists /\ file = NoFile
          /\ file' = [owner |-> p, text |-> Blank]
          /\ MoveTo(p, "open")
       \/ /\ file # NoFile
          /\ MoveTo(p, "winner")
          /\ UNCHANGED file
    /\ UNCHANGED <<dirExists, linked, seen, robbed, recurred>>

\* ErrorKind::AlreadyExists: AlreadyRunning { pid of the file, or 0 }
Winner(p) ==
    /\ stage[p] = "winner"
    /\ MoveTo(p, "refused")
    /\ UNCHANGED <<dirExists, file, linked, seen, robbed, recurred>>

\* fs::write(&lock_path, ..): open with create and truncate ...
OpenFile(p) ==
    /\ stage[p] = "open"
    /\ dirExists
    /\ file' = IF file = NoFile THEN [owner |-> p, text |-> Blank]
                                ELSE [file EXCEPT !.text = Blank]
    /\ linked' = linked \cup {p}
    /\ MoveTo(p, "write")
    /\ UNCHANGED <<dirExists, seen, robbed, recurred>>

\* ... and write; the bytes go to the opened inode, linked or not
Write(p) ==
    /\ stage[p] = "write"
    /\ file' = IF p \in linked THEN [file EXCEPT !.text = p] ELSE file
    /\ linked' = linked \ {p}
    /\ MoveTo(p, "holding")
    /\ recurred' = recurred \ {p}
    /\ UNCHANGED <<dirExists, seen, robbed>>

\* fs::write(..)? returns early: the file stays, no guard is built
WriteFails(p) ==
    /\ stage[p] \in {"open", "write"}
    /\ linked' = linked \ {p}
    /\ MoveTo(p, "failed")
    /\ UNCHANGED <<dirExists, file, seen, robbed, recurred>>

\* Drop for AnalysisLock: unlinks whatever file is at the path
Release(p) ==
    /\ stage[p] = "holding"
    /\ Unlink({p})
    /\ MoveTo(p, "idle")
    /\ UNCHANGED <<dirExists, seen, recurred>>

\* The process exits or is killed; the kernel closes its descriptor.
Die(p) ==
    /\ Alive(p)
    /\ linked' = linked \ {p}
    /\ MoveTo(p, "dead")
    /\ UNCHANGED <<dirExists, file, seen, robbed, recurred>>

\* A new process gets the pid of a dead one.
Respawn(p) ==
    /\ stage[p] = "dead"
    /\ MoveTo(p, "idle")
    /\ recurred' = recurred \cup {p}
    /\ UNCHANGED <<dirExists, file, linked, seen, robbed>>

\* `myc delete`: remove_dir_all of the directory that also holds the lock
DeleteRepo ==
    /\ MayDelete
    /\ dirExists
    /\ dirExists' = FALSE
    /\ Unlink({})
    /\ UNCHANGED <<stage, seen, recurred>>

\* The calls of acquire that the process makes on its own.
Acquire(p) ==
    \/ Exists(p) \/ Read(p) \/ Probe(p) \/ RemoveStale(p) \/ Create(p)
    \/ Winner(p) \/ OpenFile(p) \/ Write(p)

LockNext ==
    \/ \E p \in Procs : \/ Start(p) \/ Acquire(p) \/ WriteFails(p)
                        \/ Release(p) \/ Die(p) \/ Respawn(p)
    \/ DeleteRepo

\* acquire is straight-line code: a scheduled process executes its next call.
LockFairness == \A p \in Procs : WF_lockVars(Acquire(p) \/ WriteFails(p))

LockSpec == LockInit /\ [][LockNext]_lockVars /\ LockFairness

-----------------------------------------------------------------------------
Holds(p) == stage[p] = "holding"

\* What the module's first line promises: "Analysis lock to prevent concurrent
\* indexing of the same repository" (lock.rs:1).
MutualExclusion == \A p, q \in Procs : Holds(p) /\ Holds(q) => p = q

\* create_new is the arbiter: two processes can only hold the lock together
\* when the file of one of them was unlinked behind its back, by a stale-lock
\* clean-up, by another guard's Drop, or by a deletion of the repository.
OnlyTheftBreaksExclusion ==
    \A p, q \in Procs : Holds(p) /\ Holds(q) /\ p # q => p \in robbed \/ q \in robbed

\* The argument of OnlyTheftBreaksExclusion: whoever created the file and was
\* not robbed still owns the file the path is linked to.
UnrobbedOwnsFile ==
    \A p \in Procs : stage[p] \in Section /\ p \notin robbed
                        => file # NoFile /\ file.owner = p

\* A lock file that names a live process names a holder: AlreadyRunning { pid }
\* is never answered for a process that gave the lock back (lock.rs:43), and
\* a crash never leaves a file that looks live, unless the system gave the pid
\* of the crashed process to a new one.
LiveNameHolds ==
    file # NoFile =>
        \A p \in Procs \ recurred : file.text = p /\ Alive(p) => Holds(p)

\* An abandoned lock never blocks: a process that calls acquire while every
\* other process is outside the lock gets it, whatever file crashed, failed or
\* robbed processes left, unless its own I/O fails or it dies, or the pid
\* that it reads was recycled (lock.rs:5 "A stale lock (dead process) is cleaned up
\* automatically").
OthersOut(p) == \A q \in Procs \ {p} : stage[q] \in Quiet \cup {"dead"}
Misled(p) == \/ file # NoFile /\ file.text \in recurred
             \/ stage[p] = "probe" /\ seen[p] \in recurred
AbandonedLockIsReclaimed ==
    \A p \in Procs :
        [](stage[p] = "exists" /\ [](OthersOut(p) /\ ~Misled(p))
             => /\ <>(stage[p] \in {"holding", "failed", "dead"})
                /\ [](stage[p] # "refused"))
=============================================================================
