------------------------------ MODULE Watcher ------------------------------
(***************************************************************************)
(* `myc watch`: the debouncer collects paths that changed, a bridge thread *)
(* (start_watching) looks at each path and sends the files that exist as   *)
(* FilesChanged and then those that do not as FilesRemoved over an         *)
(* unbounded channel, and cmd_watch takes one event after the other:       *)
(* Analyzer::analyze_files for the first kind, handle_file_deleted for     *)
(* each path of the second.  The files go on changing all the while.       *)
(***************************************************************************)
EXTENDS Naturals, Sequences

CONSTANTS
    Watched, Versions, Missing,
    MaxChanges,     \* bound: changes of the working tree
    MayFail         \* TRUE: store calls may fail

\* What the constants must satisfy.
WatcherOK ==
    Missing \notin Versions /\ MaxChanges \in Nat /\ MayFail \in BOOLEAN

Tree  == [Watched -> Versions \cup {Missing}]
Event == [removed : BOOLEAN, files : SUBSET Watched]

VARIABLES
    disk, changes,  \* the working tree, and how often it changed
    pending,        \* paths the debouncer holds
    window,         \* paths of the debounced batch the bridge has not sorted
    found,          \* the one of them exists() has found
    changed, removed,   \* the sets the bridge builds
    events,        \* events on their way to cmd_watch
    index,          \* the version of each file in the index
    step, work, left, got,    \* cmd_watch: step, event, files to go, what was read
    failed          \* history: an event was given up after an error

bridge    == <<window, found, changed, removed>>
consumer  == <<step, work, left, got>>
watchVars == <<disk, changes, pending, bridge, events, index, consumer, failed>>

NoEvent == [removed |-> FALSE, files |-> {}]
NoTree  == [f \in Watched |-> Missing]

WatchTypeOK ==
    /\ disk \in Tree /\ index \in Tree /\ got \in Tree /\ changes \in 0..MaxChanges
    /\ pending \subseteq Watched /\ window \subseteq Watched /\ found \subseteq Watched
    /\ changed \subseteq Watched /\ removed \subseteq Watched
    /\ events \in Seq(Event)
    /\ step \in {"receive", "purge", "read", "store", "remove", "ended"}
    /\ work \in Event /\ left \subseteq work.files
    /\ failed \in BOOLEAN

\* The watch starts on a repository that was analyzed.
WatchInit ==
    /\ disk \in Tree /\ changes = 0 /\ index = disk
    /\ pending = {} /\ window = {} /\ found = {} /\ changed = {} /\ removed = {}
    /\ events = <<>>
    /\ step = "receive" /\ work = NoEvent /\ left = {} /\ got = NoTree
    /\ failed = FALSE

-----------------------------------------------------------------------------
\* A file is written, created or removed; the debouncer hears of it.
Change(f, v) ==
    /\ changes < MaxChanges /\ v # disk[f]
    /\ disk' = [disk EXCEPT ![f] = v]
    /\ changes' = changes + 1
    /\ pending' = pending \cup {f}
    /\ UNCHANGED <<bridge, events, index, consumer, failed>>

\* Some paths have been quiet for 500 ms; the others stay (AnyContinuous).
Debounce(E) ==
    /\ window = {} /\ changed = {} /\ removed = {}
    /\ E # {} /\ E \subseteq pending
    /\ window' = E /\ pending' = pending \ E
    /\ UNCHANGED <<disk, changes, found, changed, removed, events, index, consumer, failed>>

\* An error of the notifier takes the place of a change: no more than a warning.
NotifierFails(f) ==
    /\ MayFail /\ f \in pending
    /\ pending' = pending \ {f} /\ failed' = TRUE
    /\ UNCHANGED <<disk, changes, bridge, events, index, consumer>>

\* Mutant of Classify: a path that does not exist is skipped.
ClassifyExisting(f) ==
    /\ f \in window /\ found = {}
    /\ IF disk[f] # Missing THEN found' = {f} /\ UNCHANGED window
                            ELSE window' = window \ {f} /\ UNCHANGED found
    /\ UNCHANGED <<disk, changes, pending, changed, removed, events, index, consumer, failed>>

\* path.exists()
Classify(f) ==
    /\ f \in window /\ found = {}
    /\ IF disk[f] # Missing
       THEN found' = {f} /\ UNCHANGED <<window, removed>>
       ELSE window' = window \ {f} /\ removed' = removed \cup {f} /\ UNCHANGED found
    /\ UNCHANGED <<disk, changes, pending, changed, events, index, consumer, failed>>

\* path.is_file(): what exists() found may be gone
Track(f) ==
    /\ f \in found
    /\ found' = {} /\ window' = window \ {f}
    /\ changed' = IF disk[f] # Missing THEN changed \cup {f} ELSE changed
    /\ UNCHANGED <<disk, changes, pending, removed, events, index, consumer, failed>>

EventOf(gone, files) ==
    IF files = {} THEN <<>> ELSE <<[removed |-> gone, files |-> files]>>

SendEvents ==
    /\ window = {} /\ changed \cup removed # {}
    /\ events' = events \o EventOf(FALSE, changed) \o EventOf(TRUE, removed)
    /\ changed' = {} /\ removed' = {}
    /\ UNCHANGED <<disk, changes, pending, window, found, index, consumer, failed>>

\* rx.recv()
Receive ==
    /\ step = "receive" /\ events # <<>>
    /\ work' = Head(events) /\ left' = Head(events).files
    /\ events' = Tail(events)
    /\ step' = IF Head(events).removed THEN "remove" ELSE "purge"
    /\ UNCHANGED <<disk, changes, pending, bridge, index, got, failed>>

\* cmd_watch is back at rx.recv().
Done ==
    /\ step' = "receive" /\ work' = NoEvent /\ left' = {} /\ got' = NoTree

\* analyze_files: delete_file_data of one changed file
Purge(f) ==
    /\ step = "purge" /\ f \in left
    /\ index' = [index EXCEPT ![f] = Missing]
    /\ IF left = {f} THEN step' = "read" /\ left' = work.files
                     ELSE left' = left \ {f} /\ UNCHANGED step
    /\ UNCHANGED <<disk, changes, pending, bridge, events, work, got, failed>>

\* ReadFile and parse one file; it is skipped when it is gone by now.
ReadFile(f) ==
    /\ step = "read" /\ f \in left
    /\ got' = [got EXCEPT ![f] = disk[f]]
    /\ left' = left \ {f}
    /\ step' = IF left = {f} THEN "store" ELSE step
    /\ UNCHANGED <<disk, changes, pending, bridge, events, index, work, failed>>

Store ==
    /\ step = "store"
    /\ index' = [f \in Watched |-> IF f \in work.files THEN got[f] ELSE index[f]]
    /\ Done
    /\ UNCHANGED <<disk, changes, pending, bridge, events, failed>>

\* handle_file_deleted: delete_file_data; an error goes on to the next file
RemoveFile(f) ==
    /\ step = "remove" /\ f \in left
    /\ \/ index' = [index EXCEPT ![f] = Missing] /\ UNCHANGED failed
       \/ MayFail /\ failed' = TRUE /\ UNCHANGED index
    /\ IF left = {f} THEN Done
                     ELSE left' = left \ {f} /\ UNCHANGED <<step, work, got>>
    /\ UNCHANGED <<disk, changes, pending, bridge, events>>

\* analyze_files fails: the error is printed, the event is not tried again
Fail ==
    /\ MayFail /\ step \in {"purge", "store"}
    /\ failed' = TRUE
    /\ Done
    /\ UNCHANGED <<disk, changes, pending, bridge, events, index>>

\* Store::open fails: `?` ends cmd_watch, and the bridge with it.
OpenFails ==
    /\ MayFail /\ step = "receive" /\ events # <<>>
    /\ failed' = TRUE /\ step' = "ended"
    /\ UNCHANGED <<disk, changes, pending, bridge, events, index, work, left, got>>

Bridge ==
    /\ step # "ended"
    /\ \/ SendEvents
       \/ \E E \in SUBSET Watched : Debounce(E)
       \/ \E f \in Watched : Classify(f) \/ Track(f)

Handle ==
    \/ Receive \/ Store \/ Fail \/ OpenFails
    \/ \E f \in Watched : Purge(f) \/ ReadFile(f) \/ RemoveFile(f)

WatchNext ==
    \/ \E f \in Watched, v \in Versions \cup {Missing} : Change(f, v)
    \/ \E f \in Watched : NotifierFails(f)
    \/ Bridge \/ Handle

\* The bridge thread and the loop of cmd_watch run whenever they have work.
WatcherFairness == WF_watchVars(Bridge) /\ WF_watchVars(Handle)

WatchSpec == WatchInit /\ [][WatchNext]_watchVars /\ WatcherFairness

-----------------------------------------------------------------------------
Settled ==
    /\ pending = {} /\ window = {} /\ changed = {} /\ removed = {}
    /\ events = <<>> /\ step = "receive"

\* When no event is on its way the index is that of the working tree, whatever
\* changed between notification, look and read, unless an error was given up.
QuietMeansCurrent == Settled /\ ~failed => index = disk

\* The index catches up with the working tree once that stops changing.
CatchesUp == <>[](failed \/ index = disk)
=============================================================================
