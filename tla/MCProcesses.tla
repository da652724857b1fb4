------------------------------ MODULE MCProcesses ------------------------------
(***************************************************************************)
(* What the processes of myc do on their own.  Two of them index a working *)
(* tree: `myc analyze` under its lock, and `myc watch`, which takes none.  *)
(* A server writes batches of rows, caches results, searches the graph and *)
(* traces the flows through it.                                            *)
(* These parts share no state, so they are explored one at a time: part    *)
(* says which one moves, and its behaviours are those of its own           *)
(* specification.                                                          *)
(***************************************************************************)
EXTENDS AnalysisLock, Watcher, BatchWriter, QueryCache, GraphSearch, ProcessTree

VARIABLE part

ASSUME WatcherAssumption == WatcherOK

readVars   == <<searchVars, processVars>>
serverVars == <<batchVars, cacheVars, readVars>>
guardVars  == <<lockVars, watchVars>>
allVars    == <<guardVars, serverVars, part>>

NoSearch ==
    /\ search = "callers" /\ calls = {} /\ symbols = {} /\ starts = {} /\ goal = NoNode
    /\ limit = 0 /\ queue = <<>> /\ marked = {} /\ reported = {}
    /\ depth = [n \in Nodes |-> 0] /\ parent = [n \in Nodes |-> NoNode]

NoTrace ==
    /\ relations = <<>> /\ known = {} /\ mainNames = {} /\ deep = 0 /\ most = 0
    /\ todo = {} /\ stack = <<>> /\ tree = {} /\ processes = [n \in {} |-> 0]

\* Nodes are alike: the first call is made by the same one in every graph.  The graphs
\* with most calls come with all their symbols known and none named like an entry point.
FewGraphs ==
    /\ relations # <<>> => relations[1][1] = CHOOSE n \in Uids : TRUE
    /\ Len(relations) > 2 => known = Uids /\ mainNames = {}

ProcessesInit ==
    /\ part \in {"lock", "watch", "writer", "cache", "search", "trace"}
    /\ LockInit /\ WatchInit /\ (part = "watch" \/ disk = NoTree)
    /\ BatchInit /\ CacheInit
    /\ IF part = "search" THEN SearchInit ELSE NoSearch
    /\ IF part = "trace" THEN ProcessInit /\ FewGraphs ELSE NoTrace

ProcessesNext ==
    \/ part = "lock" /\ LockNext /\ UNCHANGED <<watchVars, serverVars, part>>
    \/ part = "watch" /\ WatchNext /\ UNCHANGED <<lockVars, serverVars, part>>
    \/ /\ part = "writer" /\ BatchNext
       /\ UNCHANGED <<guardVars, cacheVars, readVars, part>>
    \/ /\ part = "cache" /\ CacheNext
       /\ UNCHANGED <<guardVars, batchVars, readVars, part>>
    \/ /\ part = "search" /\ SearchNext
       /\ UNCHANGED <<guardVars, batchVars, cacheVars, processVars, part>>
    \/ /\ part = "trace" /\ ProcessNext
       /\ UNCHANGED <<guardVars, batchVars, cacheVars, searchVars, part>>

\* A part that does not move has nothing to do: none of its fair actions is enabled.
ProcessesSpec ==
    /\ ProcessesInit /\ [][ProcessesNext]_allVars
    /\ LockFairness /\ WatcherFairness
    /\ BatchFairness /\ SearchFairness /\ TraceFairness

-----------------------------------------------------------------------------
\* What was begun comes to its end: the batch writer once its accumulators are gone
\* (BatchWriter), every search (GraphSearch), and the tracing with a process for every entry
\* point that calls (ProcessTree).
WorkEnds == Drains /\ SearchEnds /\ TracingEnds
=============================================================================
