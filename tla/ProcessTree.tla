------------------------------ MODULE ProcessTree ------------------------------
(***************************************************************************)
(* The tracer of execution flows (process.rs): from every entry point a    *)
(* depth-first walk over the calls builds a tree, one callee of the        *)
(* topmost frame at a time.  A callee that is on the current path is       *)
(* skipped, so a cycle ends; one that was met on another branch is walked  *)
(* again.  Two limits cut a tree: its depth, and a number of nodes that    *)
(* each node compares with the size of its own subtree.                    *)
(*                                                                         *)
(* A node of a tree is the path from the entry point to it; trees are sets *)
(* of them, and size counts the nodes, a call made at two places twice.    *)
(***************************************************************************)
EXTENDS Naturals, Sequences, FiniteSets, SequencesExt, FiniteSetsExt

CONSTANTS
    Uids,
    MaxCalls, MaxDeep, MaxTree   \* bounds: call relations, max_depth, max_nodes_per_process

VARIABLES
    relations,   \* the call relations, in their order: <<caller, callee>>
    known,       \* uids that are symbols of the repository
    mainNames,   \* symbols with the name of an entry point
    deep, most,  \* the configuration: max_depth, max_nodes_per_process
    todo,        \* entry points that were not traced yet
    stack,       \* frames of build_tree: uid, callees left, size of its subtree
    tree,        \* paths of the tree under construction
    processes    \* entry point -> [paths, steps] of the processes found

graphOf     == <<relations, known, mainNames, deep, most>>
processVars == <<graphOf, todo, stack, tree, processes>>

\* The callees of n, as the places of its relations in their order.
Callees(n) == {i \in DOMAIN relations : relations[i][1] = n}
Called == {relations[i][2] : i \in DOMAIN relations}

\* Symbols that call and are not called, and those that are named like an entry point.
EntryPoints == {s \in known : (Callees(s) # {} /\ s \notin Called) \/ s \in mainNames}

ProcessInit ==
    /\ relations \in UNION {[1..k -> Uids \X Uids] : k \in 0..MaxCalls}
    /\ known \in SUBSET Uids
    /\ mainNames \in SUBSET known
    /\ deep \in 0..MaxDeep /\ most \in 0..MaxTree
    /\ todo = IF relations = <<>> THEN {} ELSE EntryPoints
    /\ stack = <<>> /\ tree = {}
    /\ processes = [n \in {} |-> 0]

-----------------------------------------------------------------------------
Top    == Last(stack)
Callee == relations[Min(Top.left)][2]
Path   == [i \in DOMAIN stack |-> stack[i].uid]
OnPath == {stack[i].uid : i \in DOMAIN stack}

\* A new node.  At the depth limit it gets no callees (depth counts the frames below it).
Frame(n, below) == [uid |-> n, left |-> IF below >= deep THEN {} ELSE Callees(n), size |-> 1]

\* trace_with_config: the next entry point
Trace ==
    /\ stack = <<>>
    /\ \E e \in todo :
        /\ todo' = todo \ {e}
        /\ stack' = <<Frame(e, 0)>>
        /\ tree' = {<<e>>}
    /\ UNCHANGED <<graphOf, processes>>

Skipped(n) == n \in OnPath

\* Mutant of Full: no node counts its subtree.
FullNever == FALSE
Full == Top.size >= most

Skip ==
    /\ stack # <<>> /\ Top.left # {} /\ Skipped(Callee)
    /\ stack' = [stack EXCEPT ![Len(stack)].left = @ \ {Min(@)}]
    /\ UNCHANGED <<graphOf, todo, tree, processes>>

Stop ==
    /\ stack # <<>> /\ Top.left # {} /\ ~Skipped(Callee) /\ Full
    /\ stack' = [stack EXCEPT ![Len(stack)].left = {}]
    /\ UNCHANGED <<graphOf, todo, tree, processes>>

Enter ==
    /\ stack # <<>> /\ Top.left # {} /\ ~Skipped(Callee) /\ ~Full
    /\ LET n == Callee
           rest == [stack EXCEPT ![Len(stack)].left = @ \ {Min(@)}]
       IN  /\ stack' = Append(rest, Frame(n, Len(stack)))
           /\ tree' = tree \cup {Append(Path, n)}
    /\ UNCHANGED <<graphOf, todo, processes>>

\* A finished child is pushed to its parent's children.
Leave ==
    /\ Len(stack) > 1 /\ Top.left = {}
    /\ stack' = [Front(stack) EXCEPT ![Len(stack) - 1].size = @ + Top.size]
    /\ UNCHANGED <<graphOf, todo, tree, processes>>

\* The tree is complete; one of a single node is no process.
Report ==
    /\ Len(stack) = 1 /\ Top.left = {}
    /\ processes' = IF Top.size < 2 THEN processes
                    ELSE [n \in DOMAIN processes \cup {Top.uid} |->
                            IF n = Top.uid THEN [paths |-> tree, steps |-> Top.size]
                            ELSE processes[n]]
    /\ stack' = <<>> /\ tree' = {}
    /\ UNCHANGED <<graphOf, todo>>

ProcessNext == Trace \/ Skip \/ Stop \/ Enter \/ Leave \/ Report

\* The walk blocks on nothing.
TraceFairness == WF_processVars(ProcessNext)

ProcessSpec == ProcessInit /\ [][ProcessNext]_processVars /\ TraceFairness

-----------------------------------------------------------------------------
\* Reference: the paths from e of at most d calls that meet no node twice.
SimplePaths(e, d) ==
    {p \in UNION {[1..k -> Uids] : k \in 1..(d + 1)} :
        /\ p[1] = e /\ IsInjective(p)
        /\ \A i \in 2..Len(p) : <<p[i - 1], p[i]>> \in ToSet(relations)}

\* The number of nodes is a limit of every subtree and not of the process: each level
\* can add one subtree to a node that is one short of it.  That is all a tree can hold.
Limit == IF most = 0 THEN 1 ELSE 1 + deep * (most - 1)

\* A process shows nothing but paths of calls that meet no node twice, within the depth
\* asked for; it is complete when it has fewer nodes than the limit; and its size has
\* the bound that the two limits together give it, not the one max_nodes is named for.
TraceIsFaithful ==
    \A e \in DOMAIN processes :
        /\ processes[e].paths \subseteq SimplePaths(e, deep)
        /\ processes[e].steps < most => processes[e].paths = SimplePaths(e, deep)
        /\ processes[e].steps <= Limit

\* "Max nodes per process: Total nodes to explore" (process.rs:18), "Maximum number of nodes
\* per process to trace" (process.rs:33).
TracesStayWithinMax == \A e \in DOMAIN processes : processes[e].steps <= most

\* Every entry point that calls another symbol, or one that is unknown, has a process
\* once the tracing ends, unless a limit forbids it, and the tracing ends on any graph.
TracingEnds ==
    <>(/\ todo = {} /\ stack = <<>>
       /\ \A e \in EntryPoints :
             deep > 0 /\ most > 1 /\ (\E i \in Callees(e) : relations[i][2] # e) => e \in DOMAIN processes)
=============================================================================
