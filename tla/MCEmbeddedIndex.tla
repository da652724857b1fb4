--------------------------- MODULE MCEmbeddedIndex ---------------------------
(***************************************************************************)
(* What makes a row of the index, how rows are kept, and how they are asked*)
(* for: SourceWalk is how a file is taken apart into symbols and calls,    *)
(* EmbeddedIndex how symbols get their vectors, StoredRows how the store   *)
(* keeps what it is given, CypherParser and CypherExecutor how a query is  *)
(* read and answered.  The one hands the other nothing but rows, so they   *)
(* are explored one at a time: part says which one moves.  EmbeddedIndex   *)
(* has three embedders: the legacy one, one of the same dimension (a swap  *)
(* the physical dimension cannot reveal) and one of another dimension.     *)
(* SourceWalk has paths of any length in the syntax trees of every         *)
(* language.                                                               *)
(***************************************************************************)
EXTENDS EmbeddedIndex, SourceWalk, StoredRows

CONSTANTS small, swap, large
MCDimOf == [e \in Embedders |-> IF e = large THEN 2 ELSE 1]

VARIABLES part,
    text, meant,
    table, edges, communities

Q == INSTANCE CypherParser WITH Names <- {"s"}, MaxParts <- 3

\* A store of three symbols, two of them of the same name.
Stored(uid, name, sort, at) ==
    [uid |-> uid, name |-> name, qual |-> at[2] \o "." \o name, kind |-> sort, file |-> at,
     first |-> 1, last |-> 9]

SmallTable ==
    <<Stored("u1", "run", "Function", <<"src", "m">>), Stored("u2", "run", "Method", <<"src", "n">>),
      Stored("u3", "check", "Function", <<"tests", "t">>)>>

X == INSTANCE CypherExecutor
        WITH symbols <- table, Tables <- {SmallTable}, Groupings <- {<<>>}, Kinds <- {"Calls", "Mentions"},
             FileUid <- [at \in {s.file : s \in Range(SmallTable)} |-> "file-" \o at[2]],
             Gone <- "u0", TestFiles <- {<<"tests", "t">>}, MaxEdges <- 3, MaxLines <- 2,
             MaxDepth <- 3, ManyCallers <- 2, FewCallers <- 1, ManySymbols <- 2,
             Alphabet <- <<"", "check", "null", "run", "u1", "u2", "u3", "{">>,
             MaxJoined <- 18, MaxAnswer <- 10, MaxPathDepth <- 3

query == <<text, meant>>
graph == <<table, edges, communities>>

IndexInit ==
    /\ part \in {"walk", "vectors", "kept", "read", "answered"}
    /\ Init /\ WalkInit /\ RowsInit /\ Q!ParserInit /\ X!GraphInit
    /\ part # "walk" => lang = "python"
    /\ part # "vectors" => config = Legacy

\* Two resolved edges of any kind, or three calls.
ConnectFew ==
    X!Connect /\ (Cardinality(X!Resolved') > 2 => \A e \in X!Resolved' : e.kind = "Calls")

\* What was stored or written may be all there is.
Rest == UNCHANGED <<vars, walkVars, rowVars, query, graph, part>>

IndexNext ==
    \/ part = "vectors" /\ Next /\ UNCHANGED <<walkVars, rowVars, query, graph, part>>
    \/ part = "walk" /\ WalkNext /\ UNCHANGED <<vars, rowVars, query, graph, part>>
    \/ part = "kept" /\ RowsNext /\ UNCHANGED <<vars, walkVars, query, graph, part>>
    \/ part = "read" /\ Q!ParserNext /\ UNCHANGED <<vars, walkVars, rowVars, graph, part>>
    \/ part = "answered" /\ ConnectFew /\ UNCHANGED <<vars, walkVars, rowVars, query, part>>
    \/ part \in {"kept", "read", "answered"} /\ Rest

IndexSpec == IndexInit /\ [][IndexNext]_<<vars, walkVars, rowVars, query, graph, part>>

-----------------------------------------------------------------------------
\* The walks of a file fit together (SourceWalk): a call goes to the function it is in, which
\* is a symbol.
CallsFindTheirFunction == part = "walk" => CallersAreSymbols /\ CallsAreCharged

\* The engine that takes the place of the hand-written walks does what they do (SourceWalk).
DslFollowsWalks == part = "walk" => DslMatchesHandCoded /\ DslChargesTheSame

\* A query is read as it was meant, and so is what it grows to (CypherParser).
QueryIsRead == part = "read" => Q!QueryIsRead

\* A query is answered as the tools answer, whatever is added to the graph (CypherExecutor).
QueriesAgree == part = "answered" => X!QueriesAgree
=============================================================================
