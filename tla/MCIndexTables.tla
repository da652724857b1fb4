----------------------------- MODULE MCIndexTables -----------------------------
(***************************************************************************)
(* The index under its writers and under its readers: IndexGraph is what   *)
(* runs write, row by row; IndexReaders is what calls read meanwhile, table*)
(* by table; ImpactTools is what the tables say of a diff of the tree;      *)
(* BatchEdges is how the edges of a run come about.  They abstract the same*)
(* tables differently, so they are explored one at a time: part says which *)
(* one moves.                                                              *)
(***************************************************************************)
EXTENDS MCIndexGraph, IndexReaders

VARIABLES part,
    stored, links, groups, diff,
    readFiles, readMails

\* A store of three symbols, two of them of the same name.
Stored(uid, name, sort, at, first, last) ==
    [uid |-> uid, name |-> name, qual |-> at[2] \o "." \o name, kind |-> sort, file |-> at,
     first |-> first, last |-> last]

SmallTable ==
    <<Stored("u1", "run", "Function", <<"src", "m">>, 1, 9),
      Stored("u2", "run", "Method", <<"src", "n">>, 1, 4),
      Stored("u3", "check", "Function", <<"tests", "t">>, 1, 9)>>

Grouping == <<[uid |-> "uid-9", label |-> "core", names |-> <<"n.run", "check">>, count |-> 3]>>

\* A diff of two sections, one of them of a file that is not in the store under its path.
I == INSTANCE ImpactTools
        WITH symbols <- stored, edges <- links, communities <- groups,
             Tables <- {SmallTable}, Groupings <- {Grouping},
             Kinds <- {"Calls", "Mentions"}, Gone <- "u0", TestFiles <- {<<"tests", "t">>},
             FileUid <- [at \in {s.file : s \in Range(SmallTable)} |-> "file-" \o at[2]],
             MaxEdges <- 2, MaxLines <- 2,
             DiffPaths <- << <<"n">>, <<"src", "m">>, <<"src", "n">> >>,
             Hunks <- {<<[start |-> 3, count |-> 2]>>,
                       <<[start |-> 1, count |-> 1], [start |-> 8, count |-> 4]>>,
                       <<[start |-> 5, count |-> 0]>>},
             MaxSections <- 2, PartOf <- {}

ASSUME ImpactAssumption == I!ImpactOK

\* Six files: Python, TypeScript and a notebook; two of one module path and with a name in
\* common, one with a constructor, one whose variable is bound to a name that is imported.
Sym(name, in, line)    == [name |-> name, in |-> in, line |-> line]
Call(from, to, on)     == [caller |-> from, callee |-> to, on |-> on]
Bind(name, what, from) == [name |-> name, what |-> what, module |-> from]
ParsedFile(path, syms, calls, imports, assigned, notes) ==
    [path |-> path, notebook |-> Last(path) = "ipynb", syms |-> syms, calls |-> calls,
     imports |-> imports, vars |-> assigned, notes |-> notes]

ParsedFiles ==
    {ParsedFile(<<"src", "/", "auth", ".", "py">>,
                <<Sym(<<"Auth">>, 0, 2), Sym(<<"login">>, 1, 3), Sym(<<"check">>, 0, 8)>>,
                {Call(<<"login">>, <<"check">>, <<>>)}, <<>>, <<>>, {1, 5, 9}),
     ParsedFile(<<"src", "/", "app", ".", "py">>, <<Sym(<<"main">>, 0, 4)>>,
                {Call(<<"main">>, <<"handler">>, <<>>)},
                <<Bind(<<"enter">>, <<"login">>, <<"auth">>)>>,
                <<Bind(<<"handler">>, <<"enter">>, <<>>)>>, {}),
     ParsedFile(<<"lib", "/", "auth", "/", "__init__", ".", "py">>, <<Sym(<<"login">>, 0, 1)>>,
                {}, <<>>, <<>>, {}),
     ParsedFile(<<"trial", ".", "ipynb">>, <<Sym(<<"cell">>, 0, 1)>>,
                {Call(<<"cell">>, <<"enter">>, <<>>), Call(<<"cell">>, <<"login">>, <<"Auth">>)},
                <<Bind(<<"enter">>, <<"login">>, <<"auth">>)>>, <<>>, {}),
     ParsedFile(<<"src", "/", "web", ".", "ts">>, <<Sym(<<"serve">>, 0, 1)>>,
                {Call(<<"serve">>, <<"go">>, <<>>), Call(<<"serve">>, <<"open">>, <<"enter">>)},
                <<Bind(<<"log">>, <<"log">>, <<"x">>),
                  Bind(<<"connect">>, <<"open">>, <<".", "/", "db">>)>>,
                <<Bind(<<"go">>, <<"connect">>, <<>>)>>, {}),
     ParsedFile(<<"src", "/", "db", "/", "index", ".", "ts">>,
                <<Sym(<<"Db">>, 0, 1), Sym(<<"Db">>, 1, 2), Sym(<<"open">>, 1, 2)>>,
                {Call(<<"open">>, <<"enter">>, <<>>)}, <<>>, <<>>, {1})}

B == INSTANCE BatchEdges
        WITH files <- readFiles, mails <- readMails, Parsed <- ParsedFiles, MaxFiles <- 3,
             MessageIds <- {"a", "b", "c"}, NoId <- "", MaxMails <- 3

\* Files or mails; ids are named in the order they are met.
ReadMore ==
    \/ readMails = <<>> /\ B!ReadFile
    \/ /\ readFiles = <<>> /\ B!ReadMail
       /\ Len(readMails') = 1 => /\ Head(readMails').id # "b"
                                 /\ "c" \notin {Head(readMails').id, Head(readMails').reply}
                                               \cup Range(Head(readMails').refs)

diffState  == <<stored, links, groups, diff>>
batchState == <<readFiles, readMails>>
tablesVars == <<vars, readerVars, diffState, batchState, part>>

TablesInit ==
    /\ part \in {"graph", "readers", "impact", "batch"}
    /\ Init /\ ReadersInit /\ I!ImpactInit /\ B!BatchInit
    /\ full = (IF part = "readers" THEN 1 ELSE 0)

TablesNext ==
    \/ part = "graph" /\ Next /\ UNCHANGED <<readerVars, diffState, batchState, part>>
    \/ part = "readers" /\ ReadersNext /\ UNCHANGED <<vars, diffState, batchState, part>>
    \/ /\ part = "impact" /\ I!ImpactNext /\ UNCHANGED <<vars, readerVars, batchState, part>>
       /\ \/ Cardinality(I!Resolved') + Len(diff') < 3
          \/ /\ Cardinality(I!Resolved') + Len(diff') = 3
             /\ \A e \in I!Resolved' : e.kind = "Calls"
    \/ part = "batch" /\ ReadMore /\ UNCHANGED <<vars, readerVars, diffState, part>>

TablesSpec == TablesInit /\ [][TablesNext]_tablesVars

-----------------------------------------------------------------------------
\* Impact and review follow from the diff (ImpactTools).
ImpactFollowsDiff == part = "impact" => I!ImpactFollowsDiff

\* The edges of a run are those its files mean (BatchEdges).
EdgesFollowTheText == part = "batch" => B!EdgesFollowTheText
=============================================================================
