------------------------------- MODULE MCAnswers -------------------------------
(***************************************************************************)
(* What is answered without analysing anything: from the analysis cache,   *)
(* and from the tables of a store, whose handle the calls share.  The      *)
(* parts share no state, so they are explored one at a time: part says     *)
(* which one moves.                                                        *)
(***************************************************************************)
EXTENDS MCAnalysisCache, DependencyTools, StoreHandles

VARIABLE part

-----------------------------------------------------------------------------
\* A store of three symbols, one of them in a test.
Row(uid, name, qual, kind, path, first, last) ==
    [uid |-> uid, name |-> name, qual |-> qual, kind |-> kind, file |-> path,
     first |-> first, last |-> last]

\* Two of the same name in two files, and in one.
SmallTable ==
    <<Row("u1", "run", "m.run", "Function", <<"src", "m">>, 1, 9),
      Row("u2", "run", "n.run", "Method", <<"src", "n">>, 1, 4),
      Row("u3", "check", "t.check", "Function", <<"tests", "t">>, 1, 9)>>

OneFile ==
    <<Row("u1", "run", "m.run", "Function", <<"src", "m">>, 1, 3),
      Row("u2", "run", "C.run", "Method", <<"src", "m">>, 5, 7),
      Row("u3", "check", "m.check", "Function", <<"src", "m">>, 8, 9)>>

MCFileUid == [path \in {<<"src", "m">>, <<"src", "n">>, <<"tests", "t">>} |-> "file-" \o path[2]]

\* A community that was detected before its only member was removed.
Leftover == <<[uid |-> "uid-9", label |-> "gone", names |-> <<"gone">>, count |-> 3]>>

MCTables    == {<<>>, SmallTable, OneFile}
MCGroupings == {<<>>, Leftover}
MCTestFiles == {<<"tests", "t">>}

-----------------------------------------------------------------------------
\* The store is empty while the cache and the handles are explored; the partitions are those
\* of one file.
AnswersInit ==
    /\ part \in {"cache", "handles", "graph", "communities"}
    /\ Init /\ HandlesInit /\ GraphInit
    /\ symbols = CASE part = "graph" -> SmallTable [] part = "communities" -> OneFile
                    [] OTHER -> <<>>
    /\ part # "communities" => communities = <<>>
    /\ part # "cache" => head = NoCommit

\* Communities are detected in graphs of one call, or of two between symbols.
DetectedFew ==
    \/ /\ Cardinality(Resolved) < 2 /\ communities \in {<<>>, Leftover} /\ Connect
       /\ \A e \in Resolved' : e.kind = "Calls"
       /\ Cardinality(Resolved') = 2 => \A e \in Resolved' : Joins(e) \subseteq Uids
    \/ communities \in {<<>>, Leftover} /\ Detect

\* What is stored may be all there is.
Rest == UNCHANGED <<vars, handleVars, graphVars, part>>

\* Bound: the manifest is changed and not deleted.
AnswersNext ==
    \/ /\ part = "cache" /\ Next /\ tree'[manifest] # NoFile
       /\ UNCHANGED <<handleVars, graphVars, part>>
    \/ part = "handles" /\ HandlesNext /\ UNCHANGED <<vars, graphVars, part>>
    \/ part = "graph" /\ Connect /\ UNCHANGED <<vars, handleVars, part>>
    \/ part = "communities" /\ DetectedFew /\ UNCHANGED <<vars, handleVars, part>>
    \/ part \in {"graph", "communities"} /\ Rest

AnswersSpec == AnswersInit /\ [][AnswersNext]_<<vars, handleVars, graphVars, part>>

=============================================================================
