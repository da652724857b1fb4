---------------------------- MODULE MCIndexGraph ----------------------------
(***************************************************************************)
(* IndexGraph with two files.  A caller calls the symbol of a callee by an *)
(* alias of an import and itself by one of a variable; mails name a person *)
(* and the callee; a shadow defines both symbols in a file analyze skips.  *)
(***************************************************************************)
EXTENDS IndexGraph, TLC

CONSTANTS f1, f2, login, check, alias, handler, ann

None == [defs |-> {}, calls |-> {}, imports |-> {}, vars |-> {}, people |-> {},
         mentions |-> {}, guarded |-> FALSE]
Caller == [None EXCEPT !.defs = {login}, !.calls = {<<login, alias>>, <<login, handler>>},
                       !.imports = {<<alias, check>>}, !.vars = {<<handler, login>>}]
Callee == [None EXCEPT !.defs = {check}]
Shadow == [None EXCEPT !.defs = {login, check}, !.calls = {<<login, check>>}, !.guarded = TRUE]
Mail   == [None EXCEPT !.defs = {Text}, !.people = {ann}, !.mentions = {check}]

MCContents   == {Caller, Callee, Shadow, Mail}
MCWalkOrder  == <<f1, f2>>
MCFirstTrees == {[f \in Files |-> IF f = f1 THEN Caller ELSE Callee]}
MCMailTrees  == {[f \in Files |-> IF f = f1 THEN Mail ELSE Callee]}
MCSymmetry   == Permutations(Writers)
=============================================================================
