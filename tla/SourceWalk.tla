----------------------------- MODULE SourceWalk -----------------------------
(***************************************************************************)
(* parse and parse_with_dsl, followed down one path of a syntax tree.  The *)
(* walks of a file are recursive descents that hand a few facts from a node*)
(* to its children: the symbol walk the name of the enclosing type, the    *)
(* call walk the function a call is charged to, the import walk nothing,   *)
(* and the walk of the declarative engine all of these.  What a walk does  *)
(* at a node depends on the node and on those facts only, so one path is   *)
(* enough, and a path of any length has finitely many of them.             *)
(*                                                                         *)
(* A child is any kind the rules of its language name, or "other".  This   *)
(* is more than the grammars produce: a property that holds here holds for *)
(* every file.  The order of siblings is left out (no walk depends on it); *)
(* so are signatures, metadata, aliases, expression chains and rationales. *)
(***************************************************************************)
EXTENDS SourceRules

VARIABLES
    lang,         \* the language of the file
    node,         \* the node the walks have come to: its kind, and whether it has a name, a body
    symbolWalk,   \* how the symbol walk comes to it, under a type or not, and what stopped it
    callWalk,     \* how the call walk comes to it, and whom it would charge: a function that
                  \* is a symbol, a function that is none, or nobody
    importWalk,   \* whether the import walk comes to it
    dslWalk,      \* whether the declarative engine comes to it, under a type, in a function
    path          \* what the path went through, for the properties only

walkVars == <<lang, node, symbolWalk, callWalk, importWalk, dslWalk, path>>

HasRules == lang \in DOMAIN rules_for

\* The kinds of nodes that some rule of the language tells from the others.
NodeKinds(l) ==
    {"other"} \cup DOMAIN Symbols[l] \cup DOMAIN Listed[l]
    \cup Calls[l].scopes \cup Calls[l].calls \cup Calls[l].ends
    \cup Imports[l].reads \cup Imports[l].ends
    \cup IF l \in DOMAIN rules_for
         THEN DOMAIN rules_for[l].symbols \cup rules_for[l].calls \cup rules_for[l].reads
         ELSE {}

\* The rule a table has for a kind.
RuleIn(rules, k) == IF k \in DOMAIN rules THEN rules[k] ELSE Plain

-----------------------------------------------------------------------------
(* What a rule makes of the children of a node. *)

\* Its body is the only child that is entered.
OpensOnlyBody(rule, n) == rule.into \in {"body", "members"} /\ n.named /\ n.bodied

\* A child gets the node as its parent.
GivesParent(rule, n, isBody) ==
    /\ n.named
    /\ \/ OpensOnlyBody(rule, n) /\ isBody
       \/ rule.into = "members" /\ ~n.bodied
       \/ rule.into = "whole"

-----------------------------------------------------------------------------
(* What the properties tell apart of the declarations that stop a walk. *)

\* Declarations of values, which keep the symbol walk from what their values contain.
ValueDeclarations ==
    {"lexical_declaration", "variable_declaration", "variable_declarator",
     "variable_declarator:function", "variable_declarator:require", "const_declaration", "var_declaration", "field_declaration", "constant_declaration",
     "assignment", "property_declaration", "local_variable_declaration", "assignment_statement"}

\* Other declarations the symbol walk does not go below: types of Go, templates of C++ and
\* what they declare, definitions of Elixir.
OtherSealed == {"type_declaration", "template_declaration", "call:def", "call:defstruct"}

\* The heads of types: what stands beside a body.
TypeHeads ==
    {k \in DOMAIN Symbols[lang] \cup DOMAIN Listed[lang] :
        \E rules \in {Symbols[lang], Listed[lang]} : RuleIn(rules, k).into \in {"body", "members"}}

\* Functions without a body of their own: macros, signatures, prototypes.
Bodiless ==
    {"macro_definition", "function_signature_item", "protocol_function_declaration",
     "declaration:function", "declaration"}

Stopping(kind) ==
    CASE kind \in ValueDeclarations -> "value"
      [] kind \in OtherSealed \cup TypeHeads -> "type"
      [] lang = "cpp" /\ kind \in DOMAIN CppListed -> "declarator"
      [] OTHER -> "other"

-----------------------------------------------------------------------------
(* The symbol walk: extract_*_symbols. *)

SymbolRule ==
    CASE symbolWalk.reach = "walked"  -> RuleIn(Symbols[lang], node.kind)
      [] symbolWalk.reach = "listed"  -> RuleIn(Listed[lang], node.kind)
      [] symbolWalk.reach = "skipped" -> Plain

\* Ruby keeps assignments to constants, outside of classes and modules.
Recorded ==
    /\ SymbolRule.as # "None" /\ node.named
    /\ lang = "ruby" /\ node.kind = "assignment" => ~symbolWalk.parent

RecordedFunction == Recorded /\ SymbolRule.as = "Function"

SymbolReach(child, isBody) ==
    CASE symbolWalk.reach = "skipped" -> "skipped"
      [] OpensOnlyBody(SymbolRule, node) -> IF isBody THEN "walked" ELSE "skipped"
      [] SymbolRule.into = "list" -> IF child.kind \in DOMAIN Listed[lang] THEN "listed" ELSE "skipped"
      [] symbolWalk.reach = "listed" \/ SymbolRule.into = "nothing" -> "skipped"
      [] OTHER -> "walked"

SymbolStep(child, isBody) ==
    [reach   |-> SymbolReach(child, isBody),
     parent  |-> symbolWalk.parent \/ GivesParent(SymbolRule, node, isBody),
     stopped |-> IF symbolWalk.reach # "skipped" /\ SymbolReach(child, isBody) = "skipped"
                 THEN Stopping(node.kind) ELSE symbolWalk.stopped]

-----------------------------------------------------------------------------
(* The call walk: extract_*_calls. *)

IsScope == callWalk.reach = "walked" /\ node.kind \in Calls[lang].scopes /\ node.named

Caller ==
    IF IsScope THEN IF RecordedFunction THEN "symbol" ELSE "stranger" ELSE callWalk.caller

IsCall == node.kind \in Calls[lang].calls

Charged == IsCall /\ callWalk.reach # "skipped" /\ Caller # "nobody"

\* A statement that ends the walk has looked at its children: they are "listed".
CallStep ==
    LET ends == node.kind \in Calls[lang].ends
    IN  [reach   |-> IF callWalk.reach # "walked" THEN "skipped"
                     ELSE IF ends THEN "listed" ELSE "walked",
         caller  |-> Caller,
         stopped |-> IF callWalk.reach = "walked" /\ ends THEN node.kind ELSE callWalk.stopped]

-----------------------------------------------------------------------------
(* The import walk: extract_*_imports. *)

ImportRead == importWalk /\ node.kind \in Imports[lang].reads

ImportStep == importWalk /\ node.kind \notin Imports[lang].ends

-----------------------------------------------------------------------------
(* The walk of the declarative engine: walk_node. *)

DslRule == IF dslWalk.reached THEN RuleIn(rules_for[lang].symbols, node.kind) ELSE Plain

\* The name field of a C function is its declarator, which every one has.
DslNode ==
    [node EXCEPT !.named = @ \/ (lang \in {"c", "cpp"} /\ node.kind = "function_definition")]

DslRecorded == DslRule.as # "None" /\ DslNode.named

DslCaller == dslWalk.caller \/ (DslRecorded /\ DslRule.as = "Function")

DslCharged == dslWalk.reached /\ node.kind \in rules_for[lang].calls /\ DslCaller

DslRead == dslWalk.reached /\ node.kind \in rules_for[lang].reads

DslStep(isBody) ==
    [reached |-> dslWalk.reached /\ (OpensOnlyBody(DslRule, DslNode) => isBody),
     parent  |-> dslWalk.parent \/ GivesParent(DslRule, DslNode, isBody),
     caller  |-> DslCaller]

-----------------------------------------------------------------------------
(* History. *)

\* The innermost function recorded on the path: "charged" when the call walk took it, or
\* one inside it, for the caller; "bodiless" or "lost" when it did not.
Innermost ==
    IF IsScope THEN "charged"
    ELSE IF RecordedFunction THEN IF node.kind \in Bodiless THEN "bodiless" ELSE "lost"
    ELSE path.innermost

\* Two walks hand the same fact on: both the one of this node, or both an older one they shared.
Alike(one, other, before) == IF one \/ other THEN one /\ other ELSE before

SameCaller == Alike(IsScope, DslRecorded /\ DslRule.as = "Function", path.sameCaller)

\* The path goes into the head of a type, or into a type without a body.
Strays(isBody) ==
    DslRule.into = "members" /\ DslNode.named /\ ~(DslNode.bodied /\ isBody)

PathStep(isBody) ==
    [innermost  |-> Innermost,
     sameCaller |-> SameCaller,
     sameParent |-> Alike(GivesParent(SymbolRule, node, isBody),
                          GivesParent(DslRule, DslNode, isBody), path.sameParent),
     strayed    |-> path.strayed \/ Strays(isBody)]

-----------------------------------------------------------------------------

\* A body and a name are told apart where a rule asks for them.
Nodes ==
    [l \in Languages |->
        LET rules(k)  == {RuleIn(Symbols[l], k), RuleIn(Listed[l], k),
                          IF l \in DOMAIN rules_for THEN RuleIn(rules_for[l].symbols, k) ELSE Plain}
            nameless(k) == k \notin {"companion_object", "class_declaration:extension"}
                           /\ (rules(k) # {Plain} \/ k \in Calls[l].scopes)
            opens(k)  == \E r \in rules(k) : r.into \in {"body", "members"}
        IN  {n \in [kind : NodeKinds(l), named : BOOLEAN, bodied : BOOLEAN] :
                 (~n.named => nameless(n.kind)) /\ (n.bodied => opens(n.kind))}]

\* A declarator, and nothing else a table of its own lists, occurs in a declaration.
Fits(child) ==
    child.kind \in DOMAIN Listed[lang] \ DOMAIN Symbols[lang]
        => RuleIn(Symbols[lang], node.kind).into = "list"

WalkInit ==
    /\ lang \in Languages
    /\ node = [kind |-> "other", named |-> TRUE, bodied |-> FALSE]
    /\ symbolWalk = [reach |-> "walked", parent |-> FALSE, stopped |-> "nothing"]
    /\ callWalk = [reach |-> "walked", caller |-> "nobody", stopped |-> "nothing"]
    /\ importWalk = TRUE
    /\ dslWalk = [reached |-> HasRules, parent |-> FALSE, caller |-> FALSE]
    /\ path = [innermost |-> "none", sameCaller |-> TRUE, sameParent |-> TRUE,
               strayed |-> FALSE]

\* The walks go on to a child, which is the node's body or another one.
Descend(child, isBody) ==
    /\ Fits(child)
    /\ isBody => node.bodied /\ child.kind = "other"
    /\ node' = child
    /\ symbolWalk' = SymbolStep(child, isBody)
    /\ callWalk' = CallStep
    /\ importWalk' = ImportStep
    /\ dslWalk' = DslStep(isBody)
    /\ path' = PathStep(isBody)
    /\ UNCHANGED lang

WalkNext == \E child \in Nodes[lang], isBody \in BOOLEAN : Descend(child, isBody)

WalkSpec == WalkInit /\ [][WalkNext]_walkVars
-----------------------------------------------------------------------------
(* Properties.  The exceptions are what the code does: the kinds that stop *)
(* the symbol walk and not the call walk, and those that are functions to  *)
(* one of the two only.                                                    *)

\* A call is charged to a function that is a symbol, so that the edge has an end to attach to:
\* the call walk, a descent of its own, takes nothing for a function that the symbol walk did
\* not record, except below the declarations it was stopped by and for a function of
\* Objective-C that returns a pointer.
CallersAreSymbols ==
    Charged /\ Caller = "stranger" =>
        \/ symbolWalk.stopped \in {"value", "type", "declarator"}
        \/ lang = "objc" /\ symbolWalk.stopped = "nothing"

\* A call in a function that is a symbol is charged, and to that function or to one inside it:
\* no edge is lost, and none goes to an outer function.  Go's go and defer lose what is deeper
\* than the call they name.
CallsAreCharged ==
    IsCall /\ Innermost # "none" =>
        \/ Charged /\ Innermost = "charged"
        \/ Innermost = "bodiless"
        \/ callWalk.stopped \in {"go_statement", "defer_statement"}

\* For Python the engine finds what the hand-written walks find: the same symbols of the same
\* kind under the same type, the same calls charged to the same function, the same imports.
\* They part in the head of a class (the engine does not look there) and in a class without
\* a body (the engine takes what follows for members).
DslMatchesHandCoded ==
    lang = "python" /\ ~path.strayed =>
        /\ DslRecorded = Recorded
        /\ Recorded => DslRule.as = SymbolRule.as /\ path.sameParent
        /\ DslCharged = Charged
        /\ Charged => SameCaller
        /\ DslRead = ImportRead

\* For no language does the engine move a call to another function or make up one: a call it
\* charges is charged by the call walk, to the same function.  They part where the call walk
\* stops (go and defer), below a function bound to a name (which the engine knows nothing of),
\* in C, whose functions the two name differently, in Swift, where the engine takes the
\* requirement of a protocol for a function, and in PowerShell, where it knows one of two kinds.
DslChargesTheSame ==
    HasRules /\ DslCharged =>
        \/ Charged /\ SameCaller
        \/ callWalk.stopped \in {"go_statement", "defer_statement"}
        \/ lang = "typescript" /\ symbolWalk.stopped = "value"
        \/ lang \in {"c", "cpp", "swift", "powershell"}
=============================================================================
