----------------------------- MODULE SourceRules -----------------------------
(***************************************************************************)
(* What the parser does at a node of a syntax tree, language by language.  *)
(* parse walks a tree three times: for symbols, for calls and for imports. *)
(* A rule of the symbol walk says what a node of a kind is recorded as and *)
(* where the walk goes from there:                                         *)
(*                                                                         *)
(*   "children"  into every child, with the parent it came with;           *)
(*   "body"      into the body only, with the node as the parent (a node   *)
(*               without a name or a body is treated like "children");     *)
(*   "members"   the same, but a node without a body gives all its         *)
(*               children the node as the parent;                          *)
(*   "whole"     into every child with the node as the parent;             *)
(*   "list"      nowhere: the rule of the node picks children by the table *)
(*               Listed and does with each what that table says;           *)
(*   "nothing"   nowhere.                                                  *)
(*                                                                         *)
(* Node kinds are those of the grammars; what the code asks of a node      *)
(* beyond its kind (the keyword of a call in Elixir, whether a declarator  *)
(* declares a function) follows a colon.  Function stands for the kinds    *)
(* Function and Method, which the surrounding type decides.                *)
(***************************************************************************)
EXTENDS TLC

\* The shapes of a rule, which the tables of all languages share; the walk a rule is read
\* from is that of its language.
Symbol(what)    == [as |-> what, into |-> "children"]
Container(what) == [as |-> what, into |-> "body"]
Members(what)   == [as |-> what, into |-> "members"]
Whole(what)     == [as |-> what, into |-> "whole"]
Sealed(what)    == [as |-> what, into |-> "nothing"]
Lends           == [as |-> "None", into |-> "body"]
Lists           == [as |-> "None", into |-> "list"]
Plain           == [as |-> "None", into |-> "children"]

On(kinds, rule) == [k \in kinds |-> rule]

-----------------------------------------------------------------------------
(* Symbols. *)

TypeScriptSymbols ==
    On({"function_declaration", "method_definition"}, Symbol("Function"))
    @@ On({"class_declaration"}, Container("Class"))
    @@ On({"interface_declaration"}, Symbol("Interface"))
    @@ On({"type_alias_declaration"}, Symbol("TypeAlias"))
    @@ On({"enum_declaration"}, Symbol("Enum"))
    @@ On({"lexical_declaration", "variable_declaration"}, Lists)
TypeScriptListed ==
    On({"variable_declarator:function"}, Sealed("Function"))
    @@ On({"variable_declarator", "variable_declarator:require"}, Sealed("Variable"))

PythonSymbols ==
    On({"function_definition"}, Symbol("Function")) @@ On({"class_definition"}, Container("Class"))

GoSymbols ==
    On({"function_declaration", "method_declaration"}, Symbol("Function"))
    @@ On({"type_declaration"}, Sealed("Class"))
    @@ On({"const_declaration"}, Sealed("Constant"))
    @@ On({"var_declaration"}, Sealed("Variable"))

RustSymbols ==
    On({"function_item", "function_signature_item", "macro_definition"}, Symbol("Function"))
    @@ On({"struct_item"}, Symbol("Class"))
    @@ On({"enum_item"}, Symbol("Enum"))
    @@ On({"trait_item"}, Container("Interface"))
    @@ On({"impl_item"}, Lends)
    @@ On({"mod_item", "mod_item:file"}, Symbol("Module"))
    @@ On({"const_item"}, Symbol("Constant"))
    @@ On({"static_item"}, Symbol("Variable"))
    @@ On({"type_item"}, Symbol("TypeAlias"))

JavaSymbols ==
    On({"class_declaration", "record_declaration"}, Container("Class"))
    @@ On({"interface_declaration"}, Container("Interface"))
    @@ On({"enum_declaration"}, Container("Enum"))
    @@ On({"annotation_type_declaration"}, Symbol("Interface"))
    @@ On({"method_declaration", "constructor_declaration"}, Symbol("Function"))
    @@ On({"field_declaration"}, Sealed("Variable"))
    @@ On({"constant_declaration"}, Sealed("Constant"))

CSharpSymbols ==
    On({"class_declaration", "struct_declaration", "record_declaration"}, Container("Class"))
    @@ On({"interface_declaration"}, Container("Interface"))
    @@ On({"enum_declaration"}, Symbol("Enum"))
    @@ On({"method_declaration", "constructor_declaration"}, Symbol("Function"))
    @@ On({"property_declaration"}, Symbol("Variable"))
    @@ On({"namespace_declaration", "file_scoped_namespace_declaration"}, Symbol("Module"))
    @@ On({"delegate_declaration"}, Symbol("TypeAlias"))

\* A struct, union or enum is a definition when it has a body.
CSymbols ==
    On({"function_definition", "declaration:function"}, Symbol("Function"))
    @@ On({"struct_specifier:defined", "union_specifier:defined"}, Symbol("Class"))
    @@ On({"enum_specifier:defined"}, Symbol("Enum"))
    @@ On({"type_definition"}, Symbol("TypeAlias"))
    @@ On({"preproc_def", "preproc_function_def"}, Symbol("Constant"))

CppSymbols ==
    On({"function_definition", "declaration:function"}, Symbol("Function"))
    @@ On({"class_specifier", "struct_specifier"}, Container("Class"))
    @@ On({"enum_specifier"}, Symbol("Enum"))
    @@ On({"namespace_definition"}, Symbol("Module"))
    @@ On({"template_declaration"}, Lists)
    @@ On({"type_definition", "alias_declaration"}, Symbol("TypeAlias"))
CppListed ==
    On({"function_definition", "declaration:function"}, Sealed("Function"))
    @@ On({"class_specifier", "struct_specifier"}, Container("Class"))

RubySymbols ==
    On({"class"}, Container("Class"))
    @@ On({"module"}, Container("Module"))
    @@ On({"method", "singleton_method"}, Symbol("Function"))
    @@ On({"assignment"}, Sealed("Constant"))

\* A companion object lends the name of its class, or its own.
KotlinSymbols ==
    On({"class_declaration", "object_declaration"}, Container("Class"))
    @@ On({"companion_object"}, Lends)
    @@ On({"function_declaration"}, Symbol("Function"))
    @@ On({"property_declaration"}, Sealed("Variable"))
    @@ On({"enum_entry"}, Symbol("Enum"))

\* One node kind for class, struct, enum and extension (and actor, which no arm names).
SwiftSymbols ==
    On({"class_declaration:class"}, Container("Class"))
    @@ On({"class_declaration:enum"}, Container("Enum"))
    @@ On({"class_declaration:extension"}, Lends)
    @@ On({"protocol_declaration"}, Container("Interface"))
    @@ On({"function_declaration", "protocol_function_declaration"}, Symbol("Function"))
    @@ On({"property_declaration"}, Sealed("Variable"))
    @@ On({"typealias_declaration"}, Symbol("TypeAlias"))

PhpSymbols ==
    On({"class_declaration"}, Container("Class"))
    @@ On({"interface_declaration", "trait_declaration"}, Container("Interface"))
    @@ On({"enum_declaration"}, Container("Enum"))
    @@ On({"function_definition", "method_declaration"}, Symbol("Function"))
    @@ On({"property_declaration"}, Sealed("Variable"))
    @@ On({"namespace_definition"}, Container("Module"))
    @@ On({"const_declaration"}, Sealed("Constant"))

LuaSymbols ==
    On({"function_declaration", "local_function", "function_definition_statement"},
       Symbol("Function"))
    @@ On({"local_variable_declaration", "assignment_statement"}, Sealed("Variable"))

ZigSymbols ==
    On({"FnProto", "fn_declaration"}, Symbol("Function"))
    @@ On({"ContainerDecl", "struct_declaration"}, Whole("Class"))
    @@ On({"VarDecl", "variable_declaration", "VarDecl:import"}, Symbol("Variable"))

PowerShellSymbols ==
    On({"function_statement", "function_definition"}, Symbol("Function"))
    @@ On({"class_statement", "class_definition"}, Container("Class"))
    @@ On({"enum_statement", "enum_definition"}, Symbol("Enum"))

\* A declarator that is not itself a function declarator (of a function that returns a pointer)
\* is not taken for a function.
ObjectiveCSymbols ==
    On({"class_interface", "interface_declaration", "class_implementation",
        "implementation_definition"}, Members("Class"))
    @@ On({"protocol_declaration"}, Members("Interface"))
    @@ On({"method_declaration", "method_definition"}, Symbol("Function"))
    @@ On({"function_definition", "declaration:function"}, Symbol("Function"))

\* Definitions are calls; the keyword is the text of their first child.
ElixirSymbols ==
    On({"call:defmodule"}, Whole("Module"))
    @@ On({"call:def"}, Sealed("Function"))
    @@ On({"call:defstruct"}, Sealed("Class"))

ScalaSymbols ==
    On({"class_definition"}, Container("Class"))
    @@ On({"object_definition"}, Container("Module"))
    @@ On({"trait_definition"}, Container("Interface"))
    @@ On({"function_definition"}, Symbol("Function"))
    @@ On({"val_definition", "var_definition"}, Symbol("Variable"))

DartSymbols ==
    On({"class_definition"}, Container("Class"))
    @@ On({"mixin_declaration"}, Container("Interface"))
    @@ On({"extension_declaration"}, Container("Module"))
    @@ On({"enum_declaration"}, Container("Enum"))
    @@ On({"function_signature", "method_signature", "declaration", "function_declaration"},
          Symbol("Function"))

-----------------------------------------------------------------------------
(* Calls: the kinds that make their name the caller, the kinds that are    *)
(* calls, and the kinds below which the walk stops after it has looked at  *)
(* their children.                                                         *)

CallRules(scopes, calls, ends) == [scopes |-> scopes, calls |-> calls, ends |-> ends]

\* The symbol walk also takes a value of the kind "function" for a function, this walk does
\* not: the grammar that is compiled in (0.23) calls it function_expression.
TypeScriptCalls ==
    CallRules({"function_declaration", "method_definition", "variable_declarator:function"},
              {"call_expression"}, {})
PythonCalls == CallRules({"function_definition"}, {"call"}, {})
GoCalls ==
    CallRules({"function_declaration", "method_declaration"}, {"call_expression"},
              {"go_statement", "defer_statement"})
RustCalls == CallRules({"function_item"}, {"call_expression", "macro_invocation"}, {})
JavaCalls ==
    CallRules({"method_declaration", "constructor_declaration"},
              {"method_invocation", "object_creation_expression",
               "explicit_constructor_invocation"}, {})
\* Mutant of CSharpCalls: constructors are not callers.
CSharpCallsMethodsOnly ==
    CallRules({"method_declaration"},
              {"invocation_expression", "object_creation_expression"}, {})
CSharpCalls ==
    CallRules({"method_declaration", "constructor_declaration"},
              {"invocation_expression", "object_creation_expression"}, {})
CCalls == CallRules({"function_definition"}, {"call_expression"}, {})
CppCalls == CallRules({"function_definition"}, {"call_expression", "new_expression"}, {})
RubyCalls ==
    CallRules({"method", "singleton_method"}, {"call", "method_call", "super", "yield"}, {})
KotlinCalls == CallRules({"function_declaration"}, {"call_expression"}, {})
SwiftCalls == CallRules({"function_declaration"}, {"call_expression"}, {})
PhpCalls ==
    CallRules({"function_definition", "method_declaration"},
              {"function_call_expression", "member_call_expression", "scoped_call_expression",
               "object_creation_expression"}, {})
LuaCalls ==
    CallRules({"function_declaration", "local_function", "function_definition_statement"},
              {"function_call", "function_call:require"}, {})
ZigCalls ==
    CallRules({"FnProto", "fn_declaration"},
              {"call_expression", "FnCallExpr", "builtin_call_expr", "builtin_call_expr:import"}, {})
PowerShellCalls ==
    CallRules({"function_statement", "function_definition"},
              {"command_expression", "command", "command:import",
               "command_invocation_expression", "invocation_expression"}, {})
\* Unlike the symbol walk, this one also names a function whose declarator is a pointer.
ObjectiveCCalls ==
    CallRules({"method_declaration", "method_definition", "function_definition",
               "function_definition:pointer"},
              {"message_expression", "message_send", "call_expression"}, {})
ElixirCalls == CallRules({"call:def"}, {"call:other"}, {})
ScalaCalls == CallRules({"function_definition"}, {"call_expression"}, {})
DartCalls ==
    CallRules({"function_signature", "method_signature", "function_declaration"},
              {"identifier:invoked"}, {})

-----------------------------------------------------------------------------
(* Imports: the kinds an import is read from, and the kinds below which    *)
(* the walk stops.                                                         *)

ImportRules(reads, ends) == [reads |-> reads, ends |-> ends]

TypeScriptImports == ImportRules({"import_statement", "variable_declarator:require"}, {})
PythonImports == ImportRules({"import_statement", "import_from_statement"}, {})
GoImports == ImportRules({"import_declaration"}, {"import_declaration"})
\* A module without a body is a file; its kind continues to be walked.
RustImports ==
    ImportRules({"use_declaration", "extern_crate_declaration", "mod_item:file"},
                {"use_declaration", "extern_crate_declaration"})
JavaImports == LET both == {"import_declaration", "package_declaration"} IN ImportRules(both, both)
CSharpImports == ImportRules({"using_directive"}, {})
CImports == ImportRules({"preproc_include"}, {})
CppImports == ImportRules({"preproc_include", "using_declaration"}, {})
RubyImports == ImportRules({"call", "method_call"}, {})
KotlinImports == LET both == {"import", "package_header"} IN ImportRules(both, both)
SwiftImports == ImportRules({"import_declaration"}, {"import_declaration"})
PhpImports ==
    ImportRules({"namespace_use_declaration", "namespace_definition", "expression_statement"},
                {"namespace_use_declaration", "expression_statement"})
LuaImports == ImportRules({"function_call:require"}, {"function_call:require"})
ZigImports ==
    LET both == {"VarDecl:import", "builtin_call_expr:import"} IN ImportRules(both, both)
PowerShellImports ==
    LET all == {"import_statement", "using_statement", "command:import"} IN ImportRules(all, all)
ObjectiveCImports ==
    LET both == {"preproc_import", "preproc_include"} IN ImportRules(both, both)
ElixirImports == ImportRules({"call:use"}, {"call:use"})
ScalaImports == ImportRules({"import_declaration"}, {"import_declaration"})
DartImports ==
    LET all == {"import_or_export", "import_specification", "library_import"}
    IN  ImportRules(all, all)

-----------------------------------------------------------------------------
(* The declarative engine: one walk for symbols, calls and imports.  Its   *)
(* scope rules have the shape of the rules above; a scope without a body   *)
(* is "members".  What is recorded as a function becomes the caller.       *)

DslRules(symbols, calls, reads) == [symbols |-> symbols, calls |-> calls, reads |-> reads]

\* Mutant of python_rules: creates_scope is not set for classes.
python_rules_flat ==
    DslRules(On({"function_definition"}, Symbol("Function"))
             @@ On({"class_definition"}, Symbol("Class")),
             {"call"}, {"import_statement", "import_from_statement"})
python_rules ==
    DslRules(On({"function_definition"}, Symbol("Function"))
             @@ On({"class_definition"}, Members("Class")),
             {"call"}, {"import_statement", "import_from_statement"})
go_rules ==
    DslRules(On({"function_declaration", "method_declaration"}, Symbol("Function")),
             {"call_expression"}, {"import_declaration"})
typescript_rules ==
    DslRules(On({"function_declaration", "method_definition"}, Symbol("Function"))
             @@ On({"class_declaration"}, Members("Class"))
             @@ On({"interface_declaration"}, Symbol("Interface"))
             @@ On({"type_alias_declaration"}, Symbol("TypeAlias"))
             @@ On({"enum_declaration"}, Symbol("Enum")),
             {"call_expression"}, {})
rust_rules ==
    DslRules(On({"function_item"}, Symbol("Function"))
             @@ On({"struct_item"}, Symbol("Class"))
             @@ On({"enum_item"}, Symbol("Enum"))
             @@ On({"trait_item"}, Members("Interface"))
             @@ On({"impl_item"}, Members("Class"))
             @@ On({"mod_item", "mod_item:file"}, Symbol("Module"))
             @@ On({"const_item"}, Symbol("Constant"))
             @@ On({"type_item"}, Symbol("TypeAlias")),
             {"call_expression"}, {})
java_rules ==
    DslRules(On({"class_declaration"}, Members("Class"))
             @@ On({"interface_declaration"}, Members("Interface"))
             @@ On({"enum_declaration"}, Members("Enum"))
             @@ On({"method_declaration", "constructor_declaration"}, Symbol("Function")),
             {"method_invocation"}, {})
csharp_rules ==
    DslRules(On({"class_declaration", "struct_declaration", "record_declaration"},
                Members("Class"))
             @@ On({"interface_declaration"}, Members("Interface"))
             @@ On({"enum_declaration"}, Symbol("Enum"))
             @@ On({"method_declaration", "constructor_declaration"}, Symbol("Function"))
             @@ On({"namespace_declaration"}, Symbol("Module")),
             {"invocation_expression"}, {})
\* The name is the text of the whole declarator, and a struct is one with or without a body.
c_rules ==
    DslRules(On({"function_definition"}, Symbol("Function"))
             @@ On({"struct_specifier", "struct_specifier:defined"}, Symbol("Class"))
             @@ On({"enum_specifier", "enum_specifier:defined"}, Symbol("Enum")),
             {"call_expression"}, {})
cpp_rules ==
    DslRules(On({"function_definition"}, Symbol("Function"))
             @@ On({"class_specifier", "struct_specifier"}, Members("Class"))
             @@ On({"enum_specifier"}, Symbol("Enum"))
             @@ On({"namespace_definition"}, Symbol("Module")),
             {"call_expression"}, {})
ruby_rules ==
    DslRules(On({"class"}, Members("Class"))
             @@ On({"module"}, Members("Module"))
             @@ On({"method", "singleton_method"}, Symbol("Function")),
             {"call", "method_call"}, {})
kotlin_rules ==
    DslRules(On({"class_declaration", "object_declaration"}, Members("Class"))
             @@ On({"function_declaration"}, Symbol("Function")),
             {"call_expression"}, {})
swift_rules ==
    DslRules(On({"class_declaration:class", "class_declaration:enum",
                 "class_declaration:extension"}, Members("Class"))
             @@ On({"protocol_declaration"}, Members("Interface"))
             @@ On({"function_declaration", "protocol_function_declaration"}, Symbol("Function"))
             @@ On({"typealias_declaration"}, Symbol("TypeAlias")),
             {"call_expression"}, {})
\* Of the three kinds of calls it names, one has the field it reads the callee from.
php_rules ==
    DslRules(On({"class_declaration"}, Members("Class"))
             @@ On({"interface_declaration", "trait_declaration"}, Members("Interface"))
             @@ On({"enum_declaration"}, Symbol("Enum"))
             @@ On({"function_definition", "method_declaration"}, Symbol("Function"))
             @@ On({"namespace_definition"}, Symbol("Module")),
             {"function_call_expression"}, {})
powershell_rules ==
    DslRules(On({"function_statement"}, Symbol("Function"))
             @@ On({"class_statement"}, Members("Class"))
             @@ On({"enum_statement"}, Symbol("Enum")),
             {"command_expression", "invocation_expression"}, {})
scala_rules ==
    DslRules(On({"class_definition"}, Members("Class"))
             @@ On({"object_definition"}, Members("Module"))
             @@ On({"trait_definition"}, Members("Interface"))
             @@ On({"function_definition"}, Symbol("Function")),
             {"call_expression"}, {})
dart_rules ==
    DslRules(On({"class_definition"}, Members("Class"))
             @@ On({"mixin_declaration"}, Members("Interface"))
             @@ On({"enum_declaration"}, Symbol("Enum"))
             @@ On({"function_signature", "method_signature"}, Symbol("Function")),
             {}, {})

-----------------------------------------------------------------------------
(* Which rules parse applies to a language, and parse_with_dsl, which      *)
(* falls back on parse where there are no rules.                           *)

NoRules == [k \in {} |-> Plain]

Symbols ==
    [typescript |-> TypeScriptSymbols, python |-> PythonSymbols, go |-> GoSymbols,
     rust |-> RustSymbols, java |-> JavaSymbols,
     csharp |-> CSharpSymbols, c |-> CSymbols, cpp |-> CppSymbols, ruby |-> RubySymbols,
     kotlin |-> KotlinSymbols, swift |-> SwiftSymbols, php |-> PhpSymbols, lua |-> LuaSymbols,
     zig |-> ZigSymbols, powershell |-> PowerShellSymbols, objc |-> ObjectiveCSymbols,
     elixir |-> ElixirSymbols, scala |-> ScalaSymbols, dart |-> DartSymbols]

Languages == DOMAIN Symbols

Listed ==
    [l \in Languages |-> CASE l = "typescript" -> TypeScriptListed
                           [] l = "cpp" -> CppListed
                           [] OTHER -> NoRules]

Calls ==
    [typescript |-> TypeScriptCalls, python |-> PythonCalls, go |-> GoCalls, rust |-> RustCalls,
     java |-> JavaCalls, csharp |-> CSharpCalls, c |-> CCalls, cpp |-> CppCalls,
     ruby |-> RubyCalls, kotlin |-> KotlinCalls, swift |-> SwiftCalls, php |-> PhpCalls,
     lua |-> LuaCalls, zig |-> ZigCalls, powershell |-> PowerShellCalls,
     objc |-> ObjectiveCCalls, elixir |-> ElixirCalls, scala |-> ScalaCalls, dart |-> DartCalls]

Imports ==
    [typescript |-> TypeScriptImports, python |-> PythonImports, go |-> GoImports,
     rust |-> RustImports, java |-> JavaImports, csharp |-> CSharpImports, c |-> CImports,
     cpp |-> CppImports, ruby |-> RubyImports, kotlin |-> KotlinImports,
     swift |-> SwiftImports, php |-> PhpImports, lua |-> LuaImports, zig |-> ZigImports,
     powershell |-> PowerShellImports, objc |-> ObjectiveCImports, elixir |-> ElixirImports,
     scala |-> ScalaImports, dart |-> DartImports]

rules_for ==
    [python |-> python_rules, go |-> go_rules, typescript |-> typescript_rules,
     rust |-> rust_rules, java |-> java_rules, csharp |-> csharp_rules, c |-> c_rules,
     cpp |-> cpp_rules, ruby |-> ruby_rules, kotlin |-> kotlin_rules, swift |-> swift_rules,
     php |-> php_rules, powershell |-> powershell_rules, scala |-> scala_rules,
     dart |-> dart_rules]

=============================================================================
