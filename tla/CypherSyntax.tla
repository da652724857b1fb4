----------------------------- MODULE CypherSyntax -----------------------------
(***************************************************************************)
(* The tokens and the syntax tree of myceliums-cypher, which the parser    *)
(* builds and the executor walks.  Every kind of expression has fields of  *)
(* its own.                                                                *)
(***************************************************************************)

Token(t)  == [t |-> t, v |-> ""]
Word(n)   == [t |-> "ident", v |-> n]
Quoted(s) == [t |-> "string", v |-> s]
Number(n) == [t |-> "int", v |-> n]

AggregationFunc == {"count", "sum", "avg", "min", "max", "collect"}
BinOps          == {"=", "<>", "!=", "<", ">", "<=", ">="}
PathFunctions   == {"shortestpath", "allpaths", "anypath"}
Blocked         == {"CREATE", "DELETE", "SET", "MERGE", "DROP", "ALTER"}

\* Expressions.
Ident(n)           == [ident |-> n]
Property(n, p)     == [of |-> n, property |-> p]
Lit(tok)           == [lit |-> tok]
Binary(op, l, r)   == [op |-> op, left |-> l, right |-> r]
Unary(op, e)       == [op |-> op, arg |-> e]
FunctionCall(f, a) == [call |-> f, args |-> a]
Aggregation(f, e)  == [aggregate |-> f, over |-> e]

Absent == "none"
NodePattern(var, label)          == [var |-> var, label |-> label]
Relationship(a, var, type, d, b) == [start |-> a, var |-> var, type |-> type, dir |-> d, end |-> b]
PathBinding(var, f, a, b, depth) == [var |-> var, fn |-> f, start |-> a, end |-> b, depth |-> depth]
=============================================================================
