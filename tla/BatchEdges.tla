----------------------------- MODULE BatchEdges -----------------------------
(***************************************************************************)
(* The edges that a run draws between the symbols of the files it read:    *)
(* calls, resolved by name with the aliases and the module graph; members  *)
(* and their parents; comments and what they are about; and the            *)
(* conversations of mails.  A full run keeps code and notebooks apart, has *)
(* the aliases of variables and the module graph; an incremental run has   *)
(* neither.                                                                *)
(*                                                                         *)
(* Names, module paths and file paths are sequences of words, dots,        *)
(* slashes and colons; <<>> is no name.                                    *)
(***************************************************************************)
EXTENDS Naturals, Sequences, FiniteSets, SequencesExt

CONSTANTS
    Parsed,         \* bound: files that may be read, as the parser returns them
    MaxFiles,       \* bound: files of a batch
    MessageIds, NoId,
    MaxMails        \* bound: mails of a batch

VARIABLES
    files,          \* sequence of parsed files, in the order of discover_files
    mails           \* sequence of mails, in that order

batchVars == <<files, mails>>

Runs == {"full", "batch"}
None == <<>>

\* Where a name was bound: name stands for what, taken from module (None: a variable).
Import(name, what, module) == [name |-> name, what |-> what, module |-> module]

-----------------------------------------------------------------------------
(* The symbols of a batch. *)

Code(fs)      == SelectSeq(fs, LAMBDA f : ~f.notebook)
Notebooks(fs) == SelectSeq(fs, LAMBDA f : f.notebook)

\* analyze: notebooks after everything else; analyze_files: in the order given.
Order(run) == IF run = "full" THEN Code(files) \o Notebooks(files) ELSE files

\* to_code_symbols: the enclosing symbol's own name, a dot and the name.
Qualified(f, k) ==
    LET s == f.syms[k]
    IN  IF s.in = 0 THEN s.name ELSE f.syms[s.in].name \o <<".">> \o s.name

Row(f, k)  == [uid |-> <<f.path, k>>, file |-> f.path, name |-> f.syms[k].name,
               qual |-> Qualified(f, k), line |-> f.syms[k].line]
RowsOf(fs) == FlattenSeq([i \in DOMAIN fs |-> [k \in DOMAIN fs[i].syms |-> Row(fs[i], k)]])

LastUid(rows) == IF rows = <<>> THEN None ELSE Last(rows).uid

-----------------------------------------------------------------------------
(* ModuleGraph. *)

Replaced(path, a, b) == [i \in DOMAIN path |-> IF path[i] = a THEN b ELSE path[i]]
Without(path, prefix) ==
    IF IsPrefix(prefix, path) THEN SubSeq(path, Len(prefix) + 1, Len(path)) ELSE path
Cut(path, suffix) ==
    IF IsSuffix(suffix, path) THEN SubSeq(path, 1, Len(path) - Len(suffix)) ELSE path

\* derive_module_paths.  A path ends in a dot and its extension.
ModulePaths(path) ==
    LET stripped == Without(path, <<"src", "/">>)
        stem     == SubSeq(stripped, 1, Len(stripped) - 2)
        unit(w)  == Cut(stem, <<"/", w>>)
    IN  {path} \cup
        CASE Last(path) = "py" -> {Replaced(unit("__init__"), "/", "."), unit("__init__"), stripped}
          [] Last(path) = "ts" -> {<<".", "/">> \o unit("index"), unit("index"), stripped}
          [] Last(path) = "rs" -> {unit("mod"), <<"crate", "::">> \o Replaced(unit("mod"), "/", "::")}
          [] OTHER -> {stem}

\* What the files of a module path export as a name: the last of them.
Exported(fs, module, name) ==
    LET rows == RowsOf(SelectSeq(fs, LAMBDA f : module \in ModulePaths(f.path)))
    IN  LastUid(SelectSeq(rows, LAMBDA r : r.name = name))

\* find_exported_symbol: as it is written, with slashes, with dots.
FindExported(fs, module, name) ==
    LET slashes == Replaced(Without(module, <<".", "/">>), ".", "/")
        dots    == Replaced(slashes, "/", ".")
        found   == SelectSeq([i \in 1..3 |-> Exported(fs, <<module, slashes, dots>>[i], name)],
                             LAMBDA u : u # None)
    IN  IF found = <<>> THEN None ELSE Head(found)

\* Mutant of ResolveImport: the module is asked for the name it was given here.
ResolveImportLocal(fs, path, name) ==
    LET f    == fs[SelectInSeq(fs, LAMBDA g : g.path = path)]
        here == {i \in DOMAIN f.imports : f.imports[i].name = name}
    IN  IF here = {} THEN None
        ELSE LET i == CHOOSE j \in here : \A k \in here : j <= k
             IN  FindExported(fs, f.imports[i].module, name)

\* resolve_import: the imports of a file are grouped by module, and the first one of the name
\* is followed, wherever it leads.
ResolveImport(fs, path, name) ==
    LET f        == fs[SelectInSeq(fs, LAMBDA g : g.path = path)]
        group(i) == SelectInSeq(f.imports, LAMBDA m : m.module = f.imports[i].module)
        here     == {i \in DOMAIN f.imports : f.imports[i].name = name}
        first(i) == \A j \in here : group(i) < group(j) \/ (group(i) = group(j) /\ i <= j)
    IN  IF here = {} THEN None
        ELSE LET i == CHOOSE j \in here : first(j)
             IN  FindExported(fs, f.imports[i].module, f.imports[i].what)

-----------------------------------------------------------------------------
(* CallResolver. *)

\* register_imports, register_alias: one map for all files, the last one of a name stays.
Standing(bound, name) ==
    LET i == SelectLastInSeq(bound, LAMBDA m : m.name = name /\ m.what # m.name)
    IN  IF i = 0 THEN None ELSE bound[i].what

ImportAlias(run, name) ==
    Standing(FlattenSeq([i \in DOMAIN Order(run) |-> Order(run)[i].imports]), name)
VarAlias(run, name) ==
    IF run = "full"
    THEN Standing(FlattenSeq([i \in DOMAIN Code(files) |-> Code(files)[i].vars]), name)
    ELSE None

\* resolve_name: by qualified name, by name, and in a full run by the imports of the file.
ResolveName(run, f, name) ==
    LET rows      == RowsOf(Order(run))
        qualified == LastUid(SelectSeq(rows, LAMBDA r : r.qual = name))
        simple    == LastUid(SelectSeq(rows, LAMBDA r : r.name = name))
    IN  CASE qualified # None -> qualified
          [] qualified = None /\ simple # None -> simple
          [] qualified = None /\ simple = None /\ run = "full" /\ ~f.notebook ->
                ResolveImport(Code(files), f.path, name)
          [] OTHER -> None

\* resolve_with_chain: the method of the receiver, or of what that is an alias of.
ResolveChain(run, f, call) ==
    LET stands == ImportAlias(run, call.on)
    IN  IF call.on = None THEN None
        ELSE ResolveName(run, f, (IF stands # None THEN stands ELSE call.on) \o <<".">> \o call.callee)

Callee(run, f, call) ==
    LET imported == ImportAlias(run, call.callee)
        assigned == VarAlias(run, call.callee)
        name     == CASE imported # None -> imported
                      [] imported = None /\ assigned # None -> assigned
                      [] OTHER -> call.callee
        chained  == ResolveChain(run, f, call)
    IN  IF chained # None THEN chained ELSE ResolveName(run, f, name)

\* resolve_calls: one edge for a caller and a callee.
CallEdges(run) ==
    UNION {{<<ResolveName(run, f, c.caller), Callee(run, f, c)>> :
                c \in {d \in f.calls : /\ ResolveName(run, f, d.caller) # None
                                       /\ Callee(run, f, d) # None}} : f \in Range(files)}

-----------------------------------------------------------------------------
(* Edges within one file. *)

Separators == {".", "::"}

\* member_parent_short: the word before the last separator.
ParentShort(qual) ==
    LET i      == SelectLastInSeq(qual, LAMBDA w : w \in Separators)
        parent == SubSeq(qual, 1, i - 1)
    IN  IF i = 0 THEN None
        ELSE SubSeq(parent, SelectLastInSeq(parent, LAMBDA w : w \in Separators) + 1, Len(parent))

\* MEMBER_OF: to the last symbol of the file that has the parent's name, unless it is itself.
Parent(r) ==
    LET short == ParentShort(r.qual)
    IN  IF short = None THEN None
        ELSE LastUid(SelectSeq(RowsOf(files), LAMBDA s : s.file = r.file /\ s.name = short))

MemberEdges ==
    {<<r.uid, Parent(r)>> : r \in {s \in Range(RowsOf(files)) : Parent(s) \notin {None, s.uid}}}

\* build_rationale_nodes: to the first symbol, sorted by line, that starts below the comment.
About(f, line) ==
    LET below == {k \in DOMAIN f.syms : f.syms[k].line > line}
    IN  {<<f.path, k>> :
            k \in {j \in below : \A i \in below :
                       f.syms[j].line < f.syms[i].line \/ (f.syms[j].line = f.syms[i].line /\ j <= i)}}

-----------------------------------------------------------------------------
(* build_email_threads. *)

\* The mail that answers to an id: the last one that has it.
Holder(id) == SelectLastInSeq(mails, LAMBDA m : m.id = id)

ReplyEdges ==
    {<<i, Holder(mails[i].reply)>> :
        i \in {j \in DOMAIN mails : mails[j].reply # NoId /\ Holder(mails[j].reply) # 0}}

Linked(m) == SelectSeq(<<m.id, m.reply>>, LAMBDA id : id # NoId) \o m.refs

\* A mail joins the group of the first of its ids that has one, and takes all of them there.
JoinGroup(st, m) ==
    LET known == SelectSeq(Linked(m), LAMBDA id : st.group[id] # 0)
        g     == IF known = <<>> THEN st.groups + 1 ELSE st.group[Head(known)]
    IN  [group  |-> [id \in MessageIds |-> IF id \in Range(Linked(m)) THEN g ELSE st.group[id]],
         groups |-> IF known = <<>> THEN g ELSE st.groups,
         of     |-> Append(st.of, g)]

Groups ==
    FoldLeft(JoinGroup, [group |-> [id \in MessageIds |-> 0], groups |-> 0, of |-> <<>>], mails).of

\* PART_OF_CONVERSATION: the groups of more than one mail.
Conversations ==
    {c \in {{i \in DOMAIN mails : Groups[i] = g} : g \in Range(Groups)} : Cardinality(c) > 1}

-----------------------------------------------------------------------------
BatchInit == files = <<>> /\ mails = <<>>

\* One more file was read and parsed.
ReadFile ==
    /\ Len(files) < MaxFiles
    /\ \E f \in Parsed :
          /\ \A i \in DOMAIN files : files[i].path # f.path
          /\ files' = Append(files, f)
    /\ UNCHANGED mails

\* One more mail was read and parsed (process_email).
ReadMail ==
    /\ Len(mails) < MaxMails
    /\ \E id \in MessageIds \cup {NoId}, reply \in MessageIds \cup {NoId},
          refs \in {<<>>} \cup {<<i>> : i \in MessageIds} :
             mails' = Append(mails, [id |-> id, reply |-> reply, refs |-> refs])
    /\ UNCHANGED files

BatchNext == ReadFile \/ ReadMail
BatchSpec == BatchInit /\ [][BatchNext]_batchVars

-----------------------------------------------------------------------------
(* What the edges should be. *)

Bindings(f) == Range(f.imports) \cup Range(f.vars)
Bound       == {b.name : b \in {c \in UNION {Bindings(f) : f \in Range(files)} : c.what # c.name}}
Rows        == Range(RowsOf(files))

\* Every name means one thing: no two symbols share it, it is bound to one thing, by every
\* file that calls it, and no symbol has a name that is bound.
Unambiguous ==
    /\ \A r, s \in Rows : r.name = s.name => r = s
    /\ \A r \in Rows : r.name \notin Bound /\ r.qual \notin Bound
    /\ \A f, g \in Range(files) : \A b \in Bindings(f), c \in Bindings(g) :
          b.name = c.name => b.what = c.what /\ (b \in Range(f.vars) <=> c \in Range(g.vars))
    /\ \A f \in Range(files), n \in Bound :
          (\E c \in f.calls : n \in {c.callee, c.on}) => \E b \in Bindings(f) : b.name = n

\* What a name stands for in a file, one binding after the other.
RECURSIVE Meant(_, _, _)
Meant(f, name, steps) ==
    LET bs == {b \in Bindings(f) : b.name = name /\ b.what # name}
    IN  IF bs = {} \/ steps = 0 THEN name
        ELSE Meant(f, (CHOOSE b \in bs : TRUE).what, steps - 1)

SymbolsNamed(name) == {r.uid : r \in {s \in Rows : s.name = name}}
Wanted(f, c) == SymbolsNamed(c.caller) \X SymbolsNamed(Meant(f, c.callee, 3))

\* The binding of a callee is itself bound: only the module graph of a full run follows it.
Twice(f, c) == Meant(f, c.callee, 1) # Meant(f, c.callee, 3)

\* The module path that a file of a full run is found by.
Found(f, c) ==
    \E b \in Range(f.imports) : /\ b.name = Meant(f, c.callee, 1) /\ ~f.notebook
                                /\ Exported(Code(files), b.module, b.what) # None

AllCalls == {<<f, c>> : f \in Range(files), c \in UNION {g.calls : g \in Range(files)}}

\* Where names are unambiguous, a call goes to the symbol its file means, in a full run and
\* in an incremental one; only bindings of bindings, and in an incremental run variables,
\* may lead nowhere.
CallsGoWhereMeant ==
    Unambiguous =>
        LET calls == {fc \in AllCalls : fc[2] \in fc[1].calls}
            byVar(f, c) == \E b \in Range(f.vars) : b.name = c.callee
            lost(run) == {fc \in calls : \/ run = "batch" /\ byVar(fc[1], fc[2])
                                         \/ /\ Twice(fc[1], fc[2])
                                            /\ run = "full" => ~Found(fc[1], fc[2])}
        IN  \A run \in Runs :
                /\ CallEdges(run) \subseteq UNION {Wanted(fc[1], fc[2]) : fc \in calls}
                /\ UNION {Wanted(fc[1], fc[2]) : fc \in calls \ lost(run)} \subseteq CallEdges(run)

\* A member is tied to the symbol around it, unless another symbol of the file has its name;
\* a comment to a symbol below it with none in between.
FilesHangTogether ==
    /\ \A f \in Range(files) :
          LET around(k) == f.syms[k].in
              plain(k)  == \A j \in DOMAIN f.syms :
                              f.syms[j].name = f.syms[around(k)].name => j = around(k)
          IN  \A k \in DOMAIN f.syms :
                  around(k) # 0 /\ plain(k) =>
                      {e[2] : e \in {x \in MemberEdges : x[1] = <<f.path, k>>}}
                          = {<<f.path, around(k)>>}
    /\ \A e \in MemberEdges : e[1][1] = e[2][1] /\ e[1] # e[2]
    /\ \A f \in Range(files) : \A line \in f.notes : \A u \in About(f, line) :
          \A k \in DOMAIN f.syms :
             ~(line < f.syms[k].line /\ f.syms[k].line < f.syms[u[2]].line)

\* Mails that are linked to each other through ids of theirs.
RECURSIVE Thread(_)
Thread(S) ==
    LET ids  == UNION {Range(Linked(mails[i])) : i \in S}
        more == S \cup {i \in DOMAIN mails : Range(Linked(mails[i])) \cap ids # {}}
    IN  IF more = S THEN S ELSE Thread(more)

\* Mails are read after those they link to, and link to those of one conversation.
Orderly ==
    /\ \A i, j \in DOMAIN mails : i < j => mails[j].id = NoId \/ mails[j].id \notin Range(Linked(mails[i]))
    /\ \A i \in DOMAIN mails :
          \A x, y \in Range(Linked(mails[i])) \ {mails[i].id} :
             x = y \/ \E j \in 1..(i - 1) : {x, y} \subseteq Range(Linked(mails[j]))

\* A conversation is of mails that are linked, and, if mails are read in order, of all of
\* them, answers with what they answer.
ThreadsAreLinked ==
    /\ \A c \in Conversations : \A i \in c : c \subseteq Thread({i})
    /\ Orderly =>
          /\ \A i \in DOMAIN mails : Cardinality(Thread({i})) > 1 => Thread({i}) \in Conversations
          /\ \A e \in ReplyEdges : e[1] # e[2] => \E c \in Conversations : {e[1], e[2]} \subseteq c

\* The edges of a batch are those its texts mean.  Three ways to bind a name, two kinds of
\* runs and the order of the files all have to come to the same.
EdgesFollowTheText == CallsGoWhereMeant /\ FilesHangTogether /\ ThreadsAreLinked
=============================================================================
