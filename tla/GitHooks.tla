------------------------------- MODULE GitHooks -------------------------------
(***************************************************************************)
(* `myc hook install` and `myc hook uninstall` (main.rs): the block of     *)
(* myc in a git hook that belongs to the user.  The block is found by the  *)
(* first line with its begin marker and the first with its end marker,     *)
(* wherever the user has moved, copied or deleted them.                    *)
(*                                                                         *)
(* A hook is the sequence of its lines.  Blank lines are left out: the     *)
(* code adds and trims them around the block.  The other files that are    *)
(* shared with the user are Documents'.                                    *)
(***************************************************************************)
EXTENDS Naturals, Sequences, SequencesExt, Documents

CONSTANTS
    UserLines,      \* lines the user may write
    Shebang, HookBegin, Body, HookEnd,
    NoHook,         \* the hook does not exist
    MaxLines,       \* bound: lines of a hook the user edits
    MaxEdits        \* bound: edits of the user

\* A line of the user is none of myc's, and these differ from each other.
ASSUME HooksAssumption ==
    /\ {Shebang, HookBegin, Body, HookEnd} \cap UserLines = {}
    /\ Shebang \notin {HookBegin, Body, HookEnd} /\ HookBegin \notin {Body, HookEnd} /\ Body # HookEnd
    /\ NoHook \notin Seq(UserLines \cup {Shebang, HookBegin, Body, HookEnd})

VARIABLES
    hook,
    own,        \* history: the user's lines, as the user left them
    damaged,    \* history: the user left the block in pieces, or a write was cut
    edits

hookVars == <<hook, own, damaged, edits>>

Block == <<HookBegin, Body, HookEnd>>

\* The lines of the user among the given ones, in their order.
Users(lines) ==
    LET upto[i \in 0..Len(lines)] ==
            IF i = 0 THEN <<>>
            ELSE IF lines[i] \in UserLines THEN Append(upto[i - 1], lines[i])
            ELSE upto[i - 1]
    IN  upto[Len(lines)]

Lines == IF hook = NoHook THEN <<>> ELSE hook

HookInit ==
    /\ hook = NoHook /\ own = <<>> /\ damaged = FALSE /\ edits = 0

-----------------------------------------------------------------------------
At(lines, marker)  == SelectInSeq(lines, LAMBDA l : l = marker)
Has(lines, marker) == At(lines, marker) # 0
Upto(lines, i)     == SubSeq(lines, 1, i)
From(lines, i)     == SubSeq(lines, i, Len(lines))

\* Mutant of Replaced: the block goes from its begin to the end of the file.
ReplacedToTheEnd(lines) ==
    Upto(lines, At(lines, HookBegin) - 1) \o Block

\* replace_hook_block; with its end before its begin the lines between are doubled
Replaced(lines) ==
    IF Has(lines, HookEnd)
    THEN Upto(lines, At(lines, HookBegin) - 1) \o Block \o From(lines, At(lines, HookEnd) + 1)
    ELSE lines \o Block

\* install_hook
Installed(h) ==
    IF h = NoHook THEN <<Shebang>> \o Block
    ELSE IF Has(h, HookBegin) THEN Replaced(h)
    ELSE h \o Block

\* remove_hook_block
Removed(lines) ==
    IF Has(lines, HookEnd)
    THEN Upto(lines, At(lines, HookBegin) - 1) \o From(lines, At(lines, HookEnd) + 1)
    ELSE lines

\* remove_hook: a hook with nothing left but its shebang is removed
Uninstalled(h) ==
    IF h = NoHook THEN NoHook
    ELSE IF ~Has(h, HookBegin) THEN h
    ELSE IF Removed(h) \in {<<>>, <<Shebang>>} THEN NoHook
    ELSE Removed(h)

\* The block stands as it was written, at most once.
Sound(lines) ==
    \/ \A i \in 1..Len(lines) : lines[i] \notin Range(Block)
    \/ \E i \in 1..(Len(lines) - 2) :
          /\ SubSeq(lines, i, i + 2) = Block
          /\ \A j \in 1..Len(lines) : lines[j] \in Range(Block) => j \in i..(i + 2)

Bounded(h) == IF h = NoHook THEN TRUE ELSE Len(h) <= MaxLines

-----------------------------------------------------------------------------
Install ==
    /\ hook' = Installed(hook)
    /\ Bounded(hook')
    /\ UNCHANGED <<own, damaged, edits>>

Uninstall ==
    /\ hook' = Uninstalled(hook)
    /\ Bounded(hook')
    /\ UNCHANGED <<own, damaged, edits>>

\* A write that is cut leaves an empty file.
WriteCut ==
    /\ hook' = <<>> /\ damaged' = TRUE
    /\ UNCHANGED <<own, edits>>

\* The user inserts a line or deletes one, of the block perhaps.
UserEdit(lines) ==
    /\ edits < MaxEdits /\ edits' = edits + 1
    /\ Len(lines) <= MaxLines
    /\ hook' = lines /\ own' = Users(lines)
    /\ damaged' = ~Sound(lines)

UserInserts(i, l) == i <= Len(Lines) + 1 /\ UserEdit(InsertAt(Lines, i, l))

UserDeletes(i) == i <= Len(Lines) /\ UserEdit(RemoveAt(Lines, i))

HookNext ==
    \/ Install \/ Uninstall \/ WriteCut
    \/ \E i \in 1..(MaxLines + 1), l \in UserLines \cup {Shebang, HookBegin, HookEnd} : UserInserts(i, l)
    \/ \E i \in 1..MaxLines : UserDeletes(i)

HookSpec == HookInit /\ [][HookNext]_hookVars

-----------------------------------------------------------------------------
\* Whatever is installed and uninstalled in whatever order, the hook holds the lines of
\* its user, in their order, and the block at most once and whole; unless the user took
\* the block apart: what stands between a begin that lost its end and the next end then
\* goes with the block.
UserLinesKept ==
    ~damaged => Users(Lines) = own /\ Sound(Lines)

\* What commands share with the user keeps what the user put there, apart from the named
\* causes: a document its entries (Documents), a hook its lines.
FilesKeepTheirLines == DocumentIsLedger /\ UserLinesKept
=============================================================================
