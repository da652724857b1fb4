------------------------------- MODULE Documents -------------------------------
(***************************************************************************)
(* The small files that myc shares with its user, with editors and with    *)
(* other commands: editor settings (setup/editors), Claude's hooks,        *)
(* config.toml and the JSON records of decisions and services.  Every      *)
(* change reads the whole file, edits a copy and writes the whole file,    *)
(* without a lock; the commands differ in what they do with a file that    *)
(* does not parse: setup and the wizard start from an empty one, uninstall *)
(* leaves it alone, the others fail.  Settings and hooks are edited as     *)
(* JSON values, config.toml and the records as structs: what these have no *)
(* field for, keys they do not know and comments, is gone when they are    *)
(* written back.                                                           *)
(*                                                                         *)
(* A document is the set of its entries.  The documents are independent,   *)
(* so there is one, of a kind chosen in the beginning.                     *)
(***************************************************************************)
EXTENDS FiniteSets, Naturals

CONSTANTS
    Writers,        \* processes that run commands
    Entries,        \* what others keep in the document
    LookAlikes,     \* hooks of the user whose command contains "myc "
    Foreign,        \* what GlobalConfig and ArchDecisionRecord have no field for
    Ours,           \* the entry setup adds
    Absent,
    Broken,         \* does not parse: torn, with comments, or left half-way by a hand
    Odd,            \* parses, but is not the object it should be
    MaxSaves        \* bound: changes the user makes

EntryNames == Entries \cup {Ours}

ASSUME DocumentsAssumption ==
    /\ LookAlikes \subseteq Entries /\ Foreign \subseteq Entries /\ Ours \notin Entries
    /\ MaxSaves \in Nat
    /\ Absent \notin {Broken, Odd} /\ \A d \in SUBSET EntryNames : d # Absent

VARIABLES
    kind,       \* "editor", "hooks", "config" or "records"
    doc,        \* Absent, Broken, Odd, or a set of entries
    step,       \* what each writer does
    docCmd, item, \* its command and, if it adds one, the entry
    docCopy,    \* what it is going to write
    current,    \* history: writers whose copy nobody has overtaken
    wanted,     \* history: entries somebody put there and nobody took out
    saves,      \* changes of the user so far
    excuses     \* history: why an entry may be gone

docLocal == <<step, docCmd, item, docCopy>>
docVars  == <<kind, doc, docLocal, current, wanted, saves, excuses>>

DocInit ==
    /\ kind \in {"editor", "hooks", "config", "records"}
    /\ doc = Absent
    /\ step = [w \in Writers |-> "idle"] /\ docCmd = [w \in Writers |-> "none"]
    /\ item = [w \in Writers |-> Ours] /\ docCopy = [w \in Writers |-> {}]
    /\ current = {} /\ wanted = {} /\ saves = 0 /\ excuses = {}

-----------------------------------------------------------------------------
Commands == CASE kind \in {"editor", "hooks"} -> {"setup", "uninstall"}
              [] kind = "config"              -> {"wizard", "configure", "reset"}
              [] OTHER                        -> {"record"}

Readable == doc \notin {Absent, Broken, Odd}
Held     == IF Readable THEN doc ELSE {}

\* What a command calls its own: the hooks are told by their command line.
Mine == {Ours} \cup (IF kind = "hooks" THEN LookAlikes ELSE {})

\* The document goes through a struct.
Structured == kind \in {"config", "records"}

\* What of it a command reads.
Taken == IF Structured THEN Held \ Foreign ELSE Held

\* serde_json::from_str(..).unwrap_or_else(|_| json!({})), load().unwrap_or_default()
Forgiving(c) == c \in {"setup", "wizard"}

\* The document is what the command can go on with.  An absent one is empty, but
\* there is nothing to uninstall from.
Parses(c) ==
    \/ Readable
    \/ doc = Absent /\ c # "uninstall"
    \/ doc = Broken /\ Forgiving(c)

\* The copy with the command's edit.
Edited(c, e) ==
    CASE c = "uninstall"             -> Taken \ Mine
      [] c = "reset"                 -> {}
      [] c \in {"setup", "wizard"}   -> (Taken \ Mine) \cup {Ours}
      [] OTHER                       -> Taken \cup {e}

\* Read, parse and edit; a command that cannot go on ends without a change.
ReadDocument(w, c, e) ==
    /\ step[w] = "idle" /\ c \in Commands
    /\ e = Ours \/ (c \in {"configure", "record"} /\ e \notin Foreign)
    /\ Parses(c)
    /\ docCmd' = [docCmd EXCEPT ![w] = c] /\ item' = [item EXCEPT ![w] = e]
    /\ docCopy' = [docCopy EXCEPT ![w] = Edited(c, e)]
    /\ step' = [step EXCEPT ![w] = "truncate"]
    /\ current' = current \cup {w}
    /\ excuses' = excuses \cup (IF doc = Broken /\ Forgiving(c) THEN {"discarded"} ELSE {})
                          \cup (IF Held \cap Mine \subseteq {Ours} THEN {} ELSE {"mistaken"})
                          \cup (IF Taken = Held THEN {} ELSE {"dropped"})
    /\ UNCHANGED <<kind, doc, wanted, saves>>

\* fs::write opens the file and truncates it ...
TruncateDocument(w) ==
    /\ step[w] = "truncate"
    /\ doc' = Broken
    /\ step' = [step EXCEPT ![w] = "write"]
    /\ excuses' = excuses \cup (IF w \in current THEN {} ELSE {"overlapped"})
    /\ current' = current \cap {w}
    /\ UNCHANGED <<kind, docCmd, item, docCopy, wanted, saves>>

\* ... and writes; over what was written meanwhile a longer tail may stay.
WriteDocument(w) ==
    /\ step[w] = "write"
    /\ doc' \in {docCopy[w]} \cup (IF doc = Broken THEN {} ELSE {Broken})
    /\ step' = [step EXCEPT ![w] = "idle"]
    /\ wanted' = CASE docCmd[w] = "uninstall" -> wanted \ {Ours}
                   [] docCmd[w] = "reset"     -> {}
                   [] OTHER                   -> wanted \cup {item[w]}
    /\ docCmd' = [docCmd EXCEPT ![w] = "none"] /\ item' = [item EXCEPT ![w] = Ours]
    /\ docCopy' = [docCopy EXCEPT ![w] = {}]
    /\ excuses' = excuses \cup (IF w \in current THEN {} ELSE {"overlapped"})
    /\ current' = current \ {w}
    /\ UNCHANGED <<kind, saves>>

\* The command dies; inside fs::write the file stays torn.
DieWriting(w) ==
    /\ step[w] # "idle"
    /\ step' = [step EXCEPT ![w] = "idle"]
    /\ docCmd' = [docCmd EXCEPT ![w] = "none"] /\ item' = [item EXCEPT ![w] = Ours]
    /\ docCopy' = [docCopy EXCEPT ![w] = {}]
    /\ excuses' = excuses \cup (IF step[w] = "write" THEN {"cut"} ELSE {})
    /\ current' = current \ {w}
    /\ UNCHANGED <<kind, doc, wanted, saves>>

\* The user or an editor saves the file, with comments or as something else perhaps.
UserSaves(d, keeps) ==
    /\ saves < MaxSaves /\ saves' = saves + 1
    /\ doc' = d
    /\ wanted' = IF d \in {Broken, Odd} THEN keeps ELSE d
    /\ d \in {Broken, Odd} \/ keeps = {}
    /\ current' = {}
    /\ UNCHANGED <<kind, docLocal, excuses>>

DocNext ==
    \/ \E w \in Writers, e \in EntryNames,
          c \in {"setup", "uninstall", "wizard", "configure", "reset", "record"} :
              ReadDocument(w, c, e)
    \/ \E w \in Writers : TruncateDocument(w) \/ WriteDocument(w) \/ DieWriting(w)
    \/ \E d \in {Broken, Odd} \cup SUBSET EntryNames, keeps \in SUBSET EntryNames :
          UserSaves(d, keeps)

DocSpec == DocInit /\ [][DocNext]_docVars

-----------------------------------------------------------------------------
\* A document that can be read holds what its user and the commands put there and did not
\* take out, unless a command overtook another or the user ("overlapped"), setup or the
\* wizard started from nothing because the file did not parse ("discarded"), a hook of the
\* user looks like one of myc ("mistaken"), or a command died while it wrote ("cut").  A
\* struct that had no field for something ("dropped") costs that and nothing else.  The
\* records and `myc configure` never discard anything they cannot parse.
DocumentIsLedger ==
    /\ Readable /\ excuses = {} => doc = wanted
    /\ Readable /\ excuses \subseteq {"dropped"} => doc \ Foreign = wanted \ Foreign
=============================================================================
