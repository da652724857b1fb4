---------------------------- MODULE StoreHandles ----------------------------
(***************************************************************************)
(* Handles on the per-repository database inside one server process.       *)
(* GraphService::open_store looks in a concurrent map, opens the database  *)
(* outside of any lock when there is no entry, and publishes its handle    *)
(* with entry().or_insert_with(), or takes the one another caller          *)
(* published meanwhile.  The tools of the MCP server call Store::open      *)
(* themselves.                                                             *)
(***************************************************************************)

CONSTANTS
    Callers,    \* concurrent tool calls
    Repos,
    Handles,    \* the handles Store::open can return, each one once
    None

ASSUME HandleAssumption == None \notin Handles \cup Repos

VARIABLES
    stores,     \* the DashMap of GraphService
    used,       \* handles that were opened
    owner,      \* the repository each handle was opened for
    phase, repo,   \* step and argument of each call
    mine,       \* the handle the call opened itself
    answer      \* the handle the call works with

handleVars == <<stores, used, owner, phase, repo, mine, answer>>

HandlesTypeOK ==
    /\ stores \in [Repos -> Handles \cup {None}]
    /\ used \subseteq Handles
    /\ owner \in [Handles -> Repos \cup {None}]
    /\ phase \in [Callers -> {"idle", "get", "open", "insert", "bypass", "working", "apart"}]
    /\ repo \in [Callers -> Repos \cup {None}]
    /\ mine \in [Callers -> Handles \cup {None}]
    /\ answer \in [Callers -> Handles \cup {None}]
    /\ \A c \in Callers : /\ phase[c] = "idle" <=> repo[c] = None
                          /\ phase[c] = "insert" <=> mine[c] # None
                          /\ phase[c] \in {"working", "apart"} <=> answer[c] # None

HandlesInit ==
    /\ stores = [r \in Repos |-> None]
    /\ used = {} /\ owner = [h \in Handles |-> None]
    /\ phase = [c \in Callers |-> "idle"] /\ repo = [c \in Callers |-> None]
    /\ mine = [c \in Callers |-> None] /\ answer = [c \in Callers |-> None]

-----------------------------------------------------------------------------
GoOn(c, step) == phase' = [phase EXCEPT ![c] = step]

Ask(c, r, step) ==
    /\ phase[c] = "idle"
    /\ GoOn(c, step)
    /\ repo' = [repo EXCEPT ![c] = r]
    /\ UNCHANGED <<stores, used, owner, mine, answer>>

\* A call that goes through open_store.
Call(c, r) == Ask(c, r, "get")

\* A call that opens the store itself (`analyze`, `status`, ... of the MCP server).
Bypass(c, r) == Ask(c, r, "bypass")

\* stores.get
Get(c) ==
    /\ phase[c] = "get"
    /\ IF stores[repo[c]] # None
       THEN answer' = [answer EXCEPT ![c] = stores[repo[c]]] /\ GoOn(c, "working")
       ELSE GoOn(c, "open") /\ UNCHANGED answer
    /\ UNCHANGED <<stores, used, owner, repo, mine>>

\* Store::open(..).await
Open(c, h) ==
    /\ phase[c] \in {"open", "bypass"}
    /\ h \notin used
    /\ used' = used \cup {h}
    /\ owner' = [owner EXCEPT ![h] = repo[c]]
    /\ IF phase[c] = "open"
       THEN mine' = [mine EXCEPT ![c] = h] /\ GoOn(c, "insert") /\ UNCHANGED answer
       ELSE answer' = [answer EXCEPT ![c] = h] /\ GoOn(c, "apart") /\ UNCHANGED mine
    /\ UNCHANGED <<stores, repo>>

\* stores.entry(..).or_insert_with(..): the first one is kept
Insert(c) ==
    /\ phase[c] = "insert"
    /\ LET h == IF stores[repo[c]] = None THEN mine[c] ELSE stores[repo[c]]
       IN  /\ stores' = [stores EXCEPT ![repo[c]] = h]
           /\ answer' = [answer EXCEPT ![c] = h]
    /\ mine' = [mine EXCEPT ![c] = None]
    /\ GoOn(c, "working")
    /\ UNCHANGED <<used, owner, repo>>

\* Mutant of Finish: a call takes its handle out of the map when it ends.
FinishEvicts(c) ==
    /\ phase[c] # "idle"
    /\ GoOn(c, "idle")
    /\ stores' = IF phase[c] = "working" THEN [stores EXCEPT ![repo[c]] = None] ELSE stores
    /\ repo' = [repo EXCEPT ![c] = None]
    /\ mine' = [mine EXCEPT ![c] = None] /\ answer' = [answer EXCEPT ![c] = None]
    /\ UNCHANGED <<used, owner>>

\* The call returns, or Store::open failed, or the future is dropped.
Finish(c) ==
    /\ phase[c] # "idle"
    /\ GoOn(c, "idle")
    /\ repo' = [repo EXCEPT ![c] = None]
    /\ mine' = [mine EXCEPT ![c] = None] /\ answer' = [answer EXCEPT ![c] = None]
    /\ UNCHANGED <<stores, used, owner>>

HandlesNext ==
    \/ \E c \in Callers, r \in Repos : Call(c, r) \/ Bypass(c, r)
    \/ \E c \in Callers : Get(c) \/ Insert(c) \/ Finish(c)
    \/ \E c \in Callers, h \in Handles : Open(c, h)

HandlesSpec == HandlesInit /\ [][HandlesNext]_handleVars

-----------------------------------------------------------------------------
\* Two calls at work on one repository share one handle when they got it from
\* open_store (service.rs:135-138), also next to calls that opened their own.
SharedByAllCallers ==
    \A c, d \in Callers :
        phase[c] = "working" /\ phase[d] = "working" /\ repo[c] = repo[d] => answer[c] = answer[d]

\* No call works with a handle that was opened for another repository.
HandleOfItsRepo ==
    \A c \in Callers : phase[c] \in {"working", "apart"} => owner[answer[c]] = repo[c]

\* What open_store answered to the calls that are at work.
answered == [c \in Callers |-> IF phase[c] = "working" THEN answer[c] ELSE None]

Once == INSTANCE HandleOnce WITH published <- stores, answer <- answered

\* open_store implements HandleOnce: the first published handle settles it.
ImplementsOnce == Once!Spec
=============================================================================
