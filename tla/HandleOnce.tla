----------------------------- MODULE HandleOnce -----------------------------
(***************************************************************************)
(* What GraphService::open_store promises its callers: the first answer    *)
(* for a repository settles its handle, and every answer is that handle.   *)
(***************************************************************************)
CONSTANTS Callers, Repos, Handles, None

VARIABLES
    published,  \* the handle of each repository
    answer      \* what each caller got, None while it waits, failed or is done

vars == <<published, answer>>

Init ==
    /\ published = [r \in Repos |-> None]
    /\ answer = [c \in Callers |-> None]

Ask(c) ==
    /\ answer' = [answer EXCEPT ![c] = None]
    /\ UNCHANGED published

Answer(c, r, h) ==
    /\ published[r] \in {None, h}
    /\ published' = [published EXCEPT ![r] = h]
    /\ answer' = [answer EXCEPT ![c] = h]

Next ==
    \/ \E c \in Callers : Ask(c)
    \/ \E c \in Callers, r \in Repos, h \in Handles : Answer(c, r, h)

Spec == Init /\ [][Next]_vars
=============================================================================
