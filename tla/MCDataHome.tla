------------------------------ MODULE MCDataHome ------------------------------
(***************************************************************************)
(* The files that commands read, edit and write back whole: the registry   *)
(* with the data directories and what is resolved from it, the documents   *)
(* shared with the user, the git hooks, and the state file of a mail sync. *)
(* No command works on two of them at once, so they are explored one at a  *)
(* time: part says which one moves, and the behaviours of each are those   *)
(* of its own specification.                                               *)
(***************************************************************************)
EXTENDS Registry, EmailSync, RepoResolution, GitHooks

VARIABLE part

\* Four directories: one inside another, two of one name, and two of which the text of
\* one begins that of the other.
MCByName    == <<"app", "app-old", "lib">>
MCLookNames == {<<"app", "app-old">>}
MCDirs      == {<<"app">>, <<"app", "lib">>, <<"app-old">>, <<"lib">>}

\* Two mail folders, one of whose messages does not parse.
MCFolders   == <<"INBOX", "Sent">>
MCMalformed == {<<"INBOX", 1>>}

homeVars == <<vars, docVars, hookVars, resolutionVars, mailVars, part>>

HomeInit ==
    /\ Init /\ DocInit /\ HookInit /\ ResolutionInit /\ MailInit
    /\ part \in {"registry", "document", "hook", "list", "mail"}
    /\ part # "document" => kind = "editor"
    /\ part # "list" => cwd = <<"lib">>

HomeNext ==
    \/ part = "registry" /\ Next
       /\ UNCHANGED <<docVars, hookVars, resolutionVars, mailVars, part>>
    \/ part = "document" /\ DocNext
       /\ UNCHANGED <<vars, hookVars, resolutionVars, mailVars, part>>
    \/ part = "hook" /\ HookNext
       /\ UNCHANGED <<vars, docVars, resolutionVars, mailVars, part>>
    \/ part = "list" /\ ResolutionNext
       /\ UNCHANGED <<vars, docVars, hookVars, mailVars, part>>
    \/ part = "mail" /\ MailNext
       /\ UNCHANGED <<vars, docVars, hookVars, resolutionVars, part>>

HomeSpec == HomeInit /\ [][HomeNext]_homeVars
=============================================================================
