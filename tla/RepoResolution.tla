---------------------------- MODULE RepoResolution ----------------------------
(***************************************************************************)
(* Which repository a command or a tool works on when it is not told: the  *)
(* CLI (resolve_repo_or_latest) and the server (resolve_repo_id of the MCP *)
(* server and of GraphService, the same code twice) look for one that      *)
(* contains the current directory, and fall back to the last of the list.  *)
(* The CLI takes the first match and compares paths component by           *)
(* component; the server takes the last one and compares their texts, so   *)
(* that /work/app also matches /work/app-old.                              *)
(*                                                                         *)
(* A path is the sequence of its components; a repository is its canonical *)
(* path, the last component is its name.                                   *)
(***************************************************************************)
EXTENDS Naturals, Sequences, FiniteSets, SequencesExt

CONSTANTS
    ByName,        \* the names in alphabetical order
    LookNames,     \* pairs of names, the text of the first begins that of the second
    Dirs           \* paths

ASSUME ResolutionAssumption ==
    /\ DOMAIN ByName \subseteq Nat
    /\ \A p \in Dirs : p \in Seq({ByName[i] : i \in DOMAIN ByName}) /\ p # <<>>

VARIABLES
    registered,    \* repos.json: the set of repositories
    gone,          \* directories that were moved or deleted
    cwd            \* the current directory

resolutionVars == <<registered, gone, cwd>>

Name(p)    == Last(p)
Exists(p)  == \A q \in gone : ~IsPrefix(q, p)

ResolutionInit == registered = {} /\ gone = {} /\ cwd \in Dirs

\* RepoRegistry::register: of a repository that is analyzed for the first time or again
Analyze(p) ==
    /\ Exists(p)
    /\ registered' = registered \cup {p}
    /\ UNCHANGED <<gone, cwd>>

Unregister(p) ==
    /\ registered' = registered \ {p}
    /\ UNCHANGED <<gone, cwd>>

Vanish(p) ==
    /\ gone' = gone \cup {p}
    /\ UNCHANGED <<registered, cwd>>

Restore(p) ==
    /\ gone' = gone \ {p}
    /\ UNCHANGED <<registered, cwd>>

Enter(p) ==
    /\ Exists(p)
    /\ cwd' = p
    /\ UNCHANGED <<registered, gone>>

ResolutionNext ==
    \E p \in Dirs : Analyze(p) \/ Unregister(p) \/ Vanish(p) \/ Restore(p) \/ Enter(p)

ResolutionSpec == ResolutionInit /\ [][ResolutionNext]_resolutionVars

-----------------------------------------------------------------------------
\* RepoRegistry::list: the values of a hash map, sorted by name; the order of equal
\* names is that of the map.
Rank(n) == CHOOSE i \in DOMAIN ByName : ByName[i] = n
Lists   == {l \in SetToSeqs(registered) :
                \A i, j \in DOMAIN l : i < j => Rank(Name(l[i])) <= Rank(Name(l[j]))}

\* Path::starts_with of two canonical paths: canonicalize fails on what is gone.
\* Mutant of Holds: the arguments are swapped.
HoldsSwapped(p) == Exists(p) /\ Exists(cwd) /\ IsPrefix(cwd, p)
Holds(p) == Exists(p) /\ Exists(cwd) /\ IsPrefix(p, cwd)

\* str::starts_with of their texts
BeginsLike(p) ==
    /\ Exists(p) /\ Exists(cwd)
    /\ \/ IsPrefix(p, cwd)
       \/ /\ Len(p) <= Len(cwd) /\ Front(p) = SubSeq(cwd, 1, Len(p) - 1)
          /\ <<Name(p), cwd[Len(p)]>> \in LookNames

CliResolves(l) ==
    LET found == {i \in DOMAIN l : Holds(l[i])}
    IN  IF found = {} THEN Last(l) ELSE l[Min(found)]

ServerResolves(l) ==
    LET found == {i \in DOMAIN l : BeginsLike(l[i])}
    IN  IF found = {} THEN Last(l) ELSE l[Max(found)]

-----------------------------------------------------------------------------
Enclosing == {p \in registered : IsPrefix(p, cwd) /\ Exists(cwd)}
Alike     == {p \in registered : BeginsLike(p)} \ Enclosing

\* In a repository the CLI resolves to one that contains the current directory, and so
\* does the server unless another repository looks alike; the two agree unless
\* repositories are nested, look alike or have one name.
ResolutionIsSound ==
    \A l, m \in Lists : registered # {} =>
        /\ Enclosing # {} => CliResolves(l) \in Enclosing
        /\ Enclosing # {} /\ Alike = {} => ServerResolves(l) \in Enclosing
        /\ /\ Cardinality(Enclosing) <= 1 /\ Alike = {}
           /\ \A p, q \in registered : Name(p) = Name(q) => p = q
           => CliResolves(l) = ServerResolves(m)
=============================================================================
