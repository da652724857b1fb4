--------------------------- MODULE DataHome_proofs ---------------------------
(***************************************************************************)
(* Proofs about the files of the data directory.                           *)
(*                                                                         *)
(* Registry, for any set of processes and repositories: what repos.json    *)
(* lists is what was registered and not deleted, as long as no two saves   *)
(* overlap and none is cut; and commands that run one at a time list a     *)
(* repository whose index is not there only where an analysis or           *)
(* `clean --all` took the index away and died.                             *)
(*                                                                         *)
(* EmailSync, for any set of syncs, any folders and any number of          *)
(* messages: a sync that fails anywhere and is run again never passes over *)
(* a message of the server, and stores one twice only where a message      *)
(* before it has gone.                                                     *)
(*                                                                         *)
(* RepoResolution, for any directories: what the CLI and the server take   *)
(* for the current repository.  Documents, for any number of writers: what *)
(* is in a file that its user, editors and commands edit at once.          *)
(* GitHooks, for any lines: the user's part of a hook.                     *)
(***************************************************************************)
EXTENDS Registry, EmailSync, RepoResolution, GitHooks, FiniteSetTheorems,
        SequenceTheorems, WellFoundedInduction, TLAPS

-----------------------------------------------------------------------------
(***************************************************************************)
(* The registry.                                                           *)
(***************************************************************************)
\* What the step of a process says of its command and its repository.
Steps ==
    \A p \in Procs :
        /\ pc[p] \in {"wipe", "build", "load"} => cmd[p] = "analyze"
        /\ pc[p] \in {"truncate", "write", "adrift"} => cmd[p] \in {"analyze", "delete"}
        /\ pc[p] = "unlink" => cmd[p] = "delete"
        /\ pc[p] \in {"wipe", "build", "load", "truncate", "write", "adrift", "unlink"} =>
               repo[p] \in Repos

Typed == TypeOK /\ Steps

LEMMA TypedInit == Init => Typed
BY RegistryAssumption DEF Init, Typed, TypeOK, Steps, Stages

\* A process that is done is idle again, and has nothing.
LEMMA EndIsTyped ==
  ASSUME Typed, NEW p \in Procs, End(p)
  PROVE  /\ pc' \in [Procs -> Stages]
         /\ cmd' \in [Procs -> {"none", "analyze", "delete", "clean"}]
         /\ repo' \in [Procs -> Repos \cup {NoRepo}]
         /\ copy' \in [Procs -> SUBSET Repos]
         /\ fresh' \in [Procs -> BOOLEAN]
         /\ Steps'
<1> USE DEF Typed, TypeOK, End, Goto, Stages
<1>1. /\ pc' \in [Procs -> Stages]
      /\ cmd' \in [Procs -> {"none", "analyze", "delete", "clean"}]
      /\ repo' \in [Procs -> Repos \cup {NoRepo}]
  OBVIOUS
<1>2. copy' \in [Procs -> SUBSET Repos] /\ fresh' \in [Procs -> BOOLEAN]
  OBVIOUS
<1>3. /\ pc'[p] = "idle"
      /\ \A q \in Procs \ {p} : pc'[q] = pc[q] /\ cmd'[q] = cmd[q] /\ repo'[q] = repo[q]
  OBVIOUS
<1>4. Steps'
  BY <1>3 DEF Steps
<1> QED BY <1>1, <1>2, <1>4

LEMMA TypedStep == Typed /\ [Next]_vars => Typed'
<1> SUFFICES ASSUME Typed, [Next]_vars PROVE Typed'
  OBVIOUS
<1> USE RegistryAssumption DEF Typed, TypeOK, Steps, Goto, Begin, End, Stages
<1>1. ASSUME NEW p \in Procs, NEW r \in Repos, NEW force \in BOOLEAN, StartAnalyze(p, r, force)
      PROVE  Typed'
  BY <1>1 DEF StartAnalyze
<1>2. ASSUME NEW p \in Procs, Build(p) PROVE Typed'
  BY <1>2 DEF Build
<1>3. ASSUME NEW p \in Procs, Load(p) PROVE Typed'
  <2>1. CASE file = Torn
    <3>1. End(p) /\ UNCHANGED <<file, dirs, data, ledger, overlapped, cut, together, taken>>
      BY <1>3, <2>1 DEF Load
    <3> HIDE DEF End
    <3> QED BY <3>1, EndIsTyped
  <2>2. CASE file # Torn
    <3>1. Content \in SUBSET Repos
      BY <2>2 DEF Content
    <3>2. Content \cup {repo[p]} \in SUBSET Repos
      BY <1>3, <3>1 DEF Load
    <3>3. copy' \in [Procs -> SUBSET Repos]
      BY <1>3, <2>2, <3>2 DEF Load
    <3>4. repo[p] \in Repos /\ cmd[p] = "analyze"
      BY <1>3 DEF Load
    <3> QED BY <1>3, <2>2, <3>3, <3>4 DEF Load
  <2> QED BY <2>1, <2>2
<1>4. ASSUME NEW p \in Procs, NEW r \in Repos, StartDelete(p, r) PROVE Typed'
  <2>1. Content \in SUBSET Repos
    BY <1>4 DEF StartDelete, Content
  <2> QED BY <1>4, <2>1 DEF StartDelete
<1>5. ASSUME NEW p \in Procs, Truncate(p) PROVE Typed'
  BY <1>5 DEF Truncate
<1>6. ASSUME NEW p \in Procs, Write(p) PROVE Typed'
  <2>1. repo[p] \in Repos /\ copy[p] \in SUBSET Repos
    BY <1>6 DEF Write
  <2>2. file' \in {NoFile, Torn} \cup SUBSET Repos /\ ledger' \subseteq Repos
    BY <1>6, <2>1 DEF Write
  <2>3. CASE cmd[p] = "delete"
    BY <1>6, <2>2, <2>3 DEF Write
  <2>4. CASE cmd[p] # "delete"
    <3>1. /\ End(p) /\ dirs' = dirs /\ data' = data /\ overlapped' \in BOOLEAN
          /\ UNCHANGED <<cut, together, taken>>
      BY <1>6, <2>4 DEF Write
    <3> QED BY <2>2, <3>1, EndIsTyped
  <2> QED BY <2>3, <2>4
<1>7. ASSUME NEW p \in Procs, Unlink(p) PROVE Typed'
  BY <1>7 DEF Unlink
<1>8. ASSUME NEW p \in Procs, StartClean(p) PROVE Typed'
  BY <1>8 DEF StartClean, Orphans
<1>9. ASSUME NEW p \in Procs, NEW r \in Repos, Sweep(p, r) PROVE Typed'
  <2>1. CASE r \notin dirs \/ copy[p] = {r}
    <3>1. End(p) /\ dirs' \subseteq dirs /\ data' \subseteq dirs'
      BY <1>9, <2>1 DEF Sweep
    <3>2. UNCHANGED <<file, ledger, overlapped, cut, together, taken>>
      BY <1>9 DEF Sweep
    <3> QED BY <3>1, <3>2, EndIsTyped
  <2>2. CASE ~(r \notin dirs \/ copy[p] = {r})
    BY <1>9, <2>2 DEF Sweep
  <2> QED BY <2>1, <2>2
<1>10. ASSUME NEW p \in Procs, StartCleanAll(p) PROVE Typed'
  BY <1>10 DEF StartCleanAll
<1>11. ASSUME NEW p \in Procs, Crash(p) PROVE Typed'
  BY <1>11 DEF Crash
<1>12. CASE UNCHANGED vars
  BY <1>12 DEF vars, local
<1>13. ASSUME NEW p \in Procs, Wipe(p) PROVE Typed'
  BY <1>13 DEF Wipe
<1>14. ASSUME NEW p \in Procs, NEW r \in Repos, RemoveDir(p, r) PROVE Typed'
  BY <1>14 DEF RemoveDir, local
<1>15. ASSUME NEW p \in Procs, RemoveFile(p) PROVE Typed'
  BY <1>15 DEF RemoveFile
<1>16. ASSUME NEW p \in Procs, EndCleanAll(p) PROVE Typed'
  <2>1. End(p) /\ together' \in BOOLEAN /\ taken' = {}
        /\ UNCHANGED <<file, dirs, data, ledger, overlapped, cut>>
    BY <1>16 DEF EndCleanAll
  <2> QED BY <2>1, EndIsTyped
<1> QED BY <1>1, <1>2, <1>3, <1>4, <1>5, <1>6, <1>7, <1>8, <1>9, <1>10, <1>11, <1>12, <1>13,
           <1>14, <1>15, <1>16 DEF Next

\* The types of Registry are invariant.
THEOREM TypeCorrect == Spec => []TypeOK
<1>1. Typed => TypeOK
  BY DEF Typed
<1> QED BY <1>1, TypedInit, TypedStep, PTL DEF Spec

-----------------------------------------------------------------------------
\* What a command makes of a set of registered repositories.
EditOf(p, S) == IF cmd[p] = "delete" THEN S \ {repo[p]} ELSE S \cup {repo[p]}

\* As long as no save was late or cut: there is one writer at most, it holds the
\* ledger with its own change, and nobody else's copy is up to date meanwhile.
Coherent ==
    ~overlapped /\ ~cut =>
        /\ Quiet => file # Torn /\ Content = ledger
        /\ \A p \in Procs : pc[p] = "write" => file = Torn /\ copy[p] = EditOf(p, ledger)
        /\ \A p, q \in Procs : pc[p] = "write" /\ pc[q] = "write" => p = q
        /\ \A p, q \in Procs : pc[p] = "write" /\ pc[q] = "truncate" => ~fresh[q]
        /\ \A p \in Procs : pc[p] = "truncate" /\ fresh[p] => copy[p] = EditOf(p, Content)

LEMMA CoherentStep == Typed /\ Coherent /\ [Next]_vars => Coherent'
<1> DEFINE Goal ==
      /\ Quiet' => file' # Torn /\ Content' = ledger'
      /\ \A p \in Procs : pc'[p] = "write" => file' = Torn /\ copy'[p] = EditOf(p, ledger)'
      /\ \A p, q \in Procs : pc'[p] = "write" /\ pc'[q] = "write" => p = q
      /\ \A p, q \in Procs : pc'[p] = "write" /\ pc'[q] = "truncate" => ~fresh'[q]
      /\ \A p \in Procs : pc'[p] = "truncate" /\ fresh'[p] => copy'[p] = EditOf(p, Content)'
<1> SUFFICES ASSUME Typed, Coherent, [Next]_vars, ~overlapped', ~cut' PROVE Goal
  BY DEF Coherent
<1> USE RegistryAssumption DEF Typed, TypeOK, Steps, Goto, Begin, End, Quiet, EditOf, Stages
<1>1. ASSUME NEW p \in Procs, NEW r \in Repos, NEW force \in BOOLEAN, StartAnalyze(p, r, force)
      PROVE  Goal
  BY <1>1 DEF StartAnalyze, Coherent, Content
<1>2. ASSUME NEW p \in Procs, Build(p) PROVE Goal
  BY <1>2 DEF Build, Coherent, Content
<1>3. ASSUME NEW p \in Procs, Load(p) PROVE Goal
  <2>1. CASE file = Torn
    BY <1>3, <2>1 DEF Load, Coherent, Content
  <2>2. CASE file # Torn
    <3>1. Content' = Content
      BY <1>3, <2>2 DEF Load, Content
    <3> QED BY <1>3, <2>2, <3>1 DEF Load, Coherent
  <2> QED BY <2>1, <2>2
<1>4. ASSUME NEW p \in Procs, NEW r \in Repos, StartDelete(p, r) PROVE Goal
  <2>1. Content' = Content
    BY <1>4 DEF StartDelete, Content
  <2> QED BY <1>4, <2>1 DEF StartDelete, Coherent
<1>5. ASSUME NEW p \in Procs, Truncate(p) PROVE Goal
  <2>1. fresh[p] /\ ~overlapped /\ ~cut
    BY <1>5 DEF Truncate
  <2>2. Quiet /\ Content = ledger /\ copy[p] = EditOf(p, ledger)
    BY <1>5, <2>1 DEF Truncate, Coherent
  <2> QED BY <1>5, <2>1, <2>2 DEF Truncate, Coherent
<1>6. ASSUME NEW p \in Procs, Write(p) PROVE Goal
  <2>0. pc[p] = "write" /\ ~overlapped /\ ~cut
    BY <1>6 DEF Write
  <2>1. file = Torn /\ copy[p] = EditOf(p, ledger) /\ repo[p] \in Repos
    BY <2>0 DEF Coherent
  <2>2. ledger' = EditOf(p, ledger)
    BY <1>6 DEF Write
  <2>3. file' = ledger' /\ file' \in SUBSET Repos
    BY <1>6, <2>0, <2>1, <2>2 DEF Write
  <2>4. Content' = ledger' /\ file' # Torn
    BY <2>3 DEF Content
  <2>5. \A q \in Procs : pc'[q] # "write" /\ (pc'[q] = "truncate" => ~fresh'[q])
    BY <1>6, <2>0 DEF Write, Coherent
  <2> QED BY <2>4, <2>5
<1>7. ASSUME NEW p \in Procs, Unlink(p) PROVE Goal
  BY <1>7 DEF Unlink, Coherent, Content
<1>8. ASSUME NEW p \in Procs, StartClean(p) PROVE Goal
  BY <1>8 DEF StartClean, Coherent, Content
<1>9. ASSUME NEW p \in Procs, NEW r \in Repos, Sweep(p, r) PROVE Goal
  <2>1. ~overlapped /\ ~cut /\ UNCHANGED <<file, ledger>> /\ pc[p] = "sweep"
    BY <1>9 DEF Sweep
  <2>2. \A q \in Procs \ {p} : pc'[q] = pc[q] /\ cmd'[q] = cmd[q] /\ repo'[q] = repo[q]
                                /\ copy'[q] = copy[q] /\ fresh'[q] = fresh[q]
    BY <1>9 DEF Sweep
  <2>3. pc'[p] \in {"idle", "sweep"}
    BY <1>9 DEF Sweep
  <2>4. \A q \in Procs : pc'[q] \in {"write", "truncate"} => q # p /\ pc[q] = pc'[q]
    BY <2>2, <2>3
  <2>5. Quiet <=> Quiet'
    BY <2>1, <2>2, <2>3
  <2>6. Content' = Content
    BY <2>1 DEF Content
  <2>7. \A q \in Procs : pc'[q] \in {"write", "truncate"} =>
            EditOf(q, ledger)' = EditOf(q, ledger) /\ EditOf(q, Content)' = EditOf(q, Content)
    BY <2>1, <2>2, <2>4, <2>6
  <2>8. \A q \in Procs : pc'[q] \in {"write", "truncate"} =>
            copy'[q] = copy[q] /\ fresh'[q] = fresh[q]
    BY <2>2, <2>4
  <2>9. Quiet' => file' # Torn /\ Content' = ledger'
    BY <2>1, <2>5, <2>6 DEF Coherent
  <2>10. \A q \in Procs : pc'[q] = "write" => file' = Torn /\ copy'[q] = EditOf(q, ledger)'
    <3> SUFFICES ASSUME NEW q \in Procs, pc'[q] = "write"
                 PROVE  file' = Torn /\ copy'[q] = EditOf(q, ledger)'
      OBVIOUS
    <3>1. file = Torn /\ copy[q] = EditOf(q, ledger)
      BY <2>1, <2>4 DEF Coherent
    <3> HIDE DEF EditOf
    <3> QED BY <2>1, <2>7, <2>8, <3>1
  <2>11. \A q, s \in Procs : pc'[q] = "write" /\ pc'[s] = "write" => q = s
    BY <2>1, <2>4 DEF Coherent
  <2>12. \A q, s \in Procs : pc'[q] = "write" /\ pc'[s] = "truncate" => ~fresh'[s]
    BY <2>1, <2>4, <2>8 DEF Coherent
  <2>13. \A q \in Procs : pc'[q] = "truncate" /\ fresh'[q] => copy'[q] = EditOf(q, Content)'
    <3> SUFFICES ASSUME NEW q \in Procs, pc'[q] = "truncate", fresh'[q]
                 PROVE  copy'[q] = EditOf(q, Content)'
      OBVIOUS
    <3>1. copy[q] = EditOf(q, Content)
      BY <2>1, <2>4, <2>8 DEF Coherent
    <3> HIDE DEF EditOf
    <3> QED BY <2>7, <2>8, <3>1
  <2> QED BY <2>9, <2>10, <2>11, <2>12, <2>13
<1>10. ASSUME NEW p \in Procs, StartCleanAll(p) PROVE Goal
  BY <1>10 DEF StartCleanAll, Coherent, Content
<1>11. ASSUME NEW p \in Procs, Crash(p) PROVE Goal
  BY <1>11 DEF Crash, Coherent, Content
<1>12. CASE UNCHANGED vars
  BY <1>12 DEF vars, local, Coherent, Content
<1>13. ASSUME NEW p \in Procs, Wipe(p) PROVE Goal
  BY <1>13 DEF Wipe, Coherent, Content
<1>14. ASSUME NEW p \in Procs, NEW r \in Repos, RemoveDir(p, r) PROVE Goal
  BY <1>14 DEF RemoveDir, local, Coherent, Content
<1>15. ASSUME NEW p \in Procs, RemoveFile(p) PROVE Goal
  <2>1. \A q \in Procs : pc'[q] # "write" /\ ~fresh'[q]
    BY <1>15 DEF RemoveFile
  <2>2. file' = NoFile /\ Content' = {} /\ ledger' = {}
    BY <1>15 DEF RemoveFile, Content
  <2> QED BY <2>1, <2>2
<1>16. ASSUME NEW p \in Procs, EndCleanAll(p) PROVE Goal
  BY <1>16 DEF EndCleanAll, Coherent, Content
<1> HIDE DEF Goal
<1> QED BY <1>1, <1>2, <1>3, <1>4, <1>5, <1>6, <1>7, <1>8, <1>9, <1>10, <1>11, <1>12, <1>13,
           <1>14, <1>15, <1>16 DEF Next

\* The registry is exact unless two read-modify-write cycles overlapped or a
\* save was cut.
THEOREM RegistryIsExact == Spec => []LossNeedsOverlapOrCrash
<1>1. Init => Coherent
  BY RegistryAssumption DEF Init, Coherent, Content, Quiet
<1>2. Coherent => LossNeedsOverlapOrCrash
  BY DEF Coherent, LossNeedsOverlapOrCrash
<1> QED BY <1>1, <1>2, TypedInit, TypedStep, CoherentStep, PTL DEF Spec

-----------------------------------------------------------------------------
\* As long as commands run one at a time: one process at most is at work, what
\* the registry lists or is about to list has its index or had it taken, and what
\* is about to be removed is not listed.
Alone == \A p, q \in Procs : pc[p] # "idle" /\ pc[q] # "idle" => p = q

BackedAlone ==
    /\ Alone /\ \A p \in Procs : pc[p] # "adrift"
    /\ file # Torn => Content \ taken \subseteq data
    /\ \A p \in Procs :
          /\ pc[p] = "load" => repo[p] \in data
          /\ pc[p] \in {"truncate", "write"} => copy[p] \ taken \subseteq data
          /\ pc[p] \in {"truncate", "write"} /\ cmd[p] = "delete" => repo[p] \notin copy[p]
          /\ pc[p] = "unlink" /\ file # Torn => repo[p] \notin Content
          /\ pc[p] = "sweep" /\ file # Torn => copy[p] \cap Content = {}

Backed == ~together => BackedAlone

LEMMA BackedStep == Typed /\ Backed /\ [Next]_vars => Backed'
<1> SUFFICES ASSUME Typed, Backed, [Next]_vars, ~together' PROVE BackedAlone'
  BY DEF Backed
<1>0. BackedAlone \/ \E p \in Procs : EndCleanAll(p)
  <2>1. CASE ~together
    BY <2>1 DEF Backed
  <2>2. CASE together
    BY <2>2 DEF Next, vars, StartAnalyze, Wipe, Build, Load, StartDelete, Truncate, Write,
               Unlink, StartClean, Sweep, StartCleanAll, RemoveDir, RemoveFile, Crash, Begin
  <2> QED BY <2>1, <2>2
<1> USE RegistryAssumption DEF Typed, TypeOK, Steps, Goto, Begin, End, Backed, BackedAlone,
       Alone, Content
<1>1. ASSUME NEW p \in Procs, NEW r \in Repos, NEW force \in BOOLEAN, StartAnalyze(p, r, force)
      PROVE  BackedAlone'
  BY <1>1 DEF StartAnalyze
<1>2. ASSUME NEW p \in Procs, Build(p) PROVE BackedAlone'
  BY <1>2 DEF Build
<1>3. ASSUME NEW p \in Procs, Load(p) PROVE BackedAlone'
  <2>1. CASE file = Torn
    BY <1>3, <2>1 DEF Load
  <2>2. CASE file # Torn
    BY <1>3, <2>2 DEF Load
  <2> QED BY <2>1, <2>2
<1>4. ASSUME NEW p \in Procs, NEW r \in Repos, StartDelete(p, r) PROVE BackedAlone'
  BY <1>4 DEF StartDelete
<1>5. ASSUME NEW p \in Procs, Truncate(p) PROVE BackedAlone'
  BY <1>5 DEF Truncate
<1>6. ASSUME NEW p \in Procs, Write(p) PROVE BackedAlone'
  <2>1. pc[p] = "write" /\ copy[p] \in SUBSET Repos /\ copy[p] \ taken \subseteq data
    BY <1>0, <1>6 DEF Write, EndCleanAll
  <2>2. file' # Torn => Content' = copy[p]
    BY <1>6, <2>1 DEF Write
  <2>3. CASE cmd[p] = "delete"
    BY <1>6, <2>1, <2>2, <2>3 DEF Write
  <2>4. CASE cmd[p] # "delete"
    BY <1>6, <2>1, <2>2, <2>4 DEF Write
  <2> QED BY <2>3, <2>4
<1>7. ASSUME NEW p \in Procs, Unlink(p) PROVE BackedAlone'
  BY <1>7 DEF Unlink
<1>8. ASSUME NEW p \in Procs, StartClean(p) PROVE BackedAlone'
  BY <1>8 DEF StartClean, Orphans
<1>9. ASSUME NEW p \in Procs, NEW r \in Repos, Sweep(p, r) PROVE BackedAlone'
  <2>1. file # Torn => Content' \ taken' \subseteq data'
    BY <1>9 DEF Sweep
  <2>2. CASE r \notin dirs \/ copy[p] = {r}
    BY <1>9, <2>1, <2>2 DEF Sweep
  <2>3. CASE ~(r \notin dirs \/ copy[p] = {r})
    BY <1>9, <2>1, <2>3 DEF Sweep
  <2> QED BY <2>2, <2>3
<1>10. ASSUME NEW p \in Procs, StartCleanAll(p) PROVE BackedAlone'
  BY <1>10 DEF StartCleanAll
<1>11. ASSUME NEW p \in Procs, Crash(p) PROVE BackedAlone'
  BY <1>11 DEF Crash
<1>12. CASE UNCHANGED vars
  BY <1>12 DEF vars, local
<1>13. ASSUME NEW p \in Procs, Wipe(p) PROVE BackedAlone'
  BY <1>13 DEF Wipe
<1>14. ASSUME NEW p \in Procs, NEW r \in Repos, RemoveDir(p, r) PROVE BackedAlone'
  BY <1>14 DEF RemoveDir, local
<1>15. ASSUME NEW p \in Procs, RemoveFile(p) PROVE BackedAlone'
  <2>1. \A q \in Procs : q # p => pc[q] = "idle"
    BY <1>15 DEF RemoveFile
  <2> QED BY <1>15, <2>1 DEF RemoveFile
<1>16. ASSUME NEW p \in Procs, EndCleanAll(p) PROVE BackedAlone'
  <2>1. \A q \in Procs : q # p => pc[q] = "idle"
    <3>1. CASE together
      BY <1>16, <3>1 DEF EndCleanAll
    <3>2. CASE ~together
      BY <1>16, <3>2 DEF EndCleanAll
    <3> QED BY <3>1, <3>2
  <2>2. \A q \in Procs : pc'[q] = "idle"
    BY <1>16, <2>1 DEF EndCleanAll
  <2>3. file' = NoFile /\ data' = data
    BY <1>16 DEF EndCleanAll
  <2> QED BY <2>2, <2>3
<1> QED BY <1>1, <1>2, <1>3, <1>4, <1>5, <1>6, <1>7, <1>8, <1>9, <1>10, <1>11, <1>12, <1>13,
           <1>14, <1>15, <1>16 DEF Next

\* Commands that run one at a time list a repository without its index only where an
\* analysis wiped it and did not come to store it anew, or `clean --all` removed it,
\* wherever they die.
THEOREM OneAtATime == Spec => []ListedHasIndex
<1>1. Init => Backed
  BY RegistryAssumption DEF Init, Backed, BackedAlone, Alone, Content
<1>2. Backed => ListedHasIndex
  BY DEF Backed, BackedAlone, ListedHasIndex
<1> QED BY <1>1, <1>2, BackedStep, TypedInit, TypedStep, PTL DEF Spec

-----------------------------------------------------------------------------
\* A registry that was left torn stays torn until `myc clean --all`.
THEOREM TornIsStable == Spec => TornStays
<1>1. Typed /\ [Next]_vars => (TornForGood => TornForGood' \/ file' = NoFile)
  <2> SUFFICES ASSUME Typed, [Next]_vars, TornForGood, file' # NoFile PROVE TornForGood'
    OBVIOUS
  <2> USE RegistryAssumption DEF Typed, TypeOK, TornForGood, Goto, Begin, End
  <2>1. ASSUME NEW p \in Procs, NEW r \in Repos, NEW force \in BOOLEAN,
               StartAnalyze(p, r, force) \/ StartDelete(p, r)
        PROVE  TornForGood'
    BY <2>1 DEF StartAnalyze, StartDelete
  <2>2. ASSUME NEW p \in Procs, Wipe(p) \/ Build(p) \/ Load(p) \/ Unlink(p) \/ StartClean(p)
        PROVE  TornForGood'
    BY <2>2 DEF Wipe, Build, Load, Unlink, StartClean
  <2>3. ASSUME NEW p \in Procs, Truncate(p) \/ Write(p) PROVE TornForGood'
    BY <2>3 DEF Truncate, Write
  <2>4. ASSUME NEW p \in Procs, NEW r \in Repos, Sweep(p, r) \/ RemoveDir(p, r)
        PROVE  TornForGood'
    BY <2>4 DEF Sweep, RemoveDir, local
  <2>5. ASSUME NEW p \in Procs, StartCleanAll(p) \/ RemoveFile(p) \/ EndCleanAll(p)
        PROVE  TornForGood'
    BY <2>5 DEF StartCleanAll, RemoveFile, EndCleanAll
  <2>6. ASSUME NEW p \in Procs, Crash(p) PROVE TornForGood'
    BY <2>6 DEF Crash
  <2>7. CASE UNCHANGED vars
    BY <2>7 DEF vars, local
  <2> QED BY <2>1, <2>2, <2>3, <2>4, <2>5, <2>6, <2>7 DEF Next
<1> QED BY <1>1, TypedInit, TypedStep, PTL DEF Spec, TornStays

-----------------------------------------------------------------------------
(***************************************************************************)
(* The mail sync.                                                          *)
(*                                                                         *)
(* A message that is fetched again gets the same file name: the number of  *)
(* messages above the saved UID and up to its own (MailRank) does not      *)
(* depend on how many arrived since; it does on those that went, and then  *)
(* the folder is in shifted.  So whatever a failed sync left behind in     *)
(* another folder is where the next one deletes before it stores           *)
(* (RowsPlaced).  A message that is gone is never fetched again.           *)
(***************************************************************************)
\* The messages up to a UID in a batch that is fetched now from a UID on, and so the
\* position of the last, however many messages came after it.
Ahead(f, from, u)    == (Parsed(f, from, u) \ expunged) \cup {<<f, u>>}
MailRank(f, from, u) == Cardinality(Ahead(f, from, u))

AtWork(p)  == syncStep[p] # "idle"
Batched(p) == syncStep[p] \in {"write", "purge", "store"}
Done(p, f) == \E i \in DOMAIN Folders :
                 Folders[i] = f /\ (i < at[p] \/ (i = at[p] /\ syncStep[p] # "fetch"))

\* Where a sync is among its folders, and its batch within the bound.
InPlace ==
    \A p \in Syncs :
        /\ Slots(batch[p]) \subseteq Positions
        /\ syncStep[p] = "idle" => at[p] = 1
        /\ syncStep[p] \in {"fetch", "write", "purge", "store", "clean"} => at[p] \in DOMAIN Folders
        /\ syncStep[p] \in {"save", "cut"} => at[p] = Len(Folders) + 1

\* The rows, the files and the batches are of messages that are there and parse.
Real == {m \in Mail \ Malformed : m[2] <= mailbox[m[1]]}
MailIsReal ==
    /\ \A i \in Positions : row[i] \subseteq Real /\ temp[i] \subseteq Real
    /\ \A p \in Syncs : batch[p] \subseteq Real

OneAtWork == \A p, q \in Syncs : AtWork(p) /\ AtWork(q) => p = q

\* A folder that was not fetched is where the state file has it.
StateIsBase(p) ==
    syncStep[p] # "cut" =>
        saved # TornState /\ \A f \in Names : Done(p, f) \/ last[p][f] = Base(f)

\* A folder that was fetched has no rows above its last UID, of whichever sync.
RowsBelow(p) ==
    \A f \in Names : Done(p, f) =>
        \A i \in Positions : \A m \in row[i] \ expunged : m[1] = f => m[2] <= last[p][f]

\* The batch of a sync, where its messages and their rows are as long as none before them
\* went, its files, and the rows it is about to store.
PlacedFor(p) ==
    \A m \in batch[p] :
        /\ m \notin expunged => Position(batch[p], m) = MailRank(m[1], Base(m[1]), m[2])
        /\ \A i \in Positions : m \in row[i] => i = Position(batch[p], m)
BatchIs(p) ==
    Batched(p) =>
        /\ batch[p] \subseteq Parsed(Folder(p), Base(Folder(p)), last[p][Folder(p)])
        /\ Folder(p) \in shifted \/ PlacedFor(p)
FilesAre(p) ==
    syncStep[p] \in {"purge", "store"} =>
        \A i \in Slots(batch[p]) : temp[i] = {m \in batch[p] : Position(batch[p], m) = i}
NamesFree(p) ==
    syncStep[p] = "store" => \A i \in Slots(batch[p]) : row[i] = {}

\* What the state of a sync passes over is stored, or in the batch it is about to store.
PassedStored(p) ==
    \A m \in Mail \ Malformed :
        m[2] <= last[p][m[1]] => m \in stored \cup expunged \/ (Batched(p) /\ m \in batch[p])

Working(p) ==
    AtWork(p) => /\ StateIsBase(p) /\ RowsBelow(p) /\ BatchIs(p) /\ FilesAre(p)
                 /\ NamesFree(p) /\ PassedStored(p)

\* Rows the saved position does not pass over are where a retry will put them.
RowsPlaced ==
    saved # TornState =>
        \A i \in Positions : \A m \in row[i] \ expunged :
            \/ m[1] \in shifted
            \/ m[2] <= Base(m[1]) \/ i = MailRank(m[1], Base(m[1]), m[2])

RowsApart ==
    \A i, j \in Positions : i # j => \A m \in row[i] \cap row[j] : m[1] \in shifted
SavedStored == Seen \ Malformed \subseteq stored \cup expunged

SyncInv ==
    /\ OneAtWork /\ \A p \in Syncs : Working(p)
    /\ RowsPlaced /\ RowsApart /\ SavedStored
MailInv == MailTypeOK /\ InPlace /\ MailIsReal /\ (syncsOverlapped \/ SyncInv)

LEMMA LeastNumber ==
  ASSUME NEW T, T \subseteq Nat, T # {}
  PROVE  \E m \in T : \A n \in T : m <= n
<1> DEFINE R == {ss \in Nat \X Nat : ss[1] < ss[2]}
<1>1. IsWellFoundedOn(R, Nat)
  BY NatLessThanWellFounded DEF OpToRel
<1>2. \E m \in T : \A n \in T : ~(<<n, m>> \in R)
  <2> HIDE DEF R
  <2> QED BY <1>1, WFMin
<1>3. PICK m \in T : \A n \in T : ~(<<n, m>> \in R)
  BY <1>2
<1>4. ASSUME NEW n \in T PROVE m <= n
  <2>1. m \in Nat /\ n \in Nat /\ ~(<<n, m>> \in R)
    BY <1>3
  <2>2. ~(n < m)
    BY <2>1
  <2> HIDE DEF R
  <2> QED BY <2>1, <2>2
<1> QED BY <1>4

LEMMA GreatestNumber ==
  ASSUME NEW S, NEW bound \in Nat, \A u \in S : u \in 0..bound, S # {}
  PROVE  \E u \in S : \A v \in S : v <= u
<1> DEFINE T == {k \in Nat : bound - k \in S}
<1>1. ASSUME NEW u \in S PROVE u \in 0..bound /\ bound - u \in T
  <2>1. u \in 0..bound /\ bound - (bound - u) = u /\ bound - u \in Nat
    OBVIOUS
  <2>2. bound - (bound - u) \in S
    BY <2>1
  <2> QED BY <2>1, <2>2
<1>2. T # {} /\ T \subseteq Nat
  BY <1>1
<1>3. PICK t \in T : \A n \in T : t <= n
  <2> HIDE DEF T
  <2> QED BY <1>2, LeastNumber
<1>4. bound - t \in S /\ t \in Nat
  BY <1>3
<1>5. ASSUME NEW v \in S PROVE v <= bound - t
  <2>1. v \in 0..bound /\ t <= bound - v
    BY <1>1, <1>3
  <2> QED BY <1>4, <2>1
<1> QED BY <1>4, <1>5

LEMMA InParsed ==
  ASSUME NEW f \in Names, NEW from \in Nat, NEW upto \in 0..MaxUid
  PROVE  /\ Parsed(f, from, upto) \subseteq Mail
         /\ \A m \in Mail : m \in Parsed(f, from, upto) <=>
                m[1] = f /\ from < m[2] /\ m[2] <= upto /\ m \notin Malformed
BY EmailAssumption DEF Parsed, Mail

LEMMA ParsedIsSmall ==
  ASSUME NEW f \in Names, NEW from \in Nat, NEW upto \in 0..MaxUid,
         NEW mails, mails \subseteq Parsed(f, from, upto)
  PROVE  IsFiniteSet(mails) /\ Slots(mails) \subseteq Positions
<1> DEFINE all == {f} \X (from + 1..upto)
<1>1. IsFiniteSet({f}) /\ Cardinality({f}) = 1
  BY FS_Singleton
<1>2. /\ IsFiniteSet(from + 1..upto)
      /\ Cardinality(from + 1..upto) = IF from + 1 > upto THEN 0 ELSE upto - (from + 1) + 1
  <2>1. from + 1 \in Int /\ upto \in Int
    BY EmailAssumption
  <2> QED BY <2>1, FS_Interval, Zenon
<1>3. IsFiniteSet(all) /\ Cardinality(all) = Cardinality({f}) * Cardinality(from + 1..upto)
  BY <1>1, <1>2, FS_Product
<1>4. Cardinality(all) <= MaxUid
  <2>1. Cardinality(from + 1..upto) \in Nat /\ Cardinality(from + 1..upto) <= MaxUid
    BY <1>2, EmailAssumption
  <2> HIDE DEF all
  <2>2. Cardinality(all) = Cardinality(from + 1..upto)
    BY <1>1, <1>3, <2>1
  <2> QED BY <2>1, <2>2
<1>5. mails \subseteq all
  BY DEF Parsed
<1> HIDE DEF all
<1>6. IsFiniteSet(mails) /\ Cardinality(mails) <= Cardinality(all)
  BY <1>3, <1>5, FS_Subset
<1>7. Cardinality(mails) \in Nat /\ Cardinality(all) \in Nat
  BY <1>3, <1>6, FS_CardinalityType
<1> QED BY <1>4, <1>6, <1>7, EmailAssumption DEF Slots, Positions

LEMMA PositionIsSlot ==
  ASSUME NEW f \in Names, NEW from \in Nat, NEW upto \in 0..MaxUid,
         NEW mails, mails \subseteq Parsed(f, from, upto), NEW m \in mails
  PROVE  Position(mails, m) \in Slots(mails)
<1> DEFINE upTo == {n \in mails : n[2] <= m[2]}
<1>1. m \in Mail
  BY InParsed
<1>2. IsFiniteSet(mails)
  BY ParsedIsSmall
<1>3. IsFiniteSet(upTo) /\ Cardinality(upTo) <= Cardinality(mails)
  BY <1>2, FS_Subset
<1>4. m \in upTo
  BY <1>1 DEF Mail
<1>5. Cardinality(upTo) \in Nat /\ Cardinality(mails) \in Nat /\ Cardinality(upTo) # 0
  BY <1>2, <1>3, <1>4, FS_CardinalityType, FS_EmptySet
<1>6. Position(mails, m) = Cardinality(upTo)
  BY DEF Position
<1> HIDE DEF upTo
<1> QED BY <1>3, <1>5, <1>6 DEF Slots

\* The position of a message in a batch that is fetched now.
LEMMA PositionIsRank ==
  ASSUME NEW f \in Names, NEW from \in Nat, NEW upto \in 0..MaxUid,
         NEW mails, mails = Parsed(f, from, upto) \ expunged, NEW m \in mails
  PROVE  Position(mails, m) = MailRank(f, from, m[2])
<1> DEFINE upTo == {n \in mails : n[2] <= m[2]}
<1>1. /\ m \in Mail /\ m[2] \in 0..MaxUid /\ m[2] <= upto /\ m = <<f, m[2]>>
      /\ m \in Parsed(f, from, upto)
  BY InParsed, EmailAssumption DEF Mail
<1>2. upTo = Ahead(f, from, m[2])
  <2>1. Parsed(f, from, m[2]) \subseteq Mail /\ mails \subseteq Mail
    BY <1>1, InParsed
  <2>2. \A n \in Mail : n[2] \in Nat
    BY DEF Mail
  <2>3. ASSUME NEW n \in Mail
        PROVE n \in upTo <=> n \in Parsed(f, from, m[2]) /\ n \notin expunged
    <3>1. n \in mails
             <=> n[1] = f /\ from < n[2] /\ n[2] <= upto /\ n \notin Malformed /\ n \notin expunged
      BY InParsed
    <3>2. n \in Parsed(f, from, m[2])
             <=> n[1] = f /\ from < n[2] /\ n[2] <= m[2] /\ n \notin Malformed
      BY <1>1, InParsed
    <3> QED BY <1>1, <2>2, <3>1, <3>2, EmailAssumption
  <2>4. upTo = Parsed(f, from, m[2]) \ expunged
    BY <2>1, <2>3
  <2>5. m \in upTo
    BY <1>1, <2>2
  <2> HIDE DEF upTo
  <2> QED BY <1>1, <2>4, <2>5 DEF Ahead
<1>3. Position(mails, m) = Cardinality(upTo)
  BY DEF Position
<1> HIDE DEF upTo
<1> QED BY <1>2, <1>3 DEF MailRank

LEMMA NewestIs ==
  ASSUME NEW mails, mails \subseteq Mail, mails # {}
  PROVE  /\ \A m \in mails : m[2] <= Newest(mails)
         /\ \E m \in mails : m[2] = Newest(mails)
<1> DEFINE uids == {m[2] : m \in mails}
<1>1. \A u \in uids : u \in 0..MaxUid
  BY EmailAssumption DEF Mail
<1>2. uids # {}
  <2>1. PICK m \in mails : TRUE
    OBVIOUS
  <2>2. m[2] \in uids
    OBVIOUS
  <2> QED BY <2>2, Zenon
<1>3. PICK u \in uids : \A v \in uids : v <= u
  <2> HIDE DEF uids
  <2> QED BY <1>1, <1>2, GreatestNumber, EmailAssumption
<1>4. \A m \in mails : m[2] \in uids
  OBVIOUS
<1>5. \A m \in mails : m[2] <= u
  <2> HIDE DEF uids
  <2> QED BY <1>3, <1>4
<1>6. Newest(mails) \in uids /\ \A m \in mails : m[2] <= Newest(mails)
  BY <1>3, <1>5, Zenon DEF Newest
<1> QED BY <1>6

-----------------------------------------------------------------------------
\* What a fetch returns, by name.
Fetched(p) == Parsed(Folder(p), last[p][Folder(p)], mailbox[Folder(p)]) \ expunged

LEMMA FolderIsAName ==
  ASSUME MailTypeOK, NEW p \in Syncs, at[p] \in DOMAIN Folders
  PROVE  /\ Folder(p) \in Names
         /\ last[p] \in Uids /\ last[p][Folder(p)] \in Nat
         /\ mailbox[Folder(p)] \in 0..MaxUid
<1>1. Folder(p) \in Names
  BY DEF Folder, Names
<1>2. last[p] \in Uids /\ mailbox \in Uids
  BY DEF MailTypeOK
<1>3. ASSUME NEW uids \in Uids PROVE uids[Folder(p)] \in 0..MaxUid
  BY <1>1 DEF Uids
<1> QED BY <1>1, <1>2, <1>3, EmailAssumption

LEMMA FetchedIs ==
  ASSUME MailTypeOK, NEW p \in Syncs, at[p] \in DOMAIN Folders
  PROVE  /\ Fetched(p) \subseteq Mail
         /\ Fetched(p) # {} => Newest(Fetched(p)) \in 1..MaxUid
<1>1. Fetched(p) \subseteq Mail
  <2>1. Folder(p) \in Names /\ last[p][Folder(p)] \in Nat /\ mailbox[Folder(p)] \in 0..MaxUid
    BY FolderIsAName
  <2> QED BY <2>1, InParsed DEF Fetched
<1>2. ASSUME Fetched(p) # {} PROVE Newest(Fetched(p)) \in 1..MaxUid
  <2>1. PICK m \in Fetched(p) : m[2] = Newest(Fetched(p))
    BY <1>1, <1>2, NewestIs
  <2>2. m \in Mail
    BY <1>1
  <2> QED BY <2>1, <2>2 DEF Mail
<1> QED BY <1>1, <1>2

LEMMA FetchIs ==
  ASSUME NEW p \in Syncs, Fetch(p)
  PROVE  /\ syncStep[p] = "fetch"
         /\ batch' = [batch EXCEPT ![p] = Fetched(p)]
         /\ \/ Fetched(p) = {} /\ NextFolder(p) /\ last' = last
            \/ /\ Fetched(p) # {}
               /\ last' = [last EXCEPT ![p] = [@ EXCEPT ![Folder(p)] = Newest(Fetched(p))]]
               /\ Move(p, "write") /\ at' = at
         /\ UNCHANGED <<mailbox, expunged, shifted, saved, temp, row, stored, syncsOverlapped>>
BY DEF Fetch, FetchFrom, Fetched

LEMMA NoSlots == Slots({}) \subseteq Positions
BY FS_EmptySet DEF Slots

LEMMA MailTypedInit == MailInit => MailTypeOK /\ InPlace
<1> SUFFICES ASSUME MailInit PROVE MailTypeOK /\ InPlace
  OBVIOUS
<1>1. Unseen \in Uids
  BY EmailAssumption DEF Unseen, Uids
<1>2. Len(Folders) \in Nat
  BY EmailAssumption
<1>3. Empty \in [Positions -> SUBSET Mail]
  BY DEF Empty
<1>4. InPlace
  BY NoSlots DEF MailInit, InPlace
<1>5. /\ at \in [Syncs -> 1..Len(Folders) + 1] /\ last \in [Syncs -> Uids]
      /\ batch \in [Syncs -> SUBSET Mail]
  BY <1>1, <1>2 DEF MailInit
<1> QED BY <1>1, <1>3, <1>4, <1>5 DEF MailInit, MailTypeOK

LEMMA MailTypedStep == MailTypeOK /\ InPlace /\ [MailNext]_mailVars => MailTypeOK' /\ InPlace'
<1> SUFFICES ASSUME MailTypeOK, InPlace, [MailNext]_mailVars PROVE MailTypeOK' /\ InPlace'
  OBVIOUS
<1> USE DEF MailTypeOK
<1>0. Len(Folders) \in Nat /\ DOMAIN Folders = 1..Len(Folders) /\ Unseen \in Uids
  BY EmailAssumption DEF Unseen, Uids
<1>1. ASSUME NEW f \in Names, Arrive(f) PROVE MailTypeOK' /\ InPlace'
  <2>1. mailbox' \in Uids
    BY <1>1, EmailAssumption DEF Arrive, Uids
  <2> QED BY <1>1, <2>1 DEF Arrive, syncLocal, InPlace
<1>2. ASSUME NEW p \in Syncs, StartSync(p) PROVE MailTypeOK' /\ InPlace'
  <2>1. last' \in [Syncs -> Uids]
    BY <1>0, <1>2 DEF StartSync
  <2>2. at[p] = 1 /\ at' = at
    BY <1>2 DEF StartSync, InPlace
  <2>3. syncsOverlapped' \in BOOLEAN
    BY <1>2 DEF StartSync
  <2>4. MailTypeOK'
    BY <1>2, <2>1, <2>3 DEF StartSync, Move, StepOf
  <2>5. InPlace'
    BY <1>0, <1>2, <2>2 DEF StartSync, Move, StepOf, InPlace
  <2> QED BY <2>4, <2>5
<1>3. ASSUME NEW p \in Syncs, Fetch(p) PROVE MailTypeOK' /\ InPlace'
  <2>1. at[p] \in DOMAIN Folders
    BY <1>3, FetchIs DEF InPlace
  <2>2. batch' \in [Syncs -> SUBSET Mail]
    <3>1. Fetched(p) \subseteq Mail
      BY <2>1, FetchedIs
    <3> QED BY <1>3, <3>1, FetchIs
  <2>5. \A q \in Syncs : Slots(batch'[q]) \subseteq Positions
    <3>1. /\ Folder(p) \in Names /\ last[p][Folder(p)] \in Nat
          /\ mailbox[Folder(p)] \in 0..MaxUid
      BY <2>1, FolderIsAName
    <3>2. Slots(Fetched(p)) \subseteq Positions
      BY <3>1, ParsedIsSmall DEF Fetched
    <3>3. batch' = [batch EXCEPT ![p] = Fetched(p)]
      BY <1>3, FetchIs
    <3> QED BY <3>2, <3>3 DEF InPlace
  <2>3. CASE Fetched(p) = {} /\ NextFolder(p) /\ last' = last
    <3>0. UNCHANGED <<mailbox, expunged, shifted, saved, temp, row, stored, syncsOverlapped>>
      BY <1>3, FetchIs
    <3>1. MailTypeOK'
      <4>1. at' \in [Syncs -> 1..Len(Folders) + 1]
        BY <1>0, <2>1, <2>3 DEF NextFolder
      <4>2. syncStep' = [syncStep EXCEPT ![p] = StepOf(at[p] + 1)]
        BY <2>3 DEF NextFolder, Move
      <4>3. StepOf(at[p] + 1) \in {"fetch", "save"}
        BY DEF StepOf
      <4> QED BY <2>2, <2>3, <3>0, <4>1, <4>2, <4>3
    <3>2. InPlace'
      BY <1>0, <2>1, <2>3, <2>5 DEF NextFolder, Move, StepOf, InPlace
    <3> QED BY <3>1, <3>2
  <2>4. CASE /\ Fetched(p) # {}
             /\ last' = [last EXCEPT ![p] = [@ EXCEPT ![Folder(p)] = Newest(Fetched(p))]]
             /\ Move(p, "write") /\ at' = at
    <3>1. Newest(Fetched(p)) \in 0..MaxUid
      <4>1. Newest(Fetched(p)) \in 1..MaxUid
        BY <2>1, <2>4, FetchedIs
      <4> QED BY <4>1, EmailAssumption
    <3>2. [last[p] EXCEPT ![Folder(p)] = Newest(Fetched(p))] \in Uids
      <4>1. last[p] \in Uids
        OBVIOUS
      <4> QED BY <3>1, <4>1 DEF Uids
    <3>3. last' \in [Syncs -> Uids]
      BY <2>4, <3>2
    <3>4. MailTypeOK'
      BY <1>3, <2>2, <2>4, <3>3, FetchIs DEF Move
    <3>5. InPlace'
      BY <2>1, <2>4, <2>5 DEF Move, InPlace
    <3> QED BY <3>4, <3>5
  <2> QED BY <1>3, <2>3, <2>4, FetchIs
<1>4. ASSUME NEW p \in Syncs, WriteTemp(p) PROVE MailTypeOK' /\ InPlace'
  <2>1. batch[p] \subseteq Mail
    OBVIOUS
  <2>2. temp' \in [Positions -> SUBSET Mail]
    BY <1>4, <2>1 DEF WriteTemp
  <2> QED BY <1>4, <2>2 DEF WriteTemp, Move, InPlace
<1>5. ASSUME NEW p \in Syncs, Purge(p) PROVE MailTypeOK' /\ InPlace'
  BY <1>5 DEF Purge, Move, InPlace
<1>6. ASSUME NEW p \in Syncs, Store(p) PROVE MailTypeOK' /\ InPlace'
  <2>1. \A i \in Slots(batch[p]) : temp[i] \subseteq Mail
    BY DEF InPlace
  <2>2. row' \in [Positions -> SUBSET Mail]
    BY <1>6 DEF Store
  <2>3. stored' \subseteq Mail
    BY <1>6, <2>1 DEF Store
  <2> QED BY <1>6, <2>2, <2>3 DEF Store, Move, InPlace
<1>7. ASSUME NEW p \in Syncs, Clean(p) PROVE MailTypeOK' /\ InPlace'
  <2>1. at[p] \in DOMAIN Folders
    BY <1>7 DEF Clean, InPlace
  <2>2. /\ batch' \in [Syncs -> SUBSET Mail] /\ temp' \in [Positions -> SUBSET Mail]
        /\ \A q \in Syncs : Slots(batch'[q]) \subseteq Positions
    BY <1>7, NoSlots DEF Clean, Empty, InPlace
  <2>3. MailTypeOK'
    BY <1>0, <1>7, <2>1, <2>2 DEF Clean, NextFolder, Move, StepOf
  <2>4. InPlace'
    BY <1>0, <1>7, <2>1, <2>2 DEF Clean, NextFolder, Move, StepOf, InPlace
  <2> QED BY <2>3, <2>4
<1>8. ASSUME NEW p \in Syncs, TruncateState(p) PROVE MailTypeOK' /\ InPlace'
  BY <1>8 DEF TruncateState, Move, InPlace
<1>9. ASSUME NEW p \in Syncs, SaveState(p) PROVE MailTypeOK' /\ InPlace'
  BY <1>0, <1>9, NoSlots DEF SaveState, Quit, Move, InPlace
<1>10. ASSUME NEW p \in Syncs, StopSync(p) PROVE MailTypeOK' /\ InPlace'
  BY <1>0, <1>10, NoSlots DEF StopSync, Quit, Move, InPlace
<1>11. ASSUME NEW f \in Names, NEW u \in 1..MaxUid, Expunge(f, u)
       PROVE  MailTypeOK' /\ InPlace'
  <2>1. expunged' \subseteq Mail /\ shifted' \subseteq Names
    BY <1>11 DEF Expunge, Mail
  <2> QED BY <1>11, <2>1 DEF Expunge, syncLocal, InPlace
<1>12. CASE UNCHANGED mailVars
  BY <1>12 DEF mailVars, syncLocal, InPlace
<1> QED BY <1>1, <1>2, <1>3, <1>4, <1>5, <1>6, <1>7, <1>8, <1>9, <1>10, <1>11, <1>12
        DEF MailNext

LEMMA FetchedIsReal ==
  ASSUME MailTypeOK, NEW p \in Syncs, at[p] \in DOMAIN Folders
  PROVE  Fetched(p) \subseteq Real
<1>1. /\ Folder(p) \in Names /\ last[p][Folder(p)] \in Nat
      /\ mailbox[Folder(p)] \in 0..MaxUid
  BY FolderIsAName
<1>2. Fetched(p) \subseteq Mail
  BY FetchedIs
<1>3. ASSUME NEW m \in Fetched(p)
      PROVE  m \notin Malformed /\ m[2] <= mailbox[m[1]]
  BY <1>1, <1>2, InParsed DEF Fetched
<1> QED BY <1>2, <1>3 DEF Real

LEMMA MailIsRealStep ==
  MailTypeOK /\ InPlace /\ MailIsReal /\ [MailNext]_mailVars => MailIsReal'
<1> SUFFICES ASSUME MailTypeOK, InPlace, MailIsReal, [MailNext]_mailVars PROVE MailIsReal'
  OBVIOUS
<1>0. ASSUME UNCHANGED mailbox PROVE Real' = Real
  BY <1>0 DEF Real
<1>1. ASSUME NEW f \in Names, Arrive(f) PROVE MailIsReal'
  <2>1. Real \subseteq Real'
    <3>1. \A m \in Mail : m[1] \in Names /\ mailbox[m[1]] <= mailbox'[m[1]]
      BY <1>1, EmailAssumption DEF Arrive, MailTypeOK, Uids, Mail
    <3>2. \A m \in Mail : m[2] \in Nat /\ mailbox[m[1]] \in Nat /\ mailbox'[m[1]] \in Nat
      BY <1>1, <3>1, EmailAssumption DEF Arrive, MailTypeOK, Uids, Mail
    <3> QED BY <3>1, <3>2 DEF Real
  <2> QED BY <1>1, <2>1 DEF Arrive, syncLocal, MailIsReal
<1>2. ASSUME NEW p \in Syncs, StartSync(p) PROVE MailIsReal'
  BY <1>0, <1>2 DEF StartSync, MailIsReal
<1>3. ASSUME NEW p \in Syncs, Fetch(p) PROVE MailIsReal'
  <2>1. at[p] \in DOMAIN Folders
    BY <1>3, FetchIs DEF InPlace
  <2>2. Fetched(p) \subseteq Real
    BY <2>1, FetchedIsReal
  <2>3. batch' = [batch EXCEPT ![p] = Fetched(p)] /\ UNCHANGED <<mailbox, temp, row>>
    BY <1>3, FetchIs
  <2> QED BY <1>0, <2>2, <2>3 DEF MailIsReal, MailTypeOK
<1>4. ASSUME NEW p \in Syncs, WriteTemp(p) PROVE MailIsReal'
  BY <1>0, <1>4 DEF WriteTemp, MailIsReal
<1>5. ASSUME NEW p \in Syncs, Purge(p) PROVE MailIsReal'
  BY <1>0, <1>5 DEF Purge, MailIsReal
<1>6. ASSUME NEW p \in Syncs, Store(p) PROVE MailIsReal'
  BY <1>0, <1>6 DEF Store, MailIsReal
<1>7. ASSUME NEW p \in Syncs, Clean(p) PROVE MailIsReal'
  BY <1>0, <1>7 DEF Clean, Empty, MailIsReal, MailTypeOK
<1>8. ASSUME NEW p \in Syncs, TruncateState(p) PROVE MailIsReal'
  BY <1>0, <1>8 DEF TruncateState, MailIsReal
<1>9. ASSUME NEW p \in Syncs, SaveState(p) PROVE MailIsReal'
  BY <1>0, <1>9 DEF SaveState, Quit, MailIsReal, MailTypeOK
<1>10. ASSUME NEW p \in Syncs, StopSync(p) PROVE MailIsReal'
  BY <1>0, <1>10 DEF StopSync, Quit, MailIsReal, MailTypeOK
<1>11. ASSUME NEW f \in Names, NEW u \in 1..MaxUid, Expunge(f, u) PROVE MailIsReal'
  BY <1>0, <1>11 DEF Expunge, syncLocal, MailIsReal
<1>12. CASE UNCHANGED mailVars
  BY <1>0, <1>12 DEF mailVars, syncLocal, MailIsReal
<1> QED BY <1>1, <1>2, <1>3, <1>4, <1>5, <1>6, <1>7, <1>8, <1>9, <1>10, <1>11, <1>12
        DEF MailNext

-----------------------------------------------------------------------------
\* What a step of a sync at work leaves alone: the other syncs are idle.
LEMMA OnlyOne ==
  ASSUME NEW p \in Syncs, SyncInv, AtWork(p),
         \A q \in Syncs : q # p => syncStep'[q] = syncStep[q],
         Working(p)', RowsPlaced', RowsApart', SavedStored'
  PROVE  SyncInv'
<1>1. ASSUME NEW q \in Syncs, q # p PROVE ~AtWork(q)'
  BY <1>1 DEF SyncInv, OneAtWork, AtWork
<1>2. OneAtWork'
  BY <1>1 DEF OneAtWork
<1>3. ASSUME NEW q \in Syncs PROVE Working(q)'
  BY <1>1 DEF Working
<1> QED BY <1>2, <1>3 DEF SyncInv

\* A sync that has not fetched its folder has it where the state file has it.
LEMMA BaseOfFolder ==
  ASSUME MailTypeOK, InPlace, NEW p \in Syncs, syncStep[p] = "fetch", StateIsBase(p)
  PROVE  /\ at[p] \in DOMAIN Folders
         /\ \A i \in DOMAIN Folders : Folders[i] = Folder(p) => i = at[p]
         /\ last[p][Folder(p)] = Base(Folder(p))
<1>1. at[p] \in DOMAIN Folders
  BY DEF InPlace
<1>2. \A i \in DOMAIN Folders : Folders[i] = Folder(p) => i = at[p]
  BY <1>1, EmailAssumption DEF Folder
<1>3. Folder(p) \in Names
  BY <1>1 DEF Folder, Names
<1>4. ~Done(p, Folder(p))
  BY <1>1, <1>2, EmailAssumption DEF Done
<1> QED BY <1>1, <1>2, <1>3, <1>4 DEF StateIsBase

LEMMA BaseIsUid ==
  ASSUME MailTypeOK, NEW f \in Names PROVE Base(f) \in 0..MaxUid
BY EmailAssumption DEF MailTypeOK, Uids, Base

\* The rows of a folder are passed over, or what a fetch from its base returns.
LEMMA RowOrNew ==
  ASSUME MailTypeOK, NEW f \in Names, NEW from \in Nat, NEW m \in Real \ expunged, m[1] = f
  PROVE  m[2] <= from \/ m \in Parsed(f, from, mailbox[f]) \ expunged
<1>1. mailbox[f] \in 0..MaxUid
  BY DEF MailTypeOK, Uids
<1>2. m \in Mail /\ m \notin Malformed /\ m[2] <= mailbox[f]
  BY DEF Real
<1>3. m[2] \in Nat
  BY <1>2 DEF Mail
<1>4. m \in Parsed(f, from, mailbox[f]) <=>
        m[1] = f /\ from < m[2] /\ m[2] <= mailbox[f] /\ m \notin Malformed
  BY <1>1, <1>2, InParsed
<1> QED BY <1>2, <1>3, <1>4

LEMMA ParsedUpToNewest ==
  ASSUME NEW f \in Names, NEW from \in Nat, NEW upto \in 0..MaxUid,
         NEW mails, mails = Parsed(f, from, upto) \ expunged, mails # {}
  PROVE  /\ Newest(mails) \in 1..MaxUid
         /\ from < Newest(mails) /\ Newest(mails) <= upto
         /\ \A m \in mails : m[2] <= Newest(mails)
         /\ mails = Parsed(f, from, Newest(mails)) \ expunged
<1> DEFINE u == Newest(mails)
<1>1. mails \subseteq Mail
  BY InParsed
<1>2. \A m \in mails : m[2] <= u
  BY <1>1, NewestIs
<1>3. PICK n \in mails : n[2] = u
  BY <1>1, NewestIs
<1>4. u \in 1..MaxUid /\ u \in 0..MaxUid
  <2>1. n \in Mail
    BY <1>1, <1>3
  <2> QED BY <1>3, <2>1, EmailAssumption DEF Mail
<1>5. from < u /\ u <= upto
  <2>1. n \in Mail /\ n \in Parsed(f, from, upto)
    BY <1>1, <1>3
  <2>2. from < n[2] /\ n[2] <= upto
    BY <2>1, InParsed
  <2> QED BY <1>3, <2>2
<1> HIDE DEF u
<1>6. mails = Parsed(f, from, u) \ expunged
  <2>1. Parsed(f, from, u) \subseteq Mail
    BY <1>4, InParsed
  <2>2. ASSUME NEW m \in Mail PROVE m \in mails <=> m \in Parsed(f, from, u) \ expunged
    <3>1. m \in Parsed(f, from, upto)
             <=> m[1] = f /\ from < m[2] /\ m[2] <= upto /\ m \notin Malformed
      BY InParsed
    <3>2. m \in Parsed(f, from, u)
             <=> m[1] = f /\ from < m[2] /\ m[2] <= u /\ m \notin Malformed
      BY <1>4, InParsed
    <3>3. m[2] \in Nat /\ from \in Int /\ u \in Int /\ upto \in Int
      BY <1>4, EmailAssumption DEF Mail
    <3>4. CASE m \in mails
      BY <1>2, <3>1, <3>2, <3>4
    <3>5. CASE m \in Parsed(f, from, u) \ expunged
      BY <1>5, <3>1, <3>2, <3>3, <3>5
    <3> QED BY <3>4, <3>5
  <2> QED BY <1>1, <2>1, <2>2
<1> QED BY <1>2, <1>4, <1>5, <1>6 DEF u

-----------------------------------------------------------------------------
LEMMA ArriveKeeps ==
  ASSUME SyncInv, NEW f \in Names, Arrive(f) PROVE SyncInv'
<1>1. UNCHANGED <<expunged, shifted, saved, temp, row, syncStep, at, last, batch, stored>>
  BY DEF Arrive, syncLocal
<1>2. ASSUME NEW p \in Syncs PROVE Working(p)'
  <2>1. Working(p)
    BY DEF SyncInv
  <2> QED BY <1>1, <2>1 DEF Working, AtWork, StateIsBase, RowsBelow, BatchIs, FilesAre,
        NamesFree, PassedStored, PlacedFor, MailRank, Ahead, Batched, Done, Folder, Base
<1>3. OneAtWork' /\ RowsPlaced' /\ RowsApart' /\ SavedStored'
  BY <1>1 DEF SyncInv, OneAtWork, AtWork, RowsPlaced, MailRank, Ahead, RowsApart,
     SavedStored, Seen, Base
<1> QED BY <1>2, <1>3 DEF SyncInv

LEMMA FirstOfPair ==
  ASSUME NEW f, NEW S, NEW m \in {f} \X S PROVE m[1] = f
OBVIOUS

\* A message that a sync has placed keeps its position when another goes, unless its
\* folder is shifted by it.
LEMMA RankStays ==
  ASSUME MailTypeOK, NEW f \in Names, NEW u \in 1..MaxUid, Expunge(f, u),
         NEW m \in Placed, m \notin expunged', m[1] \notin shifted'
  PROVE  m[1] \notin shifted /\ m \notin expunged
         /\ MailRank(m[1], Base(m[1]), m[2])' = MailRank(m[1], Base(m[1]), m[2])
<1>1. /\ expunged' = expunged \cup {<<f, u>>} /\ m # <<f, u>> /\ Base(m[1])' = Base(m[1])
      /\ shifted \subseteq shifted' /\ saved' = saved
  BY DEF Expunge, Base
<1>2. m \in Mail /\ m[1] \in Names /\ m[2] \in 1..MaxUid /\ m = <<m[1], m[2]>>
  <2>1. m \in Mail
    <3>1. CASE \E i \in Positions : m \in row[i]
      BY <3>1 DEF MailTypeOK
    <3>2. CASE \E p \in Syncs : m \in batch[p]
      BY <3>2 DEF MailTypeOK
    <3>3. m \in UNION {row[i] : i \in Positions} \/ m \in UNION {batch[p] : p \in Syncs}
      BY DEF Placed
    <3>4. (\E i \in Positions : m \in row[i]) \/ \E p \in Syncs : m \in batch[p]
      BY <3>3
    <3> QED BY <3>1, <3>2, <3>4
  <2> QED BY <2>1 DEF Mail
<1>3. Base(m[1]) \in Nat /\ m[2] \in 0..MaxUid
  <2>1. Base(m[1]) \in 0..MaxUid
    BY <1>2, BaseIsUid
  <2> QED BY <1>2, <2>1, EmailAssumption
<1>4. <<f, u>> \notin Parsed(m[1], Base(m[1]), m[2])
  <2> SUFFICES ASSUME <<f, u>> \in Parsed(m[1], Base(m[1]), m[2]) PROVE FALSE
    OBVIOUS
  <2>1. <<f, u>> \in Mail
    BY DEF Mail
  <2>2. f = m[1] /\ Base(m[1]) < u /\ u <= m[2]
    BY <1>2, <1>3, <2>1, InParsed
  <2>3. u # m[2]
    BY <1>1, <1>2, <2>2
  <2>4. u < m[2]
    BY <1>2, <2>2, <2>3, EmailAssumption
  <2>5. f \in shifted'
    BY <2>2, <2>4 DEF Expunge
  <2> QED BY <2>2, <2>5
<1>5. Ahead(m[1], Base(m[1]), m[2])' = Ahead(m[1], Base(m[1]), m[2])
  BY <1>1, <1>4 DEF Ahead
<1> QED BY <1>1, <1>5 DEF MailRank

LEMMA ExpungeKeeps ==
  ASSUME MailTypeOK, SyncInv, NEW f \in Names, NEW u \in 1..MaxUid, Expunge(f, u)
  PROVE  SyncInv'
<1>1. /\ UNCHANGED <<mailbox, saved, temp, row, syncStep, at, last, batch, stored>>
      /\ expunged \subseteq expunged' /\ shifted \subseteq shifted'
  BY DEF Expunge, syncLocal
<1>2. RowsPlaced'
  <2> SUFFICES ASSUME saved # TornState, NEW i \in Positions, NEW m \in row[i] \ expunged',
                      m[1] \notin shifted'
               PROVE  m[2] <= Base(m[1])' \/ i = MailRank(m[1], Base(m[1]), m[2])'
    BY <1>1 DEF RowsPlaced
  <2>1. m \in Placed
    BY DEF Placed
  <2>2. /\ m[1] \notin shifted /\ m \notin expunged
        /\ MailRank(m[1], Base(m[1]), m[2])' = MailRank(m[1], Base(m[1]), m[2])
    BY <2>1, RankStays
  <2>3. m[2] <= Base(m[1]) \/ i = MailRank(m[1], Base(m[1]), m[2])
    BY <2>2 DEF SyncInv, RowsPlaced
  <2> QED BY <1>1, <2>2, <2>3 DEF Base
<1>3. ASSUME NEW p \in Syncs PROVE Working(p)'
  <2>1. Working(p)
    BY DEF SyncInv
  <2>2. AtWork(p)' => StateIsBase(p)' /\ FilesAre(p)' /\ NamesFree(p)'
    BY <1>1, <2>1 DEF Working, AtWork, StateIsBase, FilesAre, NamesFree, Done, Base
  <2>3. AtWork(p)' => RowsBelow(p)' /\ PassedStored(p)'
    BY <1>1, <2>1 DEF Working, AtWork, RowsBelow, PassedStored, Batched, Done
  <2>4. ASSUME AtWork(p), Batched(p), Folder(p) \notin shifted' PROVE PlacedFor(p)'
    <3>1. /\ PlacedFor(p)
          /\ batch[p] \subseteq Parsed(Folder(p), Base(Folder(p)), last[p][Folder(p)])
      BY <1>1, <2>1, <2>4 DEF Working, BatchIs
    <3>2. ASSUME NEW m \in batch[p] PROVE m \in Placed /\ m[1] = Folder(p)
      <4>1. m \in Placed
        <5>1. batch[p] \in {batch[q] : q \in Syncs}
          OBVIOUS
        <5>2. m \in UNION {batch[q] : q \in Syncs}
          BY <5>1
        <5> QED BY <5>2 DEF Placed
      <4>2. m \in {Folder(p)} \X (Base(Folder(p)) + 1..last[p][Folder(p)])
        BY <3>1 DEF Parsed
      <4> QED BY <4>1, <4>2, FirstOfPair
    <3>3. ASSUME NEW m \in batch[p], m \notin expunged'
          PROVE  Position(batch[p], m) = MailRank(m[1], Base(m[1]), m[2])'
      <4>1. /\ m \notin expunged
            /\ MailRank(m[1], Base(m[1]), m[2])' = MailRank(m[1], Base(m[1]), m[2])
        BY <2>4, <3>2, <3>3, RankStays
      <4> QED BY <3>1, <4>1 DEF PlacedFor
    <3> QED BY <1>1, <3>1, <3>3 DEF PlacedFor
  <2>5. AtWork(p)' => BatchIs(p)'
    <3>1. UNCHANGED <<Folder(p), Batched(p), AtWork(p)>> /\ \A g : Base(g)' = Base(g)
      BY <1>1 DEF Folder, Batched, AtWork, Base
    <3> QED BY <1>1, <2>1, <2>4, <3>1 DEF Working, BatchIs
  <2> QED BY <2>2, <2>3, <2>5 DEF Working
<1>4. OneAtWork' /\ RowsApart' /\ SavedStored'
  BY <1>1 DEF SyncInv, OneAtWork, AtWork, RowsApart, SavedStored, Seen
<1> QED BY <1>2, <1>3, <1>4 DEF SyncInv

LEMMA StartKeeps ==
  ASSUME MailTypeOK, InPlace, SyncInv, NEW p \in Syncs, StartSync(p), ~syncsOverlapped'
  PROVE  SyncInv'
<1>1. \A q \in Syncs : q # p => syncStep[q] = "idle" /\ syncStep'[q] = "idle"
  BY DEF StartSync, Move, MailTypeOK
<1>2. /\ at[p] = 1 /\ syncStep'[p] = StepOf(1)
      /\ UNCHANGED <<expunged, shifted, saved, temp, row, at, batch, stored>>
      /\ saved # TornState
  BY DEF StartSync, Move, MailTypeOK, InPlace
<1>3. Len(Folders) \in Nat /\ DOMAIN Folders = 1..Len(Folders)
  BY EmailAssumption
<1>4. \A f \in Names : last'[p][f] = Base(f)
  BY DEF StartSync, MailTypeOK, Base, Unseen
<1>5. \A f \in Names : ~Done(p, f)'
  BY <1>2, <1>3 DEF Done, StepOf
<1>6. StateIsBase(p)' /\ RowsBelow(p)'
  <2>1. \A f \in Names : Base(f)' = Base(f)
    BY <1>2 DEF Base
  <2> QED BY <1>2, <1>4, <1>5, <2>1 DEF StateIsBase, RowsBelow
<1>7. BatchIs(p)' /\ FilesAre(p)' /\ NamesFree(p)'
  BY <1>2 DEF BatchIs, FilesAre, NamesFree, Batched, StepOf
<1>8. PassedStored(p)'
  <2>1. ASSUME NEW m \in Mail \ Malformed, m[2] <= last'[p][m[1]]
        PROVE  m \in stored \cup expunged
    <3>1. m[1] \in Names /\ m[2] \in 1..MaxUid
      BY DEF Mail
    <3>2. m[2] <= Base(m[1])
      BY <1>4, <2>1, <3>1
    <3>3. saved # NoState
      BY <3>1, <3>2, EmailAssumption DEF Base
    <3>4. m \in Seen
      BY <1>2, <3>2, <3>3 DEF Seen, Base
    <3> QED BY <3>4 DEF SyncInv, SavedStored
  <2> QED BY <1>2, <2>1 DEF PassedStored
<1>9. Working(p)'
  BY <1>6, <1>7, <1>8 DEF Working
<1>10. OneAtWork' /\ \A q \in Syncs : Working(q)'
  BY <1>1, <1>9 DEF OneAtWork, AtWork, Working
<1>11. RowsPlaced' /\ RowsApart' /\ SavedStored'
  BY <1>2 DEF SyncInv, RowsPlaced, MailRank, Ahead, RowsApart, SavedStored, Seen, Base
<1> QED BY <1>10, <1>11 DEF SyncInv

LEMMA FetchKeeps ==
  ASSUME MailTypeOK, InPlace, MailIsReal, SyncInv, NEW p \in Syncs, Fetch(p)
  PROVE  SyncInv'
<1> DEFINE f == Folder(p)
<1>1. /\ syncStep[p] = "fetch" /\ AtWork(p) /\ batch' = [batch EXCEPT ![p] = Fetched(p)]
      /\ UNCHANGED <<mailbox, expunged, shifted, saved, temp, row, stored>>
  BY FetchIs DEF AtWork
<1>2. /\ StateIsBase(p) /\ RowsBelow(p) /\ PassedStored(p)
      /\ RowsPlaced /\ RowsApart /\ SavedStored
  BY <1>1 DEF SyncInv, Working
<1>3. /\ at[p] \in DOMAIN Folders /\ f \in Names
      /\ \A i \in DOMAIN Folders : Folders[i] = f => i = at[p]
      /\ last[p][f] = Base(f)
  <2>1. /\ at[p] \in DOMAIN Folders
        /\ \A i \in DOMAIN Folders : Folders[i] = Folder(p) => i = at[p]
        /\ last[p][Folder(p)] = Base(Folder(p))
    BY <1>1, <1>2, BaseOfFolder
  <2> QED BY <2>1, FolderIsAName
<1>4. /\ Base(f) \in 0..MaxUid /\ Base(f) \in Nat /\ mailbox[f] \in 0..MaxUid
      /\ Fetched(p) = Parsed(f, Base(f), mailbox[f]) \ expunged
  <2>1. Base(f) \in 0..MaxUid
    BY <1>3, BaseIsUid
  <2>2. mailbox[f] \in 0..MaxUid
    BY <1>3, FolderIsAName
  <2> QED BY <1>3, <2>1, <2>2 DEF Fetched
<1>5. Len(Folders) \in Nat /\ DOMAIN Folders = 1..Len(Folders)
  BY EmailAssumption
<1>6. \A g \in Names : Base(g)' = Base(g)
  BY <1>1 DEF Base
<1>7. RowsPlaced' /\ RowsApart' /\ SavedStored'
  BY <1>1, <1>2 DEF RowsPlaced, MailRank, Ahead, RowsApart, SavedStored, Seen, Base
<1>8. ASSUME NEW i \in Positions, NEW m \in row[i] \ expunged, m[1] = f
      PROVE  m[2] <= Base(f) \/ m \in Fetched(p)
  <2>1. m \in Real \ expunged
    BY DEF MailIsReal
  <2> QED BY <1>3, <1>4, <1>8, <2>1, RowOrNew
<1>9. ASSUME Fetched(p) = {}, NextFolder(p), last' = last PROVE SyncInv'
  <2>1. /\ syncStep' = [syncStep EXCEPT ![p] = StepOf(at[p] + 1)]
        /\ at' = [at EXCEPT ![p] = at[p] + 1]
    BY <1>9 DEF NextFolder, Move
  <2>2. /\ at'[p] = at[p] + 1 /\ syncStep'[p] = StepOf(at[p] + 1)
        /\ \A q \in Syncs : q # p => syncStep'[q] = syncStep[q]
    BY <2>1 DEF MailTypeOK
  <2>3. ASSUME NEW g \in Names PROVE Done(p, g)' <=> Done(p, g) \/ g = f
    BY <1>1, <1>3, <1>5, <2>2 DEF Done, Folder, StepOf
  <2>4. StateIsBase(p)'
    BY <1>1, <1>2, <1>3, <1>6, <1>9, <2>3 DEF StateIsBase
  <2>5. RowsBelow(p)'
    BY <1>1, <1>2, <1>3, <1>8, <1>9, <2>3 DEF RowsBelow
  <2>6. BatchIs(p)' /\ FilesAre(p)' /\ NamesFree(p)' /\ PassedStored(p)'
    BY <1>1, <1>2, <1>9, <2>2 DEF BatchIs, FilesAre, NamesFree, PassedStored, Batched, StepOf
  <2>7. Working(p)'
    BY <2>4, <2>5, <2>6 DEF Working
  <2> QED BY <1>1, <1>7, <2>2, <2>7, OnlyOne
<1>10. ASSUME Fetched(p) # {},
              last' = [last EXCEPT ![p] = [@ EXCEPT ![f] = Newest(Fetched(p))]],
              Move(p, "write"), at' = at
       PROVE  SyncInv'
  <2> DEFINE u == Newest(Fetched(p))
  <2>1. /\ syncStep'[p] = "write" /\ at'[p] = at[p] /\ batch'[p] = Fetched(p)
        /\ \A q \in Syncs : q # p => syncStep'[q] = syncStep[q]
    BY <1>1, <1>10 DEF Move, MailTypeOK
  <2>2. last'[p][f] = u /\ \A g \in Names : g # f => last'[p][g] = last[p][g]
    BY <1>3, <1>10 DEF MailTypeOK, Uids
  <2>3. /\ u \in 1..MaxUid /\ Base(f) < u /\ \A m \in Fetched(p) : m[2] <= u
        /\ Fetched(p) = Parsed(f, Base(f), u) \ expunged
    BY <1>3, <1>4, <1>10, ParsedUpToNewest
  <2> HIDE DEF u
  <2>4. ASSUME NEW g \in Names PROVE Done(p, g)' <=> Done(p, g) \/ g = f
    BY <1>1, <1>3, <1>5, <2>1 DEF Done, Folder
  <2>5. ~Done(p, f)
    BY <1>1, <1>3, <1>5 DEF Done
  <2>6. StateIsBase(p)'
    BY <1>1, <1>2, <1>6, <2>2, <2>4 DEF StateIsBase
  <2>7. RowsBelow(p)'
    <3>1. ASSUME NEW g \in Names, Done(p, g)', NEW i \in Positions,
                 NEW m \in row'[i] \ expunged', m[1] = g
          PROVE  m[2] <= last'[p][g]
      <4>1. m \in row[i] \ expunged /\ m \in Mail
        BY <1>1, <3>1 DEF MailTypeOK
      <4>2. CASE g = f
        <5>1. m[2] <= Base(f) \/ m[2] <= u
          BY <1>8, <2>3, <3>1, <4>1, <4>2
        <5>2. m[2] \in Nat
          BY <4>1 DEF Mail
        <5> QED BY <1>4, <2>2, <2>3, <4>2, <5>1, <5>2
      <4>3. CASE g # f
        <5>1. Done(p, g) /\ last'[p][g] = last[p][g]
          BY <2>2, <2>4, <3>1, <4>3
        <5> QED BY <1>2, <3>1, <4>1, <5>1 DEF RowsBelow
      <4> QED BY <4>2, <4>3
    <3> QED BY <3>1 DEF RowsBelow
  <2>8. BatchIs(p)'
    <3>1. Folder(p)' = f /\ Base(f)' = Base(f)
      BY <1>1, <2>1 DEF Folder, Base
    <3>2. ASSUME f \notin shifted PROVE PlacedFor(p)'
      <4> SUFFICES ASSUME NEW m \in Fetched(p)
                   PROVE  /\ Position(Fetched(p), m) = MailRank(m[1], Base(m[1]), m[2])
                          /\ \A i \in Positions :
                                m \in row[i] => i = Position(Fetched(p), m)
        BY <1>1, <2>1 DEF PlacedFor, MailRank, Ahead, Base
      <4>1. m \in Mail /\ m \notin expunged /\ m[1] = f /\ Base(f) < m[2] /\ m[2] \in Nat
        <5>1. m \in Mail /\ m \in Parsed(f, Base(f), mailbox[f]) /\ m \notin expunged
          BY <1>3, <1>4, InParsed
        <5> QED BY <1>3, <1>4, <5>1, InParsed DEF Mail
      <4>2. Position(Fetched(p), m) = MailRank(f, Base(f), m[2])
        BY <1>3, <1>4, PositionIsRank
      <4>3. saved # TornState
        BY <1>1, <1>2 DEF StateIsBase
      <4>4. ASSUME NEW i \in Positions, m \in row[i] PROVE i = MailRank(f, Base(f), m[2])
        <5>1. m[2] <= Base(f) \/ i = MailRank(f, Base(f), m[2])
          BY <1>2, <3>2, <4>1, <4>3, <4>4 DEF RowsPlaced
        <5> QED BY <1>4, <4>1, <5>1
      <4> QED BY <4>1, <4>2, <4>4
    <3>3. Fetched(p) \subseteq Parsed(f, Base(f), u)
      BY <2>3
    <3>4. Parsed(Folder(p), Base(Folder(p)), last[p][Folder(p)])' = Parsed(f, Base(f), u)
      BY <1>1, <2>1, <2>2 DEF Folder, Base
    <3>5. batch[p]' \subseteq Parsed(Folder(p), Base(Folder(p)), last[p][Folder(p)])'
      BY <2>1, <3>3, <3>4
    <3>6. Folder(p)' \in shifted' \/ PlacedFor(p)'
      BY <1>1, <3>1, <3>2
    <3> QED BY <3>5, <3>6 DEF BatchIs
  <2>9. FilesAre(p)' /\ NamesFree(p)'
    BY <2>1 DEF FilesAre, NamesFree
  <2>10. PassedStored(p)'
    <3>1. ASSUME NEW m \in Mail \ Malformed, m[2] <= last'[p][m[1]]
          PROVE  m \in stored \cup expunged \/ m \in Fetched(p)
      <4>1. m[1] \in Names /\ m[2] \in Nat
        BY DEF Mail
      <4>2. CASE m[1] # f
        BY <1>2, <2>2, <3>1, <4>1, <4>2, <1>1 DEF PassedStored, Batched
      <4>3. CASE m[1] = f /\ m[2] <= Base(f)
        BY <1>1, <1>2, <1>3, <4>3 DEF PassedStored, Batched
      <4>4. CASE m[1] = f /\ ~(m[2] <= Base(f))
        <5>1. Base(f) < m[2] /\ m[2] <= u /\ u \in 0..MaxUid
          BY <1>4, <2>2, <2>3, <3>1, <4>1, <4>4, EmailAssumption
        <5>2. m \in Parsed(f, Base(f), u)
          BY <1>3, <1>4, <4>4, <5>1, InParsed
        <5> QED BY <2>3, <5>2
      <4> QED BY <4>2, <4>3, <4>4
    <3> QED BY <1>1, <2>1, <3>1 DEF PassedStored, Batched
  <2>11. Working(p)'
    BY <2>6, <2>7, <2>8, <2>9, <2>10 DEF Working
  <2> QED BY <1>1, <1>7, <2>1, <2>11, OnlyOne
<1> QED BY <1>9, <1>10, FetchIs

\* The steps between a fetch and the next folder leave Done and Base alone.
LEMMA WriteKeeps ==
  ASSUME MailTypeOK, InPlace, SyncInv, NEW p \in Syncs, WriteTemp(p) PROVE SyncInv'
<1>1. /\ syncStep[p] = "write" /\ syncStep'[p] = "purge" /\ AtWork(p)
      /\ \A q \in Syncs : q # p => syncStep'[q] = syncStep[q]
      /\ UNCHANGED <<mailbox, expunged, shifted, saved, row, at, last, batch, stored>>
  BY DEF WriteTemp, Move, MailTypeOK, AtWork
<1>2. Working(p) /\ RowsPlaced /\ RowsApart /\ SavedStored
  BY DEF SyncInv
<1>3. Slots(batch[p]) \subseteq Positions
  BY DEF InPlace
<1>4. FilesAre(p)'
  <2>1. ASSUME NEW i \in Slots(batch[p])
        PROVE  temp'[i] = {m \in batch[p] : Position(batch[p], m) = i}
    BY <1>3, <2>1 DEF WriteTemp
  <2> QED BY <1>1, <2>1 DEF FilesAre
<1>5. StateIsBase(p)' /\ RowsBelow(p)' /\ BatchIs(p)' /\ NamesFree(p)' /\ PassedStored(p)'
  BY <1>1, <1>2 DEF Working, StateIsBase, RowsBelow, BatchIs, PlacedFor, MailRank, Ahead,
     NamesFree, PassedStored, Batched, Done, Base, Folder
<1>6. Working(p)'
  BY <1>4, <1>5 DEF Working
<1>7. RowsPlaced' /\ RowsApart' /\ SavedStored'
  BY <1>1, <1>2 DEF RowsPlaced, MailRank, Ahead, RowsApart, SavedStored, Seen, Base
<1> QED BY <1>1, <1>6, <1>7, OnlyOne

LEMMA PurgeKeeps ==
  ASSUME MailTypeOK, InPlace, SyncInv, NEW p \in Syncs, Purge(p) PROVE SyncInv'
<1>1. /\ syncStep[p] = "purge" /\ syncStep'[p] = "store" /\ AtWork(p)
      /\ \A q \in Syncs : q # p => syncStep'[q] = syncStep[q]
      /\ UNCHANGED <<mailbox, expunged, shifted, saved, temp, at, last, batch, stored>>
  BY DEF Purge, Move, MailTypeOK, AtWork
<1>2. Working(p) /\ RowsPlaced /\ RowsApart /\ SavedStored
  BY DEF SyncInv
<1>3. Slots(batch[p]) \subseteq Positions
  BY DEF InPlace
<1>4. \A i \in Positions : row'[i] \subseteq row[i]
  BY DEF Purge
<1>5. NamesFree(p)'
  <2>1. ASSUME NEW i \in Slots(batch[p]) PROVE row'[i] = {}
    BY <1>3, <2>1 DEF Purge
  <2> QED BY <1>1, <2>1 DEF NamesFree
<1>6. StateIsBase(p)' /\ BatchIs(p)' /\ FilesAre(p)' /\ PassedStored(p)'
  <2>1. StateIsBase(p)' /\ FilesAre(p)' /\ PassedStored(p)'
    BY <1>1, <1>2 DEF Working, StateIsBase, FilesAre, PassedStored, Batched, Done, Base
  <2>2. PlacedFor(p) => PlacedFor(p)'
    BY <1>1, <1>4 DEF PlacedFor, MailRank, Ahead, Base
  <2>3. UNCHANGED <<Folder(p), Base(Folder(p)), last[p][Folder(p)]>> /\ Batched(p)
    BY <1>1 DEF Folder, Base, Batched
  <2>4. BatchIs(p)'
    BY <1>1, <1>2, <2>2, <2>3 DEF Working, BatchIs
  <2> QED BY <2>1, <2>4
<1>7. RowsBelow(p)'
  <2>1. \A f \in Names : Done(p, f)' <=> Done(p, f)
    BY <1>1 DEF Done
  <2> QED BY <1>1, <1>2, <1>4, <2>1 DEF Working, RowsBelow
<1>8. Working(p)'
  BY <1>5, <1>6, <1>7 DEF Working
<1>9. RowsPlaced' /\ RowsApart' /\ SavedStored'
  <2>1. RowsPlaced'
    BY <1>1, <1>2, <1>4 DEF RowsPlaced, MailRank, Ahead, Base
  <2>2. RowsApart' /\ SavedStored'
    BY <1>1, <1>2, <1>4 DEF RowsApart, SavedStored, Seen
  <2> QED BY <2>1, <2>2
<1> QED BY <1>1, <1>8, <1>9, OnlyOne

LEMMA StoreKeeps ==
  ASSUME MailTypeOK, InPlace, SyncInv, NEW p \in Syncs, Store(p) PROVE SyncInv'
<1> DEFINE f == Folder(p)
           new == batch[p]
<1>1. /\ syncStep[p] = "store" /\ syncStep'[p] = "clean" /\ AtWork(p)
      /\ \A q \in Syncs : q # p => syncStep'[q] = syncStep[q]
      /\ UNCHANGED <<mailbox, expunged, shifted, saved, temp, at, last, batch>>
  BY DEF Store, Move, MailTypeOK, AtWork
<1>2. /\ StateIsBase(p) /\ RowsBelow(p) /\ BatchIs(p) /\ FilesAre(p) /\ NamesFree(p)
      /\ PassedStored(p) /\ RowsPlaced /\ RowsApart /\ SavedStored
  BY <1>1 DEF SyncInv, Working
<1>3. /\ Slots(new) \subseteq Positions /\ at[p] \in DOMAIN Folders /\ f \in Names
  BY <1>1, FolderIsAName DEF InPlace
<1>4. /\ Base(f) \in Nat /\ last[p][f] \in 0..MaxUid
      /\ new \subseteq Parsed(f, Base(f), last[p][f])
      /\ f \in shifted \/ PlacedFor(p)
  <2>1. Base(f) \in 0..MaxUid
    BY <1>3, BaseIsUid
  <2>2. last[p][f] \in 0..MaxUid
    BY <1>3 DEF MailTypeOK, Uids
  <2> QED BY <1>1, <1>2, <2>1, <2>2 DEF BatchIs, Batched
<1>5. ASSUME NEW m \in new
      PROVE  /\ m \in Mail /\ m[1] = f /\ Base(f) < m[2] /\ m[2] <= last[p][f]
             /\ Position(new, m) \in Slots(new)
  <2>1. m \in Mail
    BY <1>3, <1>4, InParsed
  <2>2. m[1] = f /\ Base(f) < m[2] /\ m[2] <= last[p][f]
    BY <1>3, <1>4, <2>1, InParsed
  <2>3. Position(new, m) \in Slots(new)
    BY <1>3, <1>4, PositionIsSlot
  <2> QED BY <2>1, <2>2, <2>3
<1> HIDE DEF new, f
<1>6. ASSUME NEW i \in Slots(new)
      PROVE  row'[i] = {m \in new : Position(new, m) = i} /\ row'[i] = temp[i]
  <2>1. i \in Positions /\ i \in Slots(batch[p]) /\ row[i] = {}
    BY <1>1, <1>2, <1>3, <1>6 DEF NamesFree, new
  <2>2. row'[i] = temp[i]
    BY <2>1 DEF Store
  <2>3. temp[i] = {m \in new : Position(new, m) = i}
    BY <1>1, <1>2, <2>1 DEF FilesAre, new
  <2> QED BY <2>2, <2>3
<1>7. ASSUME NEW i \in Positions, i \notin Slots(new) PROVE row'[i] = row[i]
  BY <1>7 DEF Store, new
<1>8. ASSUME NEW i \in Positions, NEW m \in row'[i]
      PROVE  \/ i \notin Slots(new) /\ m \in row[i]
             \/ i \in Slots(new) /\ m \in new /\ Position(new, m) = i
  BY <1>6, <1>7
<1>9. Working(p)'
  <2>1. StateIsBase(p)' /\ BatchIs(p)' /\ FilesAre(p)' /\ NamesFree(p)'
    BY <1>1, <1>2 DEF StateIsBase, BatchIs, FilesAre, NamesFree, Batched, Done, Base
  <2>2. RowsBelow(p)'
    <3>1. ASSUME NEW g \in Names, Done(p, g)', NEW i \in Positions,
                 NEW m \in row'[i] \ expunged, m[1] = g
          PROVE  m[2] <= last[p][g]
      <4>1. CASE m \in row[i]
        <5>1. Done(p, g)
          BY <1>1, <3>1 DEF Done
        <5> QED BY <1>2, <3>1, <4>1, <5>1 DEF RowsBelow
      <4>2. CASE m \in new
        BY <1>5, <3>1, <4>2
      <4> QED BY <1>8, <4>1, <4>2
    <3> QED BY <1>1, <3>1 DEF RowsBelow
  <2>3. PassedStored(p)'
    <3>1. ASSUME NEW m \in new PROVE m \in stored'
      <4>1. Position(new, m) \in Slots(batch[p]) /\ m \in temp[Position(new, m)]
        <5>1. m \in row'[Position(new, m)]
          BY <1>5, <1>6
        <5> QED BY <1>5, <1>6, <5>1 DEF new
      <4> QED BY <4>1 DEF Store
    <3>2. stored \subseteq stored'
      BY DEF Store
    <3> QED BY <1>1, <1>2, <3>1, <3>2 DEF PassedStored, new
  <2> QED BY <2>1, <2>2, <2>3 DEF Working
<1>10. RowsPlaced'
  <2>1. saved # TornState
    BY <1>1, <1>2 DEF StateIsBase
  <2>2. ASSUME NEW i \in Positions, NEW m \in row'[i] \ expunged, m[1] \notin shifted
        PROVE  m[2] <= Base(m[1]) \/ i = MailRank(m[1], Base(m[1]), m[2])
    <3>1. CASE m \in row[i]
      BY <1>2, <2>1, <2>2, <3>1 DEF RowsPlaced
    <3>2. CASE m \in new /\ Position(new, m) = i
      <4>1. PlacedFor(p)
        BY <1>4, <1>5, <2>2, <3>2
      <4> QED BY <2>2, <3>2, <4>1 DEF PlacedFor, new
    <3> QED BY <1>8, <2>2, <3>1, <3>2
  <2> QED BY <1>1, <2>2 DEF RowsPlaced, Base, MailRank, Ahead
<1>11. RowsApart'
  <2>1. ASSUME NEW i \in Positions, NEW j \in Positions, i \in Slots(new), j \notin Slots(new),
               NEW m \in row'[i], m \in row'[j], m[1] \notin shifted
        PROVE  FALSE
    <3>1. m \in new /\ Position(new, m) = i /\ m \in row[j]
      BY <1>8, <2>1
    <3>2. PlacedFor(p)
      BY <1>4, <1>5, <2>1, <3>1
    <3> QED BY <2>1, <3>1, <3>2 DEF PlacedFor, new
  <2>2. ASSUME NEW i \in Positions, NEW j \in Positions, i # j,
               NEW m \in row'[i], m \in row'[j], m[1] \notin shifted
        PROVE  FALSE
    <3>1. CASE i \in Slots(new) /\ j \in Slots(new)
      BY <1>8, <2>2, <3>1
    <3>2. CASE i \notin Slots(new) /\ j \notin Slots(new)
      BY <1>2, <1>7, <2>2, <3>2 DEF RowsApart
    <3> QED BY <2>1, <2>2, <3>1, <3>2
  <2> QED BY <1>1, <2>2 DEF RowsApart
<1>12. SavedStored'
  <2>1. stored \subseteq stored'
    BY DEF Store
  <2> QED BY <1>1, <1>2, <2>1 DEF SavedStored, Seen
<1> QED BY <1>1, <1>9, <1>10, <1>11, <1>12, OnlyOne

LEMMA CleanKeeps ==
  ASSUME MailTypeOK, InPlace, SyncInv, NEW p \in Syncs, Clean(p) PROVE SyncInv'
<1>1. /\ syncStep[p] = "clean" /\ at'[p] = at[p] + 1 /\ syncStep'[p] = StepOf(at[p] + 1)
      /\ \A q \in Syncs : q # p => syncStep'[q] = syncStep[q]
      /\ UNCHANGED <<mailbox, expunged, shifted, saved, row, last, stored>> /\ AtWork(p)
  BY DEF Clean, NextFolder, Move, MailTypeOK, AtWork
<1>2. Working(p) /\ RowsPlaced /\ RowsApart /\ SavedStored
  BY DEF SyncInv
<1>3. /\ at[p] \in DOMAIN Folders /\ Len(Folders) \in Nat
      /\ DOMAIN Folders = 1..Len(Folders)
  BY <1>1, EmailAssumption DEF InPlace
<1>4. ASSUME NEW f \in Names PROVE Done(p, f)' <=> Done(p, f)
  BY <1>1, <1>3 DEF Done, StepOf
<1>5. Working(p)'
  <2>1. StateIsBase(p)' /\ RowsBelow(p)'
    BY <1>1, <1>2, <1>4 DEF Working, StateIsBase, RowsBelow, Base
  <2>2. BatchIs(p)' /\ FilesAre(p)' /\ NamesFree(p)' /\ PassedStored(p)'
    BY <1>1, <1>2 DEF Working, BatchIs, FilesAre, NamesFree, PassedStored, Batched, StepOf
  <2> QED BY <2>1, <2>2 DEF Working
<1>6. RowsPlaced' /\ RowsApart' /\ SavedStored'
  BY <1>1, <1>2 DEF RowsPlaced, MailRank, Ahead, RowsApart, SavedStored, Seen, Base
<1> QED BY <1>1, <1>5, <1>6, OnlyOne

LEMMA TruncateKeeps ==
  ASSUME MailTypeOK, InPlace, SyncInv, NEW p \in Syncs, TruncateState(p) PROVE SyncInv'
<1>1. /\ syncStep[p] = "save" /\ syncStep'[p] = "cut" /\ AtWork(p) /\ saved' = TornState
      /\ \A q \in Syncs : q # p => syncStep'[q] = syncStep[q]
      /\ UNCHANGED <<mailbox, expunged, shifted, temp, row, at, last, batch, stored>>
  BY DEF TruncateState, Move, MailTypeOK, AtWork
<1>2. Working(p) /\ RowsApart
  BY DEF SyncInv
<1>3. ASSUME NEW f \in Names PROVE Done(p, f)' <=> Done(p, f)
  BY <1>1 DEF Done
<1>4. Working(p)'
  <2>1. StateIsBase(p)' /\ RowsBelow(p)'
    BY <1>1, <1>2, <1>3 DEF Working, StateIsBase, RowsBelow
  <2>2. BatchIs(p)' /\ FilesAre(p)' /\ NamesFree(p)' /\ PassedStored(p)'
    BY <1>1, <1>2 DEF Working, BatchIs, FilesAre, NamesFree, PassedStored, Batched
  <2> QED BY <2>1, <2>2 DEF Working
<1>5. RowsPlaced' /\ RowsApart' /\ SavedStored'
  BY <1>1, <1>2 DEF RowsPlaced, RowsApart, SavedStored, Seen
<1> QED BY <1>1, <1>4, <1>5, OnlyOne

\* When a sync ends no other is at work.
LEMMA QuitAlone ==
  ASSUME MailTypeOK, SyncInv, NEW p \in Syncs, AtWork(p), Quit(p)
  PROVE  OneAtWork' /\ \A q \in Syncs : Working(q)'
<1>1. ASSUME NEW q \in Syncs PROVE ~AtWork(q)'
  BY DEF SyncInv, OneAtWork, AtWork, Quit, Move, MailTypeOK
<1> QED BY <1>1 DEF OneAtWork, Working

LEMMA SaveKeeps ==
  ASSUME MailTypeOK, InPlace, SyncInv, NEW p \in Syncs, SaveState(p) PROVE SyncInv'
<1>1. /\ syncStep[p] = "cut" /\ AtWork(p) /\ Quit(p) /\ saved' = last[p]
      /\ UNCHANGED <<expunged, shifted, row, stored>>
  BY DEF SaveState, AtWork
<1>2. RowsBelow(p) /\ PassedStored(p) /\ RowsApart
  BY <1>1 DEF SyncInv, Working
<1>3. OneAtWork' /\ \A q \in Syncs : Working(q)'
  BY <1>1, QuitAlone
<1>4. \A f \in Names : Done(p, f)
  <2>1. at[p] = Len(Folders) + 1
    BY <1>1 DEF InPlace
  <2> QED BY <2>1, EmailAssumption DEF Done, Names
<1>5. last[p] # NoState /\ last[p] # TornState
  BY EmailAssumption DEF MailTypeOK
<1>6. RowsPlaced'
  <2>1. ASSUME NEW i \in Positions, NEW m \in row[i] \ expunged PROVE m[2] <= last[p][m[1]]
    <3>1. m[1] \in Names
      BY DEF MailTypeOK, Mail
    <3> QED BY <1>2, <1>4, <3>1 DEF RowsBelow
  <2> QED BY <1>1, <1>5, <2>1 DEF RowsPlaced, Base
<1>7. RowsApart'
  BY <1>1, <1>2 DEF RowsApart
<1>8. SavedStored'
  <2>1. ASSUME NEW m \in Mail \ Malformed, m[2] <= last[p][m[1]]
        PROVE  m \in stored \cup expunged
    BY <1>1, <1>2, <2>1 DEF PassedStored, Batched
  <2> QED BY <1>1, <1>5, <2>1 DEF SavedStored, Seen
<1> QED BY <1>3, <1>6, <1>7, <1>8 DEF SyncInv

LEMMA StopKeeps ==
  ASSUME MailTypeOK, SyncInv, NEW p \in Syncs, StopSync(p) PROVE SyncInv'
<1>1. AtWork(p) /\ Quit(p) /\ UNCHANGED <<expunged, shifted, saved, row, stored>>
  BY DEF StopSync, AtWork
<1>2. OneAtWork' /\ \A q \in Syncs : Working(q)'
  BY <1>1, QuitAlone
<1>3. RowsPlaced' /\ RowsApart' /\ SavedStored'
  BY <1>1 DEF SyncInv, RowsPlaced, MailRank, Ahead, RowsApart, SavedStored, Seen, Base
<1> QED BY <1>2, <1>3 DEF SyncInv

-----------------------------------------------------------------------------
LEMMA MailInvInit == MailInit => MailInv
<1> SUFFICES ASSUME MailInit PROVE MailInv
  OBVIOUS
<1>1. MailTypeOK /\ InPlace
  BY MailTypedInit
<1>2. MailIsReal
  BY DEF MailInit, MailIsReal, Empty
<1>3. OneAtWork /\ \A p \in Syncs : Working(p)
  BY DEF MailInit, OneAtWork, AtWork, Working
<1>4. RowsPlaced /\ RowsApart /\ SavedStored
  BY DEF MailInit, Empty, RowsPlaced, RowsApart, SavedStored, Seen
<1> QED BY <1>1, <1>2, <1>3, <1>4 DEF MailInv, SyncInv

LEMMA MailInvStep == MailInv /\ [MailNext]_mailVars => MailInv'
<1> SUFFICES ASSUME MailInv, [MailNext]_mailVars PROVE MailInv'
  OBVIOUS
<1>1. MailTypeOK /\ InPlace /\ MailIsReal
  BY DEF MailInv
<1>2. MailTypeOK' /\ InPlace' /\ MailIsReal'
  BY <1>1, MailTypedStep, MailIsRealStep
<1>3. ASSUME ~syncsOverlapped' PROVE SyncInv'
  <2>1. ~syncsOverlapped
    BY <1>3, FetchIs DEF MailNext, Arrive, Expunge, StartSync, WriteTemp, Purge, Store,
          Clean, TruncateState, SaveState, StopSync, mailVars
  <2>2. SyncInv
    BY <2>1 DEF MailInv
  <2>3. CASE UNCHANGED mailVars
    <3>1. UNCHANGED <<expunged, shifted, saved, temp, row, syncStep, at, last, batch, stored>>
      BY <2>3 DEF mailVars, syncLocal
    <3>2. ASSUME NEW p \in Syncs PROVE Working(p)'
      <4>1. Working(p)
        BY <2>2 DEF SyncInv
      <4> QED BY <3>1, <4>1 DEF Working, AtWork, StateIsBase, RowsBelow, BatchIs, FilesAre,
            NamesFree, PassedStored, PlacedFor, MailRank, Ahead, Batched, Done, Folder, Base
    <3>3. OneAtWork' /\ RowsPlaced' /\ RowsApart' /\ SavedStored'
      BY <2>2, <3>1 DEF SyncInv, OneAtWork, AtWork, RowsPlaced, MailRank, Ahead, RowsApart,
            SavedStored, Seen, Base
    <3> QED BY <3>2, <3>3 DEF SyncInv
  <2>4. ASSUME NEW f \in Names, Arrive(f) PROVE SyncInv'
    BY <2>2, <2>4, ArriveKeeps
  <2>9. ASSUME NEW f \in Names, NEW u \in 1..MaxUid, Expunge(f, u) PROVE SyncInv'
    BY <1>1, <2>2, <2>9, ExpungeKeeps
  <2>5. ASSUME NEW p \in Syncs, StartSync(p) PROVE SyncInv'
    BY <1>1, <1>3, <2>2, <2>5, StartKeeps
  <2>6. ASSUME NEW p \in Syncs, Fetch(p) PROVE SyncInv'
    BY <1>1, <2>2, <2>6, FetchKeeps
  <2>7. ASSUME NEW p \in Syncs,
               WriteTemp(p) \/ Purge(p) \/ Store(p) \/ Clean(p)
        PROVE  SyncInv'
    BY <1>1, <2>2, <2>7, WriteKeeps, PurgeKeeps, StoreKeeps, CleanKeeps
  <2>8. ASSUME NEW p \in Syncs, TruncateState(p) \/ SaveState(p) \/ StopSync(p)
        PROVE  SyncInv'
    BY <1>1, <2>2, <2>8, TruncateKeeps, SaveKeeps, StopKeeps
  <2> QED BY <2>3, <2>4, <2>5, <2>6, <2>7, <2>8, <2>9 DEF MailNext
<1> QED BY <1>2, <1>3 DEF MailInv

\* The saved position passes over a message only after its rows were stored, or when it
\* has gone from the server, wherever a sync fails or dies, unless two syncs overlapped
\* (main.rs:4871 saves last).
THEOREM SavedAfterStoredAlways == MailSpec => []SavedAfterStored
<1>1. MailInv => SavedAfterStored
  BY DEF MailInv, SyncInv, SavedStored, SavedAfterStored
<1> QED BY <1>1, MailInvInit, MailInvStep, PTL DEF MailSpec

\* A message is stored under two names only in a folder where a message before it was
\* expunged between a failed sync and the next, however many syncs failed and whatever
\* arrived or went in the other folders, unless two syncs overlapped (analyze_files
\* deletes each name's rows first; the name is the position, main.rs:4819).
THEOREM RetryNeverDuplicatesAlways == MailSpec => []RetryNeverDuplicates
<1>1. MailInv => RetryNeverDuplicates
  BY DEF MailInv, SyncInv, RowsApart, RetryNeverDuplicates
<1> QED BY <1>1, MailInvInit, MailInvStep, PTL DEF MailSpec

-----------------------------------------------------------------------------
(***************************************************************************)
(* Which repository is meant.                                              *)
(***************************************************************************)
\* The least and the greatest position of a set of positions is one of them.
LEMMA Extremes ==
  ASSUME NEW n \in Nat, NEW S \in SUBSET (1..n), S # {} PROVE Min(S) \in S /\ Max(S) \in S
<1>1. Min(S) \in S
  <2>1. S \in SUBSET Nat
    OBVIOUS
  <2>2. \E x \in S : \A y \in S : x <= y
    BY <2>1, LeastNumber
  <2> QED BY <2>2 DEF Min
<1>2. Max(S) \in S
  <2> DEFINE T == {n - i : i \in S}
  <2>1. T \in SUBSET Nat /\ T # {}
    <3>1. \A i \in S : n - i \in Nat
      OBVIOUS
    <3>2. \E i \in S : n - i \in T
      OBVIOUS
    <3> QED BY <3>1, <3>2
  <2>2. PICK m \in T : \A k \in T : m <= k
    <3> HIDE DEF T
    <3> QED BY <2>1, LeastNumber
  <2>3. PICK x \in S : m = n - x
    BY <2>2
  <2>4. ASSUME NEW y \in S PROVE x >= y
    <3>1. n - y \in T
      OBVIOUS
    <3>2. m <= n - y
      BY <2>2, <3>1
    <3> QED BY <2>3, <3>2
  <2> QED BY <2>4 DEF Max
<1> QED BY <1>1, <1>2

-----------------------------------------------------------------------------
PathName == {ByName[i] : i \in DOMAIN ByName}

LEMMA PrefixIs ==
  ASSUME NEW p \in Seq(PathName), NEW q \in Seq(PathName)
  PROVE  IsPrefix(p, q) <=> Len(p) <= Len(q) /\ \A i \in 1..Len(p) : p[i] = q[i]
<1>1. SubSeq(p, 1, Len(p)) = [i \in 1..Len(p) |-> p[i]]
  OBVIOUS
<1>2. Len(p) <= Len(q) => SubSeq(q, 1, Len(p)) = [i \in 1..Len(p) |-> q[i]]
  OBVIOUS
<1> QED BY <1>1, <1>2 DEF IsPrefix

LEMMA PrefixOfPrefix ==
  ASSUME NEW p \in Seq(PathName), NEW q \in Seq(PathName), NEW r \in Seq(PathName),
         IsPrefix(p, q), IsPrefix(q, r)
  PROVE  IsPrefix(p, r)
BY PrefixIs

LEMMA RankIs ==
  ASSUME NEW n \in PathName PROVE Rank(n) \in Nat /\ ByName[Rank(n)] = n
BY ResolutionAssumption DEF Rank, PathName

LEMMA NameIs == ASSUME NEW p \in Dirs PROVE Name(p) \in PathName
<1>1. p \in Seq(PathName) /\ p # <<>>
  BY ResolutionAssumption DEF PathName
<1>2. Len(p) \in 1..Len(p)
  BY <1>1
<1> QED BY <1>1, <1>2 DEF Name, Last

ResolutionInv ==
  /\ registered \subseteq Dirs /\ IsFiniteSet(registered)
  /\ gone \subseteq Dirs /\ cwd \in Dirs

\* What contains the current directory is there when that is.
LEMMA EnclosingThere ==
  ASSUME ResolutionInv, NEW p \in registered, IsPrefix(p, cwd), Exists(cwd) PROVE Exists(p)
<1>1. \A q \in Dirs : q \in Seq(PathName)
  BY ResolutionAssumption DEF PathName
<1>2. ASSUME NEW q \in gone, IsPrefix(q, p) PROVE FALSE
  <2>1. q \in Seq(PathName) /\ p \in Seq(PathName) /\ cwd \in Seq(PathName)
    BY <1>1 DEF ResolutionInv
  <2>2. IsPrefix(q, cwd)
    BY <1>2, <2>1, PrefixOfPrefix
  <2> QED BY <2>2 DEF Exists
<1> QED BY <1>2 DEF Exists

LEMMA HoldsIs == ASSUME ResolutionInv, NEW p \in registered PROVE Holds(p) <=> p \in Enclosing
BY EnclosingThere DEF Holds, Enclosing

LEMMA LooksIs ==
  ASSUME ResolutionInv, NEW p \in registered
  PROVE  /\ p \in Enclosing => BeginsLike(p)
         /\ BeginsLike(p) /\ Alike = {} => p \in Enclosing
<1>1. p \in Enclosing => BeginsLike(p)
  BY EnclosingThere DEF BeginsLike, Enclosing
<1>2. BeginsLike(p) => p \in Alike \cup Enclosing
  BY DEF Alike
<1> QED BY <1>1, <1>2

\* A list names every repository, in the order of their names.
LEMMA ListIs ==
  ASSUME ResolutionInv, registered # {}, NEW l \in Lists
  PROVE  /\ Cardinality(registered) \in Nat \ {0} /\ DOMAIN l = 1..Cardinality(registered)
         /\ Len(l) = Cardinality(registered)
         /\ \A i \in DOMAIN l : l[i] \in registered
         /\ \A p \in registered : \E i \in DOMAIN l : l[i] = p
         /\ \A i, j \in DOMAIN l : i < j => Rank(Name(l[i])) <= Rank(Name(l[j]))
<1> DEFINE n == Cardinality(registered)
           D == 1..n
<1>1. n \in Nat /\ n # 0
  BY FS_CardinalityType, FS_EmptySet DEF ResolutionInv
<1>2. /\ l \in [D -> registered] /\ \A i, j \in D : i # j => l[i] # l[j]
      /\ \A i, j \in DOMAIN l : i < j => Rank(Name(l[i])) <= Rank(Name(l[j]))
  BY DEF Lists, SetToSeqs
<1>3. IsFiniteSet(D) /\ Cardinality(D) = n
  <2>1. 1 \in Int /\ n \in Int
    BY <1>1
  <2>2. IsFiniteSet(D) /\ Cardinality(D) = IF 1 > n THEN 0 ELSE n - 1 + 1
    BY <2>1, FS_Interval, Zenon
  <2> HIDE DEF D
  <2> QED BY <1>1, <2>2
<1>4. l \in Injection(D, registered)
  BY <1>2 DEF Injection, IsInjective
<1>5. l \in Surjection(D, registered)
  <2>1. IsFiniteSet(registered)
    BY DEF ResolutionInv
  <2> HIDE DEF D
  <2> QED BY <1>3, <1>4, <2>1, FS_Injection
<1>6. \A p \in registered : \E i \in DOMAIN l : l[i] = p
  BY <1>2, <1>5 DEF Surjection
<1>7. Len(l) = n /\ DOMAIN l = D
  BY <1>1, <1>2
<1> QED BY <1>1, <1>2, <1>6, <1>7

LEMMA CliFinds ==
  ASSUME ResolutionInv, registered # {}, NEW l \in Lists
  PROVE  IF Enclosing = {} THEN CliResolves(l) = Last(l) ELSE CliResolves(l) \in Enclosing
<1> DEFINE found == {i \in DOMAIN l : Holds(l[i])}
<1>1. CliResolves(l) = IF found = {} THEN Last(l) ELSE l[Min(found)]
  BY DEF CliResolves
<1>2. \A i \in DOMAIN l : i \in found <=> l[i] \in Enclosing
  BY ListIs, HoldsIs
<1>3. CASE Enclosing = {}
  BY <1>1, <1>2, <1>3
<1>4. CASE Enclosing # {}
  <2>1. found # {}
    BY <1>2, <1>4, ListIs DEF Enclosing
  <2>2. Min(found) \in found
    <3>1. found \in SUBSET (1..Cardinality(registered)) /\ Cardinality(registered) \in Nat
      BY ListIs
    <3> HIDE DEF found
    <3> QED BY <2>1, <3>1, Extremes
  <2> QED BY <1>1, <1>2, <1>4, <2>1, <2>2
<1> QED BY <1>3, <1>4

LEMMA ServerFinds ==
  ASSUME ResolutionInv, registered # {}, NEW l \in Lists, Alike = {}
  PROVE  IF Enclosing = {} THEN ServerResolves(l) = Last(l) ELSE ServerResolves(l) \in Enclosing
<1> DEFINE found == {i \in DOMAIN l : BeginsLike(l[i])}
<1>1. ServerResolves(l) = IF found = {} THEN Last(l) ELSE l[Max(found)]
  BY DEF ServerResolves
<1>2. \A i \in DOMAIN l : i \in found <=> l[i] \in Enclosing
  BY ListIs, LooksIs
<1>3. CASE Enclosing = {}
  BY <1>1, <1>2, <1>3
<1>4. CASE Enclosing # {}
  <2>1. found # {}
    BY <1>2, <1>4, ListIs DEF Enclosing
  <2>2. Max(found) \in found
    <3>1. found \in SUBSET (1..Cardinality(registered)) /\ Cardinality(registered) \in Nat
      BY ListIs
    <3> HIDE DEF found
    <3> QED BY <2>1, <3>1, Extremes
  <2> QED BY <1>1, <1>2, <1>4, <2>1, <2>2
<1> QED BY <1>3, <1>4

\* With names of their own the repositories have one list.
LEMMA LastIsGreatest ==
  ASSUME ResolutionInv, registered # {}, NEW l \in Lists, NEW p \in registered
  PROVE  Last(l) \in registered /\ Rank(Name(p)) <= Rank(Name(Last(l)))
<1>1. PICK i \in DOMAIN l : l[i] = p
  BY ListIs
<1>2. Len(l) \in DOMAIN l /\ Last(l) = l[Len(l)] /\ Last(l) \in registered
  BY ListIs DEF Last
<1>3. i = Len(l) \/ i < Len(l)
  BY <1>2, ListIs
<1>4. CASE i < Len(l)
  BY <1>1, <1>2, <1>4, ListIs
<1>5. CASE i = Len(l)
  <2>1. Name(p) \in PathName
    BY NameIs DEF ResolutionInv
  <2> QED BY <1>1, <1>2, <1>5, <2>1, RankIs
<1> QED BY <1>2, <1>3, <1>4, <1>5

LEMMA OneLast ==
  ASSUME ResolutionInv, registered # {}, NEW l \in Lists, NEW m \in Lists,
         \A p, q \in registered : Name(p) = Name(q) => p = q
  PROVE  Last(l) = Last(m)
<1> DEFINE p == Last(l)
           q == Last(m)
<1>1. p \in registered /\ q \in registered
  BY LastIsGreatest
<1>2. Rank(Name(p)) <= Rank(Name(q)) /\ Rank(Name(q)) <= Rank(Name(p))
  BY <1>1, LastIsGreatest
<1>3. Name(p) \in PathName /\ Name(q) \in PathName
  BY <1>1, NameIs DEF ResolutionInv
<1>4. Rank(Name(p)) = Rank(Name(q))
  BY <1>2, <1>3, RankIs
<1>5. Name(p) = Name(q)
  BY <1>3, <1>4, RankIs
<1> QED BY <1>1, <1>5

LEMMA ResolutionStep ==
  /\ ResolutionInit => ResolutionInv
  /\ ResolutionInv /\ [ResolutionNext]_resolutionVars => ResolutionInv'
<1>1. ResolutionInit => ResolutionInv
  BY FS_EmptySet DEF ResolutionInit, ResolutionInv
<1>2. ASSUME ResolutionInv, [ResolutionNext]_resolutionVars PROVE ResolutionInv'
  <2> USE DEF ResolutionInv
  <2>1. ASSUME NEW p \in Dirs, Analyze(p) PROVE ResolutionInv'
    BY <1>2, <2>1, FS_AddElement DEF Analyze
  <2>2. ASSUME NEW p \in Dirs, Unregister(p) PROVE ResolutionInv'
    BY <1>2, <2>2, FS_RemoveElement DEF Unregister
  <2>3. ASSUME NEW p \in Dirs, Vanish(p) \/ Restore(p) \/ Enter(p) PROVE ResolutionInv'
    BY <1>2, <2>3 DEF Vanish, Restore, Enter
  <2>4. CASE UNCHANGED resolutionVars
    BY <1>2, <2>4 DEF resolutionVars
  <2> QED BY <1>2, <2>1, <2>2, <2>3, <2>4 DEF ResolutionNext
<1> QED BY <1>1, <1>2

\* With any directories and names, however repositories are registered, removed, moved and
\* restored: the CLI, and the server unless a path looks alike, resolve to a repository
\* that contains the current directory, and otherwise choose the same one.
THEOREM ResolutionIsSoundAlways == ResolutionSpec => []ResolutionIsSound
<1>1. ResolutionInv => ResolutionIsSound
  <2> SUFFICES ASSUME ResolutionInv, NEW l \in Lists, NEW m \in Lists, registered # {}
               PROVE  /\ Enclosing # {} => CliResolves(l) \in Enclosing
                      /\ Enclosing # {} /\ Alike = {} => ServerResolves(l) \in Enclosing
                      /\ /\ Cardinality(Enclosing) <= 1 /\ Alike = {}
                         /\ \A p, q \in registered : Name(p) = Name(q) => p = q
                         => CliResolves(l) = ServerResolves(m)
    BY DEF ResolutionIsSound
  <2>1. Enclosing # {} => CliResolves(l) \in Enclosing
    BY CliFinds
  <2>2. Enclosing # {} /\ Alike = {} => ServerResolves(l) \in Enclosing
    BY ServerFinds
  <2>3. ASSUME Cardinality(Enclosing) <= 1, Alike = {},
               \A p, q \in registered : Name(p) = Name(q) => p = q
        PROVE  CliResolves(l) = ServerResolves(m)
    <3>1. CASE Enclosing = {}
      BY <2>3, <3>1, CliFinds, ServerFinds, OneLast
    <3>2. CASE Enclosing # {}
      <4>1. CliResolves(l) \in Enclosing /\ ServerResolves(m) \in Enclosing
        BY <2>3, <3>2, CliFinds, ServerFinds
      <4>2. IsFiniteSet(Enclosing)
        BY FS_Subset DEF Enclosing, ResolutionInv
      <4>3. ASSUME NEW p \in Enclosing, NEW q \in Enclosing, p # q PROVE FALSE
        <5>1. {p, q} \in SUBSET Enclosing
          BY <4>3
        <5>2. Cardinality({p, q}) <= Cardinality(Enclosing)
          BY <4>2, <5>1, FS_Subset
        <5>3. Cardinality({p}) = 1 /\ IsFiniteSet({p})
          BY FS_Singleton
        <5>4. Cardinality({p} \cup {q}) = 2
          BY <4>3, <5>3, FS_AddElement
        <5>5. {p, q} = {p} \cup {q}
          OBVIOUS
        <5>6. Cardinality(Enclosing) \in Nat
          BY <4>2, FS_CardinalityType
        <5> QED BY <2>3, <5>2, <5>4, <5>5, <5>6
      <4> QED BY <4>1, <4>3
    <3> QED BY <3>1, <3>2
  <2> QED BY <2>1, <2>2, <2>3
<1> QED BY <1>1, ResolutionStep, PTL DEF ResolutionSpec

-----------------------------------------------------------------------------
(***************************************************************************)
(* The documents shared with the user.                                     *)
(***************************************************************************)
Changing == {"setup", "uninstall", "wizard", "configure", "reset", "record"}

\* What a command makes of what should be in the document.
Result(c, e, all) == CASE c = "uninstall" -> all \ {Ours}
                       [] c = "reset"     -> {}
                       [] OTHER           -> all \cup {e}

DocTypeOK ==
    /\ doc \in {Absent, Broken, Odd} \cup SUBSET EntryNames
    /\ wanted \subseteq EntryNames /\ current \subseteq Writers
    /\ step \in [Writers -> {"idle", "truncate", "write"}]
    /\ docCmd \in [Writers -> Changing \cup {"none"}]
    /\ item \in [Writers -> EntryNames] /\ docCopy \in [Writers -> SUBSET EntryNames]

\* What the structs may cost, and the excuses for no more than that.
Costs      == {{}, Foreign}
Allowed(F) == IF F = {} THEN {} ELSE {"dropped"}

\* A writer nobody has overtaken holds what should be in the document after it, and one
\* that is about to write is the only one.
CopyIsDue(w, F) ==
    w \in current /\ step[w] \in {"truncate", "write"} =>
        docCopy[w] \ F = Result(docCmd[w], item[w], wanted) \ F
LastToWrite(w) == w \in current /\ step[w] = "write" => doc = Broken /\ current = {w}

Ledger(F) ==
    /\ doc = Absent => wanted \ F = {}
    /\ Readable => doc \ F = wanted \ F
    /\ \A w \in Writers : CopyIsDue(w, F) /\ LastToWrite(w)
NoneDropped == Foreign = {} => "dropped" \notin excuses
DocInv == /\ DocTypeOK /\ NoneDropped
          /\ \A F \in Costs : excuses \subseteq Allowed(F) => Ledger(F)

LEMMA DocTyped == DocTypeOK /\ [DocNext]_docVars => DocTypeOK'
<1> SUFFICES ASSUME DocTypeOK, [DocNext]_docVars PROVE DocTypeOK'
  OBVIOUS
<1> USE DEF DocTypeOK
<1>0. Ours \in EntryNames
  BY DEF EntryNames
<1>1. ASSUME NEW w \in Writers, NEW c \in Changing, NEW e \in EntryNames, ReadDocument(w, c, e)
      PROVE  DocTypeOK'
  <2>1. Held \in SUBSET EntryNames
    BY DEF Held, Readable
  <2>2. Edited(c, e) \in SUBSET EntryNames
    BY <1>0, <2>1 DEF Edited, Taken, Mine
  <2> QED BY <1>1, <2>2 DEF ReadDocument
<1>2. ASSUME NEW w \in Writers, TruncateDocument(w) PROVE DocTypeOK'
  BY <1>2 DEF TruncateDocument
<1>3. ASSUME NEW w \in Writers, WriteDocument(w) PROVE DocTypeOK'
  <2>1. wanted' \subseteq EntryNames
    BY <1>3 DEF WriteDocument
  <2> QED BY <1>0, <1>3, <2>1 DEF WriteDocument
<1>4. ASSUME NEW w \in Writers, DieWriting(w) PROVE DocTypeOK'
  BY <1>0, <1>4 DEF DieWriting
<1>5. ASSUME NEW d \in {Broken, Odd} \cup SUBSET EntryNames, NEW keeps \in SUBSET EntryNames,
             UserSaves(d, keeps)
      PROVE  DocTypeOK'
  BY <1>5 DEF UserSaves, docLocal
<1>6. CASE UNCHANGED docVars
  BY <1>6 DEF docVars, docLocal
<1> QED BY <1>1, <1>2, <1>3, <1>4, <1>5, <1>6 DEF DocNext, Changing

\* A command that reads what is as it should be has a copy that is due.
LEMMA ReadIsDue ==
  ASSUME DocTypeOK, NEW F \in Costs, Ledger(F), NEW w \in Writers, NEW c \in Changing,
         NEW e \in EntryNames, ReadDocument(w, c, e), excuses' \subseteq Allowed(F)
  PROVE  doc # Broken /\ docCopy'[w] \ F = Result(c, e, wanted) \ F
<1>1. \A x \in excuses' : x = "dropped"
  BY DEF Allowed
<1>2. doc # Broken
  <2>1. doc # Broken \/ ~Forgiving(c)
    <3> SUFFICES ASSUME doc = Broken, Forgiving(c) PROVE FALSE
      OBVIOUS
    <3>1. "discarded" \in excuses'
      BY DEF ReadDocument
    <3> QED BY <1>1, <3>1
  <2> QED BY <2>1, DocumentsAssumption DEF ReadDocument, Parses, Readable
<1>3. Held \ F = wanted \ F
  <2>1. Readable \/ doc = Absent
    BY <1>2 DEF ReadDocument, Parses
  <2>2. CASE Readable
    BY <2>2 DEF Held, Ledger
  <2>3. CASE ~Readable /\ doc = Absent
    BY <2>3 DEF Held, Ledger
  <2> QED BY <2>1, <2>2, <2>3
<1>4. Held \cap Mine \subseteq {Ours}
  <2> SUFFICES ASSUME ~(Held \cap Mine \subseteq {Ours}) PROVE FALSE
    OBVIOUS
  <2>1. "mistaken" \in excuses'
    BY DEF ReadDocument
  <2> QED BY <1>1, <2>1
<1>5. Taken \ F = Held \ F
  <2>1. CASE F = Foreign
    BY <2>1 DEF Taken
  <2>2. CASE F = {}
    <3>1. Taken = Held \/ "dropped" \in excuses'
      BY DEF ReadDocument
    <3> QED BY <2>2, <3>1 DEF Allowed
  <2> QED BY <2>1, <2>2 DEF Costs
<1>6. c \in {"setup", "wizard"} => e = Ours
  BY DEF ReadDocument
<1>7. (Taken \ Mine) \ F = (wanted \ {Ours}) \ F
  <2>1. Taken \subseteq Held
    BY DEF Taken
  <2>2. Taken \ Mine = Taken \ {Ours}
    BY <1>4, <2>1 DEF Mine
  <2> QED BY <1>3, <1>5, <2>2
<1>8. Edited(c, e) \ F = Result(c, e, wanted) \ F
  <2>1. CASE c = "uninstall"
    BY <1>7, <2>1 DEF Edited, Result
  <2>2. CASE c = "reset"
    BY <2>2 DEF Edited, Result
  <2>3. CASE c \in {"setup", "wizard"}
    BY <1>6, <1>7, <2>3 DEF Edited, Result
  <2>4. CASE c \in {"configure", "record"}
    BY <1>3, <1>5, <2>4 DEF Edited, Result
  <2> QED BY <2>1, <2>2, <2>3, <2>4 DEF Changing
<1>9. docCopy'[w] = Edited(c, e)
  BY DEF ReadDocument, DocTypeOK
<1> QED BY <1>2, <1>8, <1>9

LEMMA NoneDroppedStep == NoneDropped /\ DocNext => NoneDropped'
<1> SUFFICES ASSUME NoneDropped, DocNext, Foreign = {}, "dropped" \notin excuses
             PROVE  "dropped" \notin excuses'
  BY DEF NoneDropped
<1>1. Taken = Held
  BY DEF Taken
<1> QED BY <1>1 DEF DocNext, ReadDocument, TruncateDocument, WriteDocument, DieWriting, UserSaves

LEMMA LedgerStep ==
  ASSUME DocInv, DocNext, NEW F \in Costs, excuses' \subseteq Allowed(F)
  PROVE  Ledger(F)'
<1>0. DocTypeOK /\ excuses \subseteq Allowed(F) /\ Ledger(F)
  <2>1. excuses \subseteq excuses'
    BY DEF DocNext, ReadDocument, TruncateDocument, WriteDocument, DieWriting, UserSaves
  <2> QED BY <2>1 DEF DocInv
<1>1. ASSUME NEW w \in Writers, NEW c \in Changing, NEW e \in EntryNames, ReadDocument(w, c, e)
      PROVE  Ledger(F)'
  <2>1. doc # Broken /\ docCopy'[w] \ F = Result(c, e, wanted) \ F
    BY <1>0, <1>1, ReadIsDue
  <2>2. /\ step'[w] = "truncate" /\ docCmd'[w] = c /\ item'[w] = e
        /\ UNCHANGED <<doc, wanted>> /\ current' = current \cup {w}
    BY <1>0, <1>1 DEF ReadDocument, DocTypeOK
  <2>3. ASSUME NEW v \in Writers, v # w
        PROVE  /\ step'[v] = step[v] /\ docCmd'[v] = docCmd[v] /\ item'[v] = item[v]
               /\ docCopy'[v] = docCopy[v]
    BY <1>0, <1>1, <2>3 DEF ReadDocument, DocTypeOK
  <2>4. ASSUME NEW v \in Writers PROVE CopyIsDue(v, F)' /\ LastToWrite(v)'
    <3>1. CASE v = w
      BY <2>1, <2>2, <3>1 DEF CopyIsDue, LastToWrite
    <3>2. CASE v # w
      BY <1>0, <2>1, <2>2, <2>3, <3>2 DEF Ledger, CopyIsDue, LastToWrite
    <3> QED BY <3>1, <3>2
  <2> QED BY <1>0, <2>2, <2>4 DEF Ledger, Readable
<1>2. ASSUME NEW w \in Writers, TruncateDocument(w) PROVE Ledger(F)'
  <2>1. /\ w \in current /\ current' = {w} /\ doc' = Broken /\ step'[w] = "write"
        /\ step[w] = "truncate" /\ UNCHANGED <<docCmd, item, docCopy, wanted>>
    <3>1. w \in current
      BY <1>2 DEF TruncateDocument, Allowed
    <3> QED BY <1>0, <1>2, <3>1 DEF TruncateDocument, DocTypeOK
  <2>2. ASSUME NEW v \in Writers PROVE CopyIsDue(v, F)' /\ LastToWrite(v)'
    BY <1>0, <2>1 DEF Ledger, CopyIsDue, LastToWrite
  <2>3. Absent # Broken
    BY DocumentsAssumption
  <2> QED BY <2>1, <2>2, <2>3 DEF Ledger, Readable
<1>3. ASSUME NEW w \in Writers, WriteDocument(w) PROVE Ledger(F)'
  <2>1. w \in current /\ step[w] = "write"
    BY <1>0, <1>3 DEF WriteDocument, Allowed
  <2>2. /\ doc = Broken /\ current = {w}
        /\ docCopy[w] \ F = Result(docCmd[w], item[w], wanted) \ F
    BY <1>0, <2>1 DEF Ledger, CopyIsDue, LastToWrite
  <2>3. doc' = docCopy[w] /\ current' = {}
    BY <1>3, <2>2 DEF WriteDocument
  <2>4. wanted' = Result(docCmd[w], item[w], wanted)
    BY <1>3 DEF WriteDocument, Result
  <2>5. doc' # Absent
    BY <1>0, <2>3, DocumentsAssumption DEF DocTypeOK
  <2>6. \A v \in Writers : CopyIsDue(v, F)' /\ LastToWrite(v)'
    BY <2>3 DEF CopyIsDue, LastToWrite
  <2> QED BY <2>2, <2>3, <2>4, <2>5, <2>6 DEF Ledger
<1>4. ASSUME NEW w \in Writers, DieWriting(w) PROVE Ledger(F)'
  <2>1. /\ current' = current \ {w} /\ UNCHANGED <<doc, wanted>>
        /\ \A v \in Writers : v # w => /\ step'[v] = step[v] /\ docCmd'[v] = docCmd[v]
                                       /\ item'[v] = item[v] /\ docCopy'[v] = docCopy[v]
    BY <1>0, <1>4 DEF DieWriting, DocTypeOK
  <2>2. ASSUME NEW v \in Writers PROVE CopyIsDue(v, F)' /\ LastToWrite(v)'
    BY <1>0, <2>1 DEF Ledger, CopyIsDue, LastToWrite
  <2> QED BY <1>0, <2>1, <2>2 DEF Ledger, Readable
<1>5. ASSUME NEW d \in {Broken, Odd} \cup SUBSET EntryNames, NEW keeps \in SUBSET EntryNames,
             UserSaves(d, keeps)
      PROVE  Ledger(F)'
  <2>1. /\ current' = {} /\ doc' = d /\ doc' # Absent
        /\ d \notin {Broken, Odd} => wanted' = d
    BY <1>5, DocumentsAssumption DEF UserSaves
  <2>2. \A v \in Writers : CopyIsDue(v, F)' /\ LastToWrite(v)'
    BY <2>1 DEF CopyIsDue, LastToWrite
  <2> QED BY <2>1, <2>2 DEF Ledger, Readable
<1> QED BY <1>1, <1>2, <1>3, <1>4, <1>5 DEF DocNext, Changing

\* For any number of writers and any entries: a document that can be read holds what was
\* put there and not taken out, unless one of the four named causes occurred; what the
\* structs of the configuration and the records drop is gone from it and nothing else.
THEOREM DocumentIsLedgerAlways == DocSpec => []DocumentIsLedger
<1>1. DocInit => DocInv
  <2> SUFFICES ASSUME DocInit PROVE DocInv
    OBVIOUS
  <2>1. DocTypeOK /\ NoneDropped
    BY DEF DocInit, DocTypeOK, NoneDropped, Changing, EntryNames
  <2> QED BY <2>1 DEF DocInit, DocInv, Ledger, CopyIsDue, LastToWrite, Readable
<1>2. DocInv /\ [DocNext]_docVars => DocInv'
  <2> SUFFICES ASSUME DocInv, [DocNext]_docVars PROVE DocInv'
    OBVIOUS
  <2>1. DocTypeOK'
    BY DocTyped DEF DocInv
  <2>2. CASE DocNext
    BY <2>1, <2>2, LedgerStep, NoneDroppedStep DEF DocInv
  <2>3. CASE UNCHANGED docVars
    BY <2>1, <2>3 DEF DocInv, NoneDropped, Ledger, CopyIsDue, LastToWrite, Readable, docVars, docLocal
  <2> QED BY <2>2, <2>3
<1>3. DocInv => DocumentIsLedger
  <2> SUFFICES ASSUME DocInv PROVE DocumentIsLedger
    OBVIOUS
  <2>1. excuses = {} => Ledger({})
    BY DEF DocInv, Costs, Allowed
  <2>2. excuses \subseteq {"dropped"} => Ledger(Foreign)
    BY <2>1 DEF DocInv, NoneDropped, Costs, Allowed
  <2> QED BY <2>1, <2>2 DEF Ledger, DocumentIsLedger
<1> QED BY <1>1, <1>2, <1>3, PTL DEF DocSpec

-----------------------------------------------------------------------------
(***************************************************************************)
(* Git hooks, for any lines: the user's lines are those of the parts       *)
(* around the block, which install and uninstall find where it stands.     *)
(***************************************************************************)
\* A set of numbers that has 0 and the successor of each of its own has all of them.
LEMMA Counting ==
  ASSUME NEW T, T \subseteq Nat, 0 \in T, \A n \in T : n + 1 \in T
  PROVE  \A n \in Nat : n \in T
<1> SUFFICES ASSUME NEW k \in Nat, k \notin T PROVE FALSE
  OBVIOUS
<1>1. PICK m \in Nat \ T : \A n \in Nat \ T : m <= n
  BY LeastNumber
<1>2. m # 0 /\ m - 1 \in Nat
  BY <1>1
<1>3. m - 1 \in T
  BY <1>1, <1>2
<1> QED BY <1>1, <1>2, <1>3

\* The lines of a hook.
AllLines == UserLines \cup {Shebang, HookBegin, Body, HookEnd}

\* f collects the user's lines of s.
Collects(f, s) ==
    f = [i \in 0..Len(s) |-> IF i = 0 THEN <<>>
                             ELSE IF s[i] \in UserLines THEN Append(f[i - 1], s[i])
                             ELSE f[i - 1]]

LEMMA CollectValues ==
  ASSUME NEW s \in Seq(AllLines), NEW f, Collects(f, s)
  PROVE  /\ f[0] = <<>>
         /\ \A i \in 1..Len(s) :
              f[i] = IF s[i] \in UserLines THEN Append(f[i - 1], s[i]) ELSE f[i - 1]
<1> DEFINE v(i) == IF i = 0 THEN <<>>
                   ELSE IF s[i] \in UserLines THEN Append(f[i - 1], s[i]) ELSE f[i - 1]
<1>1. f = [i \in 0..Len(s) |-> v(i)]
  BY DEF Collects
<1>2. \A i \in 0..Len(s) : f[i] = v(i)
  <2> HIDE DEF v
  <2> QED BY <1>1
<1>3. Len(s) \in Nat
  OBVIOUS
<1>4. ASSUME NEW i \in 1..Len(s)
      PROVE  f[i] = IF s[i] \in UserLines THEN Append(f[i - 1], s[i]) ELSE f[i - 1]
  <2>1. i \in 0..Len(s) /\ i # 0
    BY <1>3
  <2>2. v(i) = IF s[i] \in UserLines THEN Append(f[i - 1], s[i]) ELSE f[i - 1]
    BY <2>1
  <2> QED
    <3> HIDE DEF v
    <3> QED BY <1>2, <2>1, <2>2
<1>5. f[0] = v(0) /\ v(0) = <<>>
  BY <1>2, <1>3
<1> QED BY <1>4, <1>5

\* Two that collect from the same lines agree.
LEMMA CollectAgree ==
  ASSUME NEW s \in Seq(AllLines), NEW t \in Seq(AllLines), NEW n \in Nat, n <= Len(s), n <= Len(t),
         \A i \in 1..n : s[i] = t[i],
         NEW f, Collects(f, s), NEW g, Collects(g, t)
  PROVE  f[n] = g[n]
<1> DEFINE T == {k \in Nat : k <= n => f[k] = g[k]}
<1>1. f[0] = <<>> /\ g[0] = <<>>
  BY CollectValues
<1>2. /\ \A i \in 1..Len(s) : f[i] = IF s[i] \in UserLines THEN Append(f[i - 1], s[i]) ELSE f[i - 1]
      /\ \A i \in 1..Len(t) : g[i] = IF t[i] \in UserLines THEN Append(g[i - 1], t[i]) ELSE g[i - 1]
  BY CollectValues
<1>3. ASSUME NEW k \in T PROVE k + 1 \in T
  <2> SUFFICES ASSUME k + 1 <= n PROVE f[k + 1] = g[k + 1]
    OBVIOUS
  <2>1. k \in Nat /\ k + 1 \in 1..n /\ k + 1 \in 1..Len(s) /\ k + 1 \in 1..Len(t) /\ (k + 1) - 1 = k
    OBVIOUS
  <2>2. f[k] = g[k] /\ s[k + 1] = t[k + 1]
    BY <2>1
  <2> QED BY <1>2, <2>1, <2>2
<1>4. 0 \in T
  BY <1>1
<1>5. \A k \in Nat : k \in T
  <2>1. T \subseteq Nat
    OBVIOUS
  <2> HIDE DEF T
  <2> QED BY <1>3, <1>4, <2>1, Counting
<1> QED BY <1>5

LEMMA CollectExists ==
  ASSUME NEW s \in Seq(AllLines)
  PROVE  \E f : Collects(f, s)
<1> DEFINE grown(f, i) == IF i = 0 THEN <<>>
                          ELSE IF s[i] \in UserLines THEN Append(f[i - 1], s[i]) ELSE f[i - 1]
           T == {n \in Nat : n <= Len(s) => \E f : /\ f = [i \in 0..n |-> f[i]]
                                                  /\ \A i \in 0..n : f[i] = grown(f, i)}
<1>1. 0 \in T
  <2> DEFINE f == [i \in 0..0 |-> <<>>]
  <2>1. f = [i \in 0..0 |-> f[i]] /\ \A i \in 0..0 : f[i] = grown(f, i)
    OBVIOUS
  <2> QED BY <2>1
<1>2. ASSUME NEW n \in T PROVE n + 1 \in T
  <2> SUFFICES ASSUME n + 1 <= Len(s)
               PROVE  \E f : /\ f = [i \in 0..(n + 1) |-> f[i]]
                             /\ \A i \in 0..(n + 1) : f[i] = grown(f, i)
    OBVIOUS
  <2>1. PICK g : g = [i \in 0..n |-> g[i]] /\ \A i \in 0..n : g[i] = grown(g, i)
    OBVIOUS
  <2> DEFINE h == [i \in 0..(n + 1) |-> IF i <= n THEN g[i] ELSE grown(g, n + 1)]
  <2>2. h = [i \in 0..(n + 1) |-> h[i]]
    OBVIOUS
  <2>3. ASSUME NEW i \in 0..(n + 1) PROVE h[i] = grown(h, i)
    <3>1. CASE i <= n
      <4>1. i \in 0..n /\ h[i] = g[i] /\ (i # 0 => i - 1 \in 0..n /\ h[i - 1] = g[i - 1])
        BY <3>1
      <4> QED BY <2>1, <4>1
    <3>2. CASE ~(i <= n)
      <4>1. i = n + 1 /\ i # 0 /\ i - 1 = n /\ n \in 0..(n + 1)
        BY <3>2
      <4>2. h[n] = g[n] /\ h[n + 1] = grown(g, n + 1)
        BY <4>1
      <4>3. (n + 1) - 1 = n /\ n + 1 # 0
        OBVIOUS
      <4> HIDE DEF h
      <4> QED BY <4>1, <4>2, <4>3
    <3> QED BY <3>1, <3>2
  <2> HIDE DEF h
  <2> QED BY <2>2, <2>3
<1>3. Len(s) \in T
  <2>1. \A n \in Nat : n \in T
    <3> HIDE DEF T
    <3>1. T \subseteq Nat
      BY DEF T
    <3> QED BY <1>1, <1>2, <3>1, Counting
  <2> HIDE DEF T
  <2> QED BY <2>1
<1>4. PICK f : f = [i \in 0..Len(s) |-> f[i]] /\ \A i \in 0..Len(s) : f[i] = grown(f, i)
  BY <1>3
<1>5. f = [i \in 0..Len(s) |-> grown(f, i)]
  <2> HIDE DEF grown
  <2> QED BY <1>4
<1> QED BY <1>5 DEF Collects

\* What Users is.
LEMMA UsersIs ==
  ASSUME NEW s \in Seq(AllLines)
  PROVE  \E f : Collects(f, s) /\ Users(s) = f[Len(s)]
<1> DEFINE f == CHOOSE f : Collects(f, s)
<1>1. Collects(f, s)
  BY CollectExists
<1>2. Users(s) = f[Len(s)]
  BY DEF Users, Collects
<1> HIDE DEF f
<1> QED BY <1>1, <1>2

LEMMA UsersOfNone == Users(<<>>) = <<>>
<1>1. <<>> \in Seq(AllLines) /\ Len(<<>>) = 0
  OBVIOUS
<1>2. PICK f : Collects(f, <<>>) /\ Users(<<>>) = f[Len(<<>>)]
  BY <1>1, UsersIs
<1>3. f[0] = <<>>
  BY <1>1, <1>2, CollectValues
<1> QED BY <1>1, <1>2, <1>3

LEMMA UsersAppend ==
  ASSUME NEW s \in Seq(AllLines), NEW l \in AllLines
  PROVE  Users(Append(s, l)) = IF l \in UserLines THEN Append(Users(s), l) ELSE Users(s)
<1> DEFINE t == Append(s, l)
<1>1. t \in Seq(AllLines) /\ Len(t) = Len(s) + 1 /\ t[Len(s) + 1] = l
      /\ \A i \in 1..Len(s) : s[i] = t[i]
  OBVIOUS
<1> HIDE DEF t
<1>2. PICK f : Collects(f, s) /\ Users(s) = f[Len(s)]
  BY UsersIs
<1>3. PICK g : Collects(g, t) /\ Users(t) = g[Len(t)]
  BY <1>1, UsersIs
<1>4. Len(s) \in Nat /\ Len(s) <= Len(s) /\ Len(s) <= Len(t) /\ Len(t) \in 1..Len(t)
      /\ Len(t) - 1 = Len(s)
  BY <1>1
<1>5. f[Len(s)] = g[Len(s)]
  BY <1>1, <1>2, <1>3, <1>4, CollectAgree
<1>6. g[Len(t)] = IF t[Len(t)] \in UserLines THEN Append(g[Len(t) - 1], t[Len(t)]) ELSE g[Len(t) - 1]
  BY <1>1, <1>3, <1>4, CollectValues
<1>7. Users(t) = IF l \in UserLines THEN Append(Users(s), l) ELSE Users(s)
  BY <1>1, <1>2, <1>3, <1>4, <1>5, <1>6
<1> QED BY <1>7 DEF t


\* Facts about sequences that end with an element: induction on their length.
LEMMA LastTaken ==
  ASSUME NEW S, NEW n \in Nat, NEW s \in Seq(S), Len(s) = n + 1
  PROVE  \E u \in Seq(S), l \in S : s = Append(u, l) /\ Len(u) = n
<1> DEFINE u == [i \in 1..n |-> s[i]]
<1>1. u \in Seq(S) /\ Len(u) = n /\ s[n + 1] \in S
  OBVIOUS
<1>2. s = Append(u, s[n + 1])
  OBVIOUS
<1> HIDE DEF u
<1> QED BY <1>1, <1>2

\* Elements of sequences that were put one after the other.
LEMMA Joined ==
  ASSUME NEW S, NEW a \in Seq(S), NEW m \in Seq(S), NEW b \in Seq(S), NEW w, w = (a \o m) \o b
  PROVE  /\ w \in Seq(S) /\ Len(w) = Len(a) + Len(m) + Len(b)
         /\ \A j \in 1..Len(a) : w[j] = a[j]
         /\ \A j \in 1..Len(m) : w[Len(a) + j] = m[j]
         /\ \A j \in 1..Len(b) : w[(Len(a) + Len(m)) + j] = b[j]
<1> DEFINE v == a \o m
<1>1. /\ v \in Seq(S) /\ Len(v) = Len(a) + Len(m)
      /\ \A i \in 1..Len(a) + Len(m) : v[i] = IF i <= Len(a) THEN a[i] ELSE m[i - Len(a)]
  BY ConcatProperties
<1>2. /\ w \in Seq(S) /\ Len(w) = Len(v) + Len(b)
      /\ \A i \in 1..Len(v) + Len(b) : w[i] = IF i <= Len(v) THEN v[i] ELSE b[i - Len(v)]
  <2>1. w = v \o b
    OBVIOUS
  <2>2. v \in Seq(S)
    BY <1>1
  <2> HIDE DEF v
  <2> QED BY ONLY <2>1, <2>2, b \in Seq(S), ConcatProperties
<1> HIDE DEF v
<1>3. Len(a) \in Nat /\ Len(m) \in Nat /\ Len(b) \in Nat
  OBVIOUS
<1>4. ASSUME NEW j \in 1..Len(a) PROVE w[j] = a[j]
  BY <1>1, <1>2, <1>3
<1>5. ASSUME NEW j \in 1..Len(m) PROVE w[Len(a) + j] = m[j]
  <2>1. Len(a) + j \in 1..Len(v) + Len(b) /\ Len(a) + j <= Len(v) /\ ~(Len(a) + j <= Len(a))
        /\ (Len(a) + j) - Len(a) = j /\ Len(a) + j \in 1..Len(a) + Len(m)
    BY <1>1, <1>3
  <2> QED BY <1>1, <1>2, <2>1
<1>6. ASSUME NEW j \in 1..Len(b) PROVE w[(Len(a) + Len(m)) + j] = b[j]
  <2>1. /\ (Len(a) + Len(m)) + j \in 1..Len(v) + Len(b)
        /\ ~((Len(a) + Len(m)) + j <= Len(v)) /\ ((Len(a) + Len(m)) + j) - Len(v) = j
    BY <1>1, <1>3
  <2> QED BY <1>2, <2>1
<1> QED BY <1>1, <1>2, <1>4, <1>5, <1>6

LEMMA UsersAreLines == \A s \in Seq(AllLines) : Users(s) \in Seq(UserLines)
<1> DEFINE T == {n \in Nat : \A s \in Seq(AllLines) : Len(s) = n => Users(s) \in Seq(UserLines)}
<1>1. 0 \in T
  <2>1. \A s \in Seq(AllLines) : Len(s) = 0 => s = <<>>
    OBVIOUS
  <2> QED BY <2>1, UsersOfNone
<1>2. ASSUME NEW n \in T PROVE n + 1 \in T
  <2> SUFFICES ASSUME NEW s \in Seq(AllLines), Len(s) = n + 1 PROVE Users(s) \in Seq(UserLines)
    OBVIOUS
  <2>1. PICK u \in Seq(AllLines), l \in AllLines : s = Append(u, l) /\ Len(u) = n
    BY LastTaken
  <2>2. Users(u) \in Seq(UserLines)
    BY <2>1
  <2>3. Users(s) = IF l \in UserLines THEN Append(Users(u), l) ELSE Users(u)
    BY <2>1, UsersAppend
  <2> QED BY <2>2, <2>3
<1>3. \A n \in Nat : n \in T
  <2>1. T \subseteq Nat
    OBVIOUS
  <2> HIDE DEF T
  <2> QED BY <1>1, <1>2, <2>1, Counting
<1> QED BY <1>3

LEMMA UsersConcat ==
  ASSUME NEW s \in Seq(AllLines)
  PROVE  \A t \in Seq(AllLines) : Users(s \o t) = Users(s) \o Users(t)
<1> DEFINE T == {n \in Nat : \A t \in Seq(AllLines) : Len(t) = n => Users(s \o t) = Users(s) \o Users(t)}
<1>1. 0 \in T
  <2>1. \A t \in Seq(AllLines) : Len(t) = 0 => t = <<>>
    OBVIOUS
  <2>2. s \o <<>> = s /\ Users(s) \o <<>> = Users(s)
    BY UsersAreLines
  <2> QED BY <2>1, <2>2, UsersOfNone
<1>2. ASSUME NEW n \in T PROVE n + 1 \in T
  <2> SUFFICES ASSUME NEW t \in Seq(AllLines), Len(t) = n + 1
               PROVE  Users(s \o t) = Users(s) \o Users(t)
    OBVIOUS
  <2>1. PICK u \in Seq(AllLines), l \in AllLines : t = Append(u, l) /\ Len(u) = n
    BY LastTaken
  <2>2. Users(s \o u) = Users(s) \o Users(u)
    BY <2>1
  <2>3. s \o t = Append(s \o u, l) /\ s \o u \in Seq(AllLines)
    BY <2>1
  <2>4. Users(s) \in Seq(UserLines) /\ Users(u) \in Seq(UserLines)
    BY UsersAreLines
  <2>5. CASE l \in UserLines
    <3>1. Users(s \o t) = Append(Users(s) \o Users(u), l) /\ Users(t) = Append(Users(u), l)
      BY <2>1, <2>2, <2>3, <2>5, UsersAppend
    <3>2. Append(Users(s) \o Users(u), l) = Users(s) \o Append(Users(u), l)
      <4>1. \A x, y \in Seq(UserLines) : Append(x \o y, l) = x \o Append(y, l)
        <5> TAKE x, y \in Seq(UserLines)
        <5>1. <<l>> \in Seq(UserLines) /\ x \o y \in Seq(UserLines)
          BY <2>5
        <5>2. Append(x \o y, l) = (x \o y) \o <<l>> /\ Append(y, l) = y \o <<l>>
          BY <2>5, <5>1, AppendIsConcat
        <5> QED BY <5>1, <5>2, ConcatAssociative
      <4> QED BY <2>4, <4>1
    <3> QED BY <3>1, <3>2
  <2>6. CASE l \notin UserLines
    BY <2>1, <2>2, <2>3, <2>6, UsersAppend
  <2> QED BY <2>5, <2>6
<1>3. \A n \in Nat : n \in T
  <2>1. T \subseteq Nat
    OBVIOUS
  <2> HIDE DEF T
  <2> QED BY <1>1, <1>2, <2>1, Counting
<1> QED BY <1>3

-----------------------------------------------------------------------------
BlockLines == {HookBegin, Body, HookEnd}

LEMMA BlockIs == Range(Block) = BlockLines /\ Block \in Seq(AllLines) /\ Len(Block) = 3
                 /\ Block[1] = HookBegin /\ Block[2] = Body /\ Block[3] = HookEnd
<1>1. Block \in Seq(AllLines) /\ Len(Block) = 3 /\ Block[1] = HookBegin /\ Block[2] = Body
      /\ Block[3] = HookEnd /\ DOMAIN Block = 1..3
  BY DEF Block, AllLines
<1>2. Range(Block) = BlockLines
  BY <1>1 DEF Range, BlockLines
<1> QED BY <1>1, <1>2

\* The block and the shebang are not the user's.
LEMMA UsersOfOne ==
  ASSUME NEW l \in AllLines \ UserLines PROVE Users(<<l>>) = <<>>
<1>1. <<l>> = Append(<<>>, l) /\ <<>> \in Seq(AllLines)
  OBVIOUS
<1> QED BY <1>1, UsersOfNone, UsersAppend

LEMMA UsersOfBlock == Users(Block) = <<>>
<1>1. Block = (<<HookBegin>> \o <<Body>>) \o <<HookEnd>>
  <2> DEFINE w == (<<HookBegin>> \o <<Body>>) \o <<HookEnd>>
  <2>1. <<HookBegin>> \in Seq(BlockLines) /\ <<Body>> \in Seq(BlockLines) /\ <<HookEnd>> \in Seq(BlockLines)
    BY DEF BlockLines
  <2>2. w \in Seq(BlockLines) /\ Len(w) = 3 /\ w[1] = HookBegin /\ w[2] = Body /\ w[3] = HookEnd
    BY <2>1, Joined
  <2> HIDE DEF w
  <2>3. w = <<HookBegin, Body, HookEnd>>
    BY <2>2
  <2> QED BY <2>3 DEF Block, w
<1>2. {HookBegin, Body, HookEnd} \subseteq AllLines \ UserLines
  BY HooksAssumption DEF AllLines
<1>3. <<HookBegin>> \in Seq(AllLines) /\ <<Body>> \in Seq(AllLines) /\ <<HookEnd>> \in Seq(AllLines)
      /\ <<HookBegin>> \o <<Body>> \in Seq(AllLines)
  BY <1>2
<1>4. Users(<<HookBegin>>) = <<>> /\ Users(<<Body>>) = <<>> /\ Users(<<HookEnd>>) = <<>>
  BY <1>2, UsersOfOne
<1>5. Users(<<HookBegin>> \o <<Body>>) = <<>>
  <2>1. Users(<<HookBegin>> \o <<Body>>) = <<>> \o <<>>
    BY <1>3, <1>4, UsersConcat
  <2> QED BY <2>1
<1>6. Users(Block) = <<>> \o <<>>
  BY <1>1, <1>3, <1>4, <1>5, UsersConcat
<1> QED BY <1>6

\* Where a sound hook has its block.
Without(s) == \A i \in 1..Len(s) : s[i] \notin BlockLines

LEMMA SoundIs ==
  ASSUME NEW s \in Seq(AllLines)
  PROVE  Sound(s) <=> \/ Without(s)
                      \/ \E a, b \in Seq(AllLines) : s = (a \o Block) \o b /\ Without(a) /\ Without(b)
<1>1. ASSUME NEW i \in 1..(Len(s) - 2), SubSeq(s, i, i + 2) = Block,
             \A j \in 1..Len(s) : s[j] \in Range(Block) => j \in i..(i + 2)
      PROVE  \E a, b \in Seq(AllLines) : s = (a \o Block) \o b /\ Without(a) /\ Without(b)
  <2> DEFINE a == [k \in 1..(i - 1) |-> s[k]]
             b == [k \in 1..(Len(s) - (i + 2)) |-> s[k + (i + 2)]]
  <2>1. i \in Nat /\ i >= 1 /\ i + 2 <= Len(s) /\ Len(s) \in Nat
    OBVIOUS
  <2>2. a \in Seq(AllLines) /\ Len(a) = i - 1 /\ \A k \in 1..(i - 1) : a[k] = s[k]
    BY <2>1
  <2>3. b \in Seq(AllLines) /\ Len(b) = Len(s) - (i + 2)
        /\ \A k \in 1..(Len(s) - (i + 2)) : b[k] = s[k + (i + 2)]
    BY <2>1
  <2>4. Without(a) /\ Without(b)
    BY <1>1, <2>1, <2>2, <2>3, BlockIs DEF Without
  <2>5. s[i] = Block[1] /\ s[i + 1] = Block[2] /\ s[i + 2] = Block[3]
    <3> DEFINE u == SubSeq(s, i, i + 2)
    <3>1. \A j \in i..(i + 2) : s[j] \in AllLines
      BY <2>1
    <3>2. \A j \in 1..((i + 2) - i) + 1 : u[j] = s[(i + j) - 1]
      BY <2>1, <3>1, SubSeqProperties
    <3>3. u[1] = s[i] /\ u[2] = s[i + 1] /\ u[3] = s[i + 2]
      <4>1. {1, 2, 3} \subseteq 1..((i + 2) - i) + 1 /\ (i + 1) - 1 = i /\ (i + 2) - 1 = i + 1
            /\ (i + 3) - 1 = i + 2
        BY <2>1
      <4> HIDE DEF u
      <4> QED BY <3>2, <4>1
    <3>4. u = Block
      BY <1>1
    <3> HIDE DEF u
    <3> QED BY <3>3, <3>4
  <2>6. s = (a \o Block) \o b
    <3> DEFINE t == (a \o Block) \o b
    <3>0. /\ t \in Seq(AllLines) /\ Len(t) = (i - 1) + 3 + (Len(s) - (i + 2))
          /\ \A j \in 1..(i - 1) : t[j] = a[j]
          /\ \A j \in 1..3 : t[(i - 1) + j] = Block[j]
          /\ \A j \in 1..(Len(s) - (i + 2)) : t[((i - 1) + 3) + j] = b[j]
      <4> HIDE DEF a, b
      <4>1. t = (a \o Block) \o b
        OBVIOUS
      <4> HIDE DEF t
      <4>2. /\ t \in Seq(AllLines) /\ Len(t) = Len(a) + Len(Block) + Len(b)
            /\ \A j \in 1..Len(a) : t[j] = a[j]
            /\ \A j \in 1..Len(Block) : t[Len(a) + j] = Block[j]
            /\ \A j \in 1..Len(b) : t[(Len(a) + Len(Block)) + j] = b[j]
        <5>1. a \in Seq(AllLines) /\ b \in Seq(AllLines) /\ Block \in Seq(AllLines)
          BY <2>2, <2>3, BlockIs
        <5> QED BY ONLY <4>1, <5>1, Joined
      <4> QED BY <4>2, <2>2, <2>3, BlockIs
    <3> HIDE DEF a, b, t
    <3>1. t \in Seq(AllLines) /\ Len(t) = Len(s)
      BY <2>1, <3>0
    <3>2. \A k \in 1..Len(s) : t[k] = s[k]
      <4> TAKE k \in 1..Len(s)
      <4>1. CASE k <= i - 1
        <5>1. k \in 1..(i - 1)
          BY <4>1, <2>1
        <5>2. t[k] = a[k]
          BY <5>1, <3>0
        <5>3. a[k] = s[k]
          BY <5>1, <2>2
        <5> QED BY <5>2, <5>3
      <4>2. CASE k > i + 2
        <5> DEFINE j == k - (i + 2)
        <5>1. j \in 1..(Len(s) - (i + 2)) /\ ((i - 1) + 3) + j = k /\ j + (i + 2) = k
          BY <4>2, <2>1
        <5> HIDE DEF j
        <5>2. t[((i - 1) + 3) + j] = b[j] /\ b[j] = s[j + (i + 2)]
          BY <5>1, <2>3, <3>0
        <5> QED BY <5>1, <5>2
      <4>3. CASE k \in i..(i + 2)
        <5>1. t[i] = Block[1] /\ t[i + 1] = Block[2] /\ t[i + 2] = Block[3]
          <6>1. (i - 1) + 1 = i /\ (i - 1) + 2 = i + 1 /\ (i - 1) + 3 = i + 2
            BY <2>1
          <6> QED BY <6>1, <3>0
        <5>2. k = i \/ k = i + 1 \/ k = i + 2
          BY <4>3, <2>1
        <5> QED BY <5>1, <5>2, <2>1, <2>5
      <4> QED BY <4>1, <4>2, <4>3, <2>1
    <3>3. t = s
      BY <3>1, <3>2
    <3> QED BY <3>3 DEF t
  <2> HIDE DEF a, b
  <2> QED BY <2>2, <2>3, <2>4, <2>6
<1>2. ASSUME NEW a \in Seq(AllLines), NEW b \in Seq(AllLines), s = (a \o Block) \o b, Without(a), Without(b)
      PROVE  \E i \in 1..(Len(s) - 2) :
                /\ SubSeq(s, i, i + 2) = Block
                /\ \A j \in 1..Len(s) : s[j] \in Range(Block) => j \in i..(i + 2)
  <2> DEFINE i == Len(a) + 1
  <2>0. /\ Len(s) = Len(a) + Len(Block) + Len(b)
        /\ \A j \in 1..Len(a) : s[j] = a[j]
        /\ \A j \in 1..Len(Block) : s[Len(a) + j] = Block[j]
        /\ \A j \in 1..Len(b) : s[(Len(a) + Len(Block)) + j] = b[j]
    <3>1. a \in Seq(AllLines) /\ b \in Seq(AllLines) /\ Block \in Seq(AllLines)
      BY BlockIs
    <3>2. s = (a \o Block) \o b
      BY <1>2
    <3> QED BY ONLY <3>1, <3>2, Joined
  <2>1. /\ Len(s) = Len(a) + 3 + Len(b) /\ i \in 1..(Len(s) - 2)
        /\ Len(a) \in Nat /\ Len(b) \in Nat
    BY <2>0, BlockIs
  <2>2. /\ \A j \in 1..Len(a) : s[j] = a[j]
        /\ \A j \in 1..3 : s[Len(a) + j] = Block[j]
        /\ \A j \in 1..Len(b) : s[(Len(a) + 3) + j] = b[j]
    BY <2>0, BlockIs
  <2>3. SubSeq(s, i, i + 2) = Block
    <3>1. SubSeq(s, i, i + 2) \in Seq(AllLines) /\ Len(SubSeq(s, i, i + 2)) = 3
      BY <2>1
    <3>2. \A j \in 1..3 : SubSeq(s, i, i + 2)[j] = s[Len(a) + j]
      BY <2>1
    <3> QED BY <3>1, <3>2, <2>2, BlockIs
  <2>4. ASSUME NEW j \in 1..Len(s), s[j] \in Range(Block) PROVE j \in i..(i + 2)
    <3>1. ~(j <= Len(a))
      BY <1>2, <2>1, <2>2, <2>4, BlockIs DEF Without
    <3>2. ~(j > Len(a) + 3)
      <4> SUFFICES ASSUME j > Len(a) + 3 PROVE FALSE
        OBVIOUS
      <4>1. j - (Len(a) + 3) \in 1..Len(b) /\ (Len(a) + 3) + (j - (Len(a) + 3)) = j
        BY <2>1
      <4>2. s[j] = b[j - (Len(a) + 3)]
        BY <2>2, <4>1
      <4> QED BY <1>2, <4>1, <4>2, <2>4, BlockIs DEF Without
    <3> QED BY <2>1, <3>1, <3>2
  <2> HIDE DEF i
  <2> QED BY <2>1, <2>3, <2>4
<1>3. (\A i \in 1..Len(s) : s[i] \notin Range(Block)) <=> Without(s)
  BY BlockIs DEF Without
<1> QED BY <1>1, <1>2, <1>3 DEF Sound

-----------------------------------------------------------------------------
\* A hook that is sound, cut open around its block.
LEMMA WholeBlock ==
  ASSUME NEW a \in Seq(AllLines), NEW b \in Seq(AllLines), Without(a), Without(b),
         NEW s, s = (a \o Block) \o b
  PROVE  /\ s \in Seq(AllLines)
         /\ At(s, HookBegin) = Len(a) + 1 /\ At(s, HookEnd) = Len(a) + 3
         /\ Upto(s, At(s, HookBegin) - 1) = a
         /\ From(s, At(s, HookEnd) + 1) = b
         /\ Users(s) = Users(a) \o Users(b)
<1>1. a \in Seq(AllLines) /\ b \in Seq(AllLines) /\ Block \in Seq(AllLines)
  BY BlockIs
<1>2. /\ s \in Seq(AllLines) /\ Len(s) = Len(a) + Len(Block) + Len(b)
      /\ \A j \in 1..Len(a) : s[j] = a[j]
      /\ \A j \in 1..Len(Block) : s[Len(a) + j] = Block[j]
      /\ \A j \in 1..Len(b) : s[(Len(a) + Len(Block)) + j] = b[j]
  <2>1. s = (a \o Block) \o b
    OBVIOUS
  <2> QED BY ONLY <1>1, <2>1, Joined
<1>3. /\ Len(s) = Len(a) + 3 + Len(b) /\ Len(a) \in Nat /\ Len(b) \in Nat
      /\ s[Len(a) + 1] = HookBegin /\ s[Len(a) + 2] = Body /\ s[Len(a) + 3] = HookEnd
      /\ \A j \in 1..Len(b) : s[(Len(a) + 3) + j] = b[j]
  BY <1>2, BlockIs
<1>4. ASSUME NEW j \in 1..Len(s), s[j] \in BlockLines
      PROVE  j \in {Len(a) + 1, Len(a) + 2, Len(a) + 3}
  <2>1. ~(j <= Len(a))
    BY <1>2, <1>3, <1>4 DEF Without
  <2>2. ~(j > Len(a) + 3)
    <3> SUFFICES ASSUME j > Len(a) + 3 PROVE FALSE
      OBVIOUS
    <3> DEFINE k == j - (Len(a) + 3)
    <3>1. k \in 1..Len(b) /\ (Len(a) + 3) + k = j
      BY <1>3
    <3> HIDE DEF k
    <3>2. s[j] = b[k]
      BY <1>3, <3>1
    <3> QED BY <1>4, <3>1, <3>2 DEF Without
  <2> QED BY <1>3, <2>1, <2>2
<1>5. HookBegin # Body /\ HookBegin # HookEnd /\ Body # HookEnd
  BY HooksAssumption
<1>6. {j \in 1..Len(s) : s[j] = HookBegin} = {Len(a) + 1}
  <2>1. ASSUME NEW j \in 1..Len(s), s[j] = HookBegin PROVE j = Len(a) + 1
    BY <1>3, <1>4, <1>5, <2>1 DEF BlockLines
  <2>2. Len(a) + 1 \in 1..Len(s)
    BY <1>3
  <2> QED BY <1>3, <2>1, <2>2
<1>7. {j \in 1..Len(s) : s[j] = HookEnd} = {Len(a) + 3}
  <2>1. ASSUME NEW j \in 1..Len(s), s[j] = HookEnd PROVE j = Len(a) + 3
    BY <1>3, <1>4, <1>5, <2>1 DEF BlockLines
  <2>2. Len(a) + 3 \in 1..Len(s)
    BY <1>3
  <2> QED BY <1>3, <2>1, <2>2
<1>8. \A x \in Nat : Min({x}) = x
  BY DEF Min
<1>9. At(s, HookBegin) = Len(a) + 1
  <2>1. At(s, HookBegin) = IF {j \in 1..Len(s) : s[j] = HookBegin} # {}
                           THEN Min({j \in 1..Len(s) : s[j] = HookBegin}) ELSE 0
    BY DEF At, SelectInSeq
  <2>2. Len(a) + 1 \in Nat
    BY <1>3
  <2>3. Min({Len(a) + 1}) = Len(a) + 1
    BY <1>8, <2>2
  <2>4. At(s, HookBegin) = Min({Len(a) + 1})
    BY ONLY <2>1, <1>6
  <2> QED BY <2>3, <2>4
<1>10. At(s, HookEnd) = Len(a) + 3
  <2>1. At(s, HookEnd) = IF {j \in 1..Len(s) : s[j] = HookEnd} # {}
                           THEN Min({j \in 1..Len(s) : s[j] = HookEnd}) ELSE 0
    BY DEF At, SelectInSeq
  <2>2. Len(a) + 3 \in Nat
    BY <1>3
  <2>3. Min({Len(a) + 3}) = Len(a) + 3
    BY <1>8, <2>2
  <2>4. At(s, HookEnd) = Min({Len(a) + 3})
    BY ONLY <2>1, <1>7
  <2> QED BY <2>3, <2>4
<1>11. Upto(s, At(s, HookBegin) - 1) = a
  <2>1. At(s, HookBegin) - 1 = Len(a)
    BY <1>3, <1>9
  <2>2. SubSeq(s, 1, Len(a)) \in Seq(AllLines) /\ Len(SubSeq(s, 1, Len(a))) = Len(a)
        /\ \A j \in 1..Len(a) : SubSeq(s, 1, Len(a))[j] = s[j]
    BY <1>2, <1>3
  <2> QED BY <1>2, <2>1, <2>2 DEF Upto
<1>12. From(s, At(s, HookEnd) + 1) = b
  <2> DEFINE n == Len(a) + 4
             u == SubSeq(s, n, Len(s))
  <2>1. At(s, HookEnd) + 1 = n
    BY <1>3, <1>10
  <2>2. n \in Nat /\ n >= 1 /\ Len(s) \in Nat /\ Len(s) - n + 1 = Len(b)
    BY <1>3
  <2>3. u \in Seq(AllLines) /\ Len(u) = Len(b)
    BY <1>2, <2>2
  <2>4. ASSUME NEW j \in 1..Len(b) PROVE u[j] = b[j]
    <3>1. u[j] = s[(n + j) - 1]
      BY <1>2, <2>2
    <3>2. (n + j) - 1 = (Len(a) + 3) + j
      BY <1>3
    <3> QED BY <1>3, <3>1, <3>2
  <2> HIDE DEF u, n
  <2>5. u = b
    BY <2>3, <2>4
  <2> QED BY <2>1, <2>5 DEF From, u
<1>13. Users(s) = Users(a) \o Users(b)
  <2>1. a \o Block \in Seq(AllLines) /\ s = (a \o Block) \o b
    BY <1>1, ConcatProperties
  <2>2. Users(s) = Users(a \o Block) \o Users(b) /\ Users(a \o Block) = Users(a) \o <<>>
    BY <1>1, <2>1, UsersConcat, UsersOfBlock
  <2>3. Users(a) \o <<>> = Users(a)
    BY UsersAreLines
  <2> QED BY <2>2, <2>3
<1> QED BY <1>2, <1>9, <1>10, <1>11, <1>12, <1>13

-----------------------------------------------------------------------------
LEMMA HooksAreApart ==
  /\ {Shebang, HookBegin, Body, HookEnd} \subseteq AllLines \ UserLines
  /\ Shebang \notin BlockLines /\ HookBegin \in BlockLines /\ UserLines \cap BlockLines = {}
  /\ NoHook \notin Seq(AllLines)
BY HooksAssumption DEF AllLines, BlockLines

LEMMA NoLines == <<>> \in Seq(AllLines) /\ Without(<<>>) /\ Without(<<Shebang>>) /\ <<Shebang>> \in Seq(AllLines)
BY HooksAreApart DEF Without

LEMMA BlockAtTheEnd ==
  ASSUME NEW s \in Seq(AllLines), Without(s)
  PROVE  s \o Block \in Seq(AllLines) /\ Sound(s \o Block)
<1>1. s \o Block \in Seq(AllLines)
  BY BlockIs, ConcatProperties
<1>2. s \o Block = (s \o Block) \o <<>>
  BY <1>1, ConcatEmptySeq
<1>3. \E a, b \in Seq(AllLines) : s \o Block = (a \o Block) \o b /\ Without(a) /\ Without(b)
  <2> DEFINE w == s \o Block
  <2>1. w = (s \o Block) \o <<>>
    BY <1>2
  <2> HIDE DEF w
  <2> QED BY <2>1, NoLines DEF w
<1> QED BY <1>1, <1>3, SoundIs

LEMMA HasIs ==
  ASSUME NEW s \in Seq(AllLines), NEW l
  PROVE  Has(s, l) <=> \E i \in 1..Len(s) : s[i] = l
<1> DEFINE I == {i \in 1..Len(s) : s[i] = l}
<1>1. At(s, l) = IF I # {} THEN Min(I) ELSE 0
  BY DEF At, SelectInSeq
<1>2. ASSUME I # {} PROVE Min(I) \in I
  <2>1. I \subseteq Nat
    OBVIOUS
  <2>2. PICK m \in I : \A n \in I : m <= n
    BY <1>2, <2>1, LeastNumber
  <2> HIDE DEF I
  <2> QED BY <2>2 DEF Min
<1>3. 0 \notin I
  OBVIOUS
<1> QED
  <2>1. Has(s, l) <=> I # {}
    <3> HIDE DEF I
    <3> QED BY <1>1, <1>2, <1>3 DEF Has
  <2> QED BY <2>1

\* install_hook leaves a sound hook sound, and the user's lines.
LEMMA InstallKeeps ==
  ASSUME NEW s \in Seq(AllLines), Sound(s)
  PROVE  Installed(s) \in Seq(AllLines) /\ Sound(Installed(s)) /\ Users(Installed(s)) = Users(s)
<1>1. CASE Without(s)
  <2>1. ~Has(s, HookBegin) /\ s # NoHook
    BY <1>1, HasIs, HooksAreApart DEF Without
  <2>2. Installed(s) = s \o Block
    BY <2>1 DEF Installed
  <2>3. s \o Block \in Seq(AllLines) /\ Sound(s \o Block)
    BY <1>1, BlockAtTheEnd
  <2>5. Users(s \o Block) = Users(s) \o <<>> /\ Users(s) \o <<>> = Users(s)
    <3>1. Users(s) \in Seq(UserLines)
      BY UsersAreLines
    <3>2. Users(s) \o <<>> = Users(s)
      BY <3>1, ConcatEmptySeq
    <3>3. Users(s \o Block) = Users(s) \o Users(Block)
      BY BlockIs, UsersConcat
    <3> QED BY <3>2, <3>3, UsersOfBlock
  <2> QED BY <2>2, <2>3, <2>5
<1>2. ASSUME NEW a \in Seq(AllLines), NEW b \in Seq(AllLines), s = (a \o Block) \o b,
             Without(a), Without(b)
      PROVE  Installed(s) = s
  <2>1. /\ At(s, HookBegin) = Len(a) + 1 /\ At(s, HookEnd) = Len(a) + 3
        /\ Upto(s, At(s, HookBegin) - 1) = a /\ From(s, At(s, HookEnd) + 1) = b
    BY <1>2, WholeBlock
  <2>2. Has(s, HookBegin) /\ Has(s, HookEnd) /\ s # NoHook
    BY <2>1, HooksAreApart DEF Has
  <2> QED BY <1>2, <2>1, <2>2 DEF Installed, Replaced
<1> QED BY <1>1, <1>2, SoundIs

\* remove_hook as well.
LEMMA UninstallKeeps ==
  ASSUME NEW s \in Seq(AllLines), Sound(s)
  PROVE  \/ Uninstalled(s) = NoHook /\ Users(s) = <<>>
         \/ /\ Uninstalled(s) \in Seq(AllLines) /\ Sound(Uninstalled(s))
            /\ Users(Uninstalled(s)) = Users(s)
<1>1. s # NoHook
  BY HooksAreApart
<1>2. CASE Without(s)
  <2>1. ~Has(s, HookBegin)
    BY <1>2, HasIs, HooksAreApart DEF Without
  <2> QED BY <1>1, <2>1 DEF Uninstalled
<1>3. ASSUME NEW a \in Seq(AllLines), NEW b \in Seq(AllLines), s = (a \o Block) \o b,
             Without(a), Without(b)
      PROVE  \/ Uninstalled(s) = NoHook /\ Users(s) = <<>>
             \/ /\ Uninstalled(s) \in Seq(AllLines) /\ Sound(Uninstalled(s))
                /\ Users(Uninstalled(s)) = Users(s)
  <2>1. /\ At(s, HookBegin) = Len(a) + 1 /\ At(s, HookEnd) = Len(a) + 3
        /\ Upto(s, At(s, HookBegin) - 1) = a /\ From(s, At(s, HookEnd) + 1) = b
        /\ Users(s) = Users(a) \o Users(b)
    BY <1>3, WholeBlock
  <2>2. Has(s, HookBegin) /\ Has(s, HookEnd)
    BY <2>1 DEF Has
  <2>3. Removed(s) = a \o b
    BY <2>1, <2>2 DEF Removed
  <2>4. a \o b \in Seq(AllLines) /\ Users(a \o b) = Users(s)
    BY <2>1, UsersConcat
  <2>5. Without(a \o b)
    <3>1. /\ Len(a \o b) = Len(a) + Len(b)
          /\ \A i \in 1..Len(a) + Len(b) : (a \o b)[i] = IF i <= Len(a) THEN a[i] ELSE b[i - Len(a)]
      BY ConcatProperties
    <3>2. Len(a) \in Nat /\ Len(b) \in Nat
      OBVIOUS
    <3>3. ASSUME NEW i \in 1..Len(a \o b) PROVE (a \o b)[i] \notin BlockLines
      <4>1. CASE i <= Len(a)
        BY <1>3, <3>1, <3>2, <4>1 DEF Without
      <4>2. CASE ~(i <= Len(a))
        <5>1. i - Len(a) \in 1..Len(b) /\ (a \o b)[i] = b[i - Len(a)]
          BY <3>1, <3>2, <4>2
        <5> QED BY <1>3, <5>1 DEF Without
      <4> QED BY <4>1, <4>2
    <3> QED BY <3>3 DEF Without
  <2>6. Sound(a \o b)
    BY <2>4, <2>5, SoundIs
  <2>7. CASE a \o b \in {<<>>, <<Shebang>>}
    <3>1. Users(s) = <<>>
      BY <2>4, <2>7, UsersOfNone, UsersOfOne, HooksAreApart
    <3> QED BY <1>1, <2>2, <2>3, <2>7, <3>1 DEF Uninstalled
  <2>8. CASE a \o b \notin {<<>>, <<Shebang>>}
    <3>1. Uninstalled(s) = a \o b
      BY <1>1, <2>2, <2>3, <2>8 DEF Uninstalled
    <3> QED BY <2>4, <2>6, <3>1
  <2> QED BY <2>7, <2>8
<1> QED BY <1>2, <1>3, SoundIs

\* Lines are those that anybody writes.
HookInv ==
    /\ hook = NoHook \/ hook \in Seq(AllLines)
    /\ UserLinesKept

LEMMA TakenLines ==
  ASSUME NEW s \in Seq(AllLines), NEW i \in Int, NEW j \in Int, i >= 1, j <= Len(s)
  PROVE  SubSeq(s, i, j) \in Seq(AllLines)
<1>1. \A k \in i..j : s[k] \in AllLines
  OBVIOUS
<1> QED BY <1>1, SubSeqProperties

LEMMA LinesAre ==
  ASSUME hook = NoHook \/ hook \in Seq(AllLines)
  PROVE  Lines \in Seq(AllLines) /\ (hook # NoHook => Lines = hook)
BY NoLines DEF Lines

\* Whatever state the hook is in, what myc writes are lines.
LEMMA WrittenAreLines ==
  ASSUME NEW s \in Seq(AllLines)
  PROVE  Installed(s) \in Seq(AllLines) /\ (Uninstalled(s) = NoHook \/ Uninstalled(s) \in Seq(AllLines))
<1>1. ASSUME NEW l, Has(s, l) PROVE At(s, l) \in 1..Len(s)
  <2> DEFINE I == {i \in 1..Len(s) : s[i] = l}
  <2>1. At(s, l) = IF I # {} THEN Min(I) ELSE 0
    BY DEF At, SelectInSeq
  <2>2. ASSUME I # {} PROVE Min(I) \in I
    <3>1. I \subseteq Nat
      OBVIOUS
    <3>2. PICK m \in I : \A n \in I : m <= n
      BY <2>2, <3>1, LeastNumber
    <3> HIDE DEF I
    <3> QED BY <3>2 DEF Min
  <2>3. I \subseteq 1..Len(s)
    OBVIOUS
  <2> HIDE DEF I
  <2> QED BY <1>1, <2>1, <2>2, <2>3 DEF Has
<1>2. Len(s) \in Nat
  OBVIOUS
<1>3. ASSUME Has(s, HookBegin) PROVE Upto(s, At(s, HookBegin) - 1) \in Seq(AllLines)
  <2>1. At(s, HookBegin) \in 1..Len(s)
    BY <1>1, <1>3
  <2>2. At(s, HookBegin) - 1 \in Int /\ 1 \in Int /\ 1 >= 1 /\ At(s, HookBegin) - 1 <= Len(s)
    BY <1>2, <2>1
  <2> QED BY <2>2, TakenLines DEF Upto
<1>4. ASSUME Has(s, HookEnd) PROVE From(s, At(s, HookEnd) + 1) \in Seq(AllLines)
  <2>1. At(s, HookEnd) \in 1..Len(s)
    BY <1>1, <1>4
  <2>2. At(s, HookEnd) + 1 \in Int /\ Len(s) \in Int /\ At(s, HookEnd) + 1 >= 1 /\ Len(s) <= Len(s)
    BY <1>2, <2>1
  <2> QED BY <2>2, TakenLines DEF From
<1>5. Block \in Seq(AllLines) /\ <<Shebang>> \in Seq(AllLines)
  BY BlockIs, NoLines
<1>6. \A x, y \in Seq(AllLines) : x \o y \in Seq(AllLines)
  BY ConcatProperties
<1>7. Has(s, HookBegin) => Replaced(s) \in Seq(AllLines) /\ Removed(s) \in Seq(AllLines)
  BY <1>3, <1>4, <1>5, <1>6 DEF Replaced, Removed
<1> QED BY <1>5, <1>6, <1>7 DEF Installed, Uninstalled

LEMMA HookInvInit == HookInit => HookInv
  BY NoLines, UsersOfNone, SoundIs DEF HookInit, HookInv, UserLinesKept, Lines

LEMMA HookStep == HookInv /\ [HookNext]_hookVars => HookInv'
<1> SUFFICES ASSUME HookInv, [HookNext]_hookVars PROVE HookInv'
  OBVIOUS
<1>1. /\ hook = NoHook \/ hook \in Seq(AllLines)
      /\ Lines \in Seq(AllLines) /\ (hook # NoHook => Lines = hook) /\ (hook = NoHook => Lines = <<>>)
  BY LinesAre DEF HookInv, Lines
<1>2. ~damaged => Users(Lines) = own /\ Sound(Lines)
  BY DEF HookInv, UserLinesKept
<1>3. CASE Install
  <2>1. CASE hook = NoHook
    <3>1. hook' = <<Shebang>> \o Block /\ hook' \in Seq(AllLines)
      BY <1>3, <2>1, NoLines, BlockIs, ConcatProperties DEF Install, Installed
    <3>2. Lines' = <<Shebang>> \o Block
      BY <3>1, HooksAreApart DEF Lines
    <3>4. Sound(<<Shebang>> \o Block)
      BY NoLines, BlockAtTheEnd
    <3>5. Users(<<Shebang>> \o Block) = <<>> \o <<>> /\ <<>> \o <<>> = <<>>
      <4>1. Users(<<Shebang>> \o Block) = Users(<<Shebang>>) \o Users(Block)
        BY NoLines, BlockIs, UsersConcat
      <4>2. Users(<<Shebang>>) = <<>>
        BY UsersOfOne, HooksAreApart
      <4> QED BY <4>1, <4>2, UsersOfBlock
    <3>6. ~damaged' => own' = <<>>
      BY <1>1, <1>2, <1>3, <2>1, UsersOfNone DEF Install
    <3> QED BY <3>1, <3>2, <3>4, <3>5, <3>6 DEF HookInv, UserLinesKept
  <2>2. CASE hook # NoHook
    <3>1. hook' = Installed(hook) /\ hook' \in Seq(AllLines) /\ Lines = hook
      BY <1>1, <1>3, <2>2, WrittenAreLines DEF Install
    <3>2. Lines' = hook'
      BY <3>1, HooksAreApart DEF Lines
    <3>3. ~damaged' => Users(Lines') = own' /\ Sound(Lines')
      BY <1>1, <1>2, <1>3, <2>2, <3>1, <3>2, InstallKeeps DEF Install
    <3> QED BY <3>1, <3>2, <3>3 DEF HookInv, UserLinesKept
  <2> QED BY <2>1, <2>2
<1>4. CASE Uninstall
  <2>1. CASE hook = NoHook
    <3>1. hook' = hook /\ UNCHANGED <<own, damaged>>
      BY <1>4, <2>1 DEF Uninstall, Uninstalled
    <3>2. Lines' = Lines
      BY <3>1 DEF Lines
    <3> QED BY <1>1, <1>2, <3>1, <3>2 DEF HookInv, UserLinesKept
  <2>2. CASE hook # NoHook
    <3>1. hook' = Uninstalled(hook) /\ Lines = hook /\ UNCHANGED <<own, damaged>>
          /\ (hook' = NoHook \/ hook' \in Seq(AllLines))
      BY <1>1, <1>4, <2>2, WrittenAreLines DEF Uninstall
    <3>2. CASE hook' = NoHook
      <4>1. Lines' = <<>>
        BY <3>2 DEF Lines
      <4>2. Sound(<<>>)
        BY NoLines, SoundIs
      <4>3. ~damaged => Users(hook) = <<>>
        BY <1>1, <1>2, <2>2, <3>1, <3>2, UninstallKeeps, HooksAreApart
      <4> QED BY <1>2, <3>1, <3>2, <4>1, <4>2, <4>3, UsersOfNone DEF HookInv, UserLinesKept
    <3>3. CASE hook' # NoHook
      <4>1. Lines' = hook'
        BY <3>3 DEF Lines
      <4>2. ~damaged => Sound(hook') /\ Users(hook') = Users(hook)
        BY <1>1, <1>2, <2>2, <3>1, <3>3, UninstallKeeps
      <4> QED BY <1>2, <3>1, <3>3, <4>1, <4>2 DEF HookInv, UserLinesKept
    <3> QED BY <3>2, <3>3
  <2> QED BY <2>1, <2>2
<1>5. CASE WriteCut
  BY <1>5, NoLines DEF WriteCut, HookInv, UserLinesKept
<1>6. ASSUME NEW s \in Seq(AllLines), UserEdit(s) PROVE HookInv'
  <2>1. hook' = s /\ own' = Users(s) /\ damaged' = ~Sound(s)
    BY <1>6 DEF UserEdit
  <2>2. Lines' = s
    BY <2>1, HooksAreApart DEF Lines
  <2> QED BY <2>1, <2>2 DEF HookInv, UserLinesKept
<1>7. ASSUME NEW i \in 1..(MaxLines + 1), NEW l \in UserLines \cup {Shebang, HookBegin, HookEnd},
             UserInserts(i, l)
      PROVE  HookInv'
  <2>1. i \in Int /\ i >= 1 /\ i <= Len(Lines) + 1 /\ Len(Lines) \in Nat /\ l \in AllLines
        /\ UserEdit(InsertAt(Lines, i, l))
    BY <1>1, <1>7 DEF UserInserts, AllLines
  <2>2. SubSeq(Lines, 1, i - 1) \in Seq(AllLines) /\ SubSeq(Lines, i, Len(Lines)) \in Seq(AllLines)
    <3>1. i - 1 \in Int /\ 1 \in Int /\ 1 >= 1 /\ i - 1 <= Len(Lines) /\ Len(Lines) \in Int
          /\ Len(Lines) <= Len(Lines)
      BY <2>1
    <3> QED BY <1>1, <2>1, <3>1, TakenLines
  <2>3. InsertAt(Lines, i, l) \in Seq(AllLines)
    <3>1. <<l>> \in Seq(AllLines)
      BY <2>1
    <3> QED BY <2>2, <3>1, ConcatProperties DEF InsertAt
  <2> QED BY <1>6, <2>1, <2>3
<1>8. ASSUME NEW i \in 1..MaxLines, UserDeletes(i) PROVE HookInv'
  <2>1. i \in Int /\ i >= 1 /\ i <= Len(Lines) /\ Len(Lines) \in Nat /\ UserEdit(RemoveAt(Lines, i))
    BY <1>1, <1>8 DEF UserDeletes
  <2>2. SubSeq(Lines, 1, i - 1) \in Seq(AllLines) /\ SubSeq(Lines, i + 1, Len(Lines)) \in Seq(AllLines)
    <3>1. i - 1 \in Int /\ 1 \in Int /\ 1 >= 1 /\ i - 1 <= Len(Lines) /\ Len(Lines) \in Int
          /\ Len(Lines) <= Len(Lines) /\ i + 1 \in Int /\ i + 1 >= 1
      BY <2>1
    <3> QED BY <1>1, <2>1, <3>1, TakenLines
  <2>3. RemoveAt(Lines, i) \in Seq(AllLines)
    BY <2>2, ConcatProperties DEF RemoveAt
  <2> QED BY <1>6, <2>1, <2>3
<1>9. CASE UNCHANGED hookVars
  BY <1>9 DEF hookVars, HookInv, UserLinesKept, Lines
<1> QED BY <1>3, <1>4, <1>5, <1>7, <1>8, <1>9 DEF HookNext

\* Install, uninstall and edit in whatever order: the hook holds the lines of its user, and the
\* block of myc at most once and whole, unless the user took it apart.
THEOREM HookKeepsLines == HookSpec => []UserLinesKept
<1>1. HookInv => UserLinesKept
  BY DEF HookInv
<1> QED BY HookInvInit, HookStep, <1>1, PTL DEF HookSpec

\* Whatever commands, editors and the user do to the files they share, nothing goes but for
\* the causes that are named (setup, config, hook install and uninstall).
THEOREM FilesKeepTheirLinesAlways == DocSpec /\ HookSpec => []FilesKeepTheirLines
<1>1. DocumentIsLedger /\ UserLinesKept => FilesKeepTheirLines
  BY DEF FilesKeepTheirLines
<1> QED BY <1>1, DocumentIsLedgerAlways, HookKeepsLines, PTL
=============================================================================
