------------------------ MODULE AnalysisCache_proofs ------------------------
(***************************************************************************)
(* Proofs about what is answered without analysing anything.  First about  *)
(* AnalysisCache: what a reused index holds.  Each promise rests on one    *)
(* fact that relates the entry to the index while nothing that `causes`    *)
(* names has happened since the entry was written:                         *)
(*   - the git check: the index is the content the entry records;          *)
(*   - the mtime check: a file the index has another version of was        *)
(*     touched, or was written while the clock was behind the entry, which *)
(*     it then still is;                                                   *)
(*   - the geometry check: vectors of an earlier geometry are there only   *)
(*     under an entry of that geometry, or under none.                     *)
(* Then about the tools: what they answer of calls, of dependencies, of    *)
(* communities and of diffs holds for every graph, every partition and     *)
(* every diff.                                                             *)
(***************************************************************************)
EXTENDS AnalysisCache, DependencyTools, ImpactTools, FiniteSetTheorems, WellFoundedInduction, TLAPS

Running == pc \in {"discover", "read", "store", "register"}

OldHasOldEntry ==
    /\ Running => old = {}
    /\ entry # NoEntry /\ entry.geometry => old = {}

TypeInv == TypeOK /\ OldHasOldEntry

LEMMA CountedFiles ==
    ASSUME NEW S, S \subseteq Files
    PROVE  Cardinality(S) \in 0..Cardinality(Files)
<1>1. IsFiniteSet(Files)
  BY CacheAssumption
<1>2. IsFiniteSet(S) /\ Cardinality(S) <= Cardinality(Files)
  BY <1>1, FS_Subset
<1>3. Cardinality(S) \in Nat /\ Cardinality(Files) \in Nat
  BY <1>1, <1>2, FS_CardinalityType
<1> QED BY <1>2, <1>3

LEMMA TypeInit == Init => TypeInv
<1> SUFFICES ASSUME Init PROVE TypeInv
  OBVIOUS
<1>1. tree \in Tree /\ head \in Tree \cup {NoCommit}
  BY CacheAssumption DEF Init
<1>2. Blank \in Tree
  BY DEF Blank, Tree
<1>3. TypeOK
  BY <1>1, <1>2, CacheAssumption DEF Init, TypeOK
<1>4. OldHasOldEntry
  BY DEF Init, OldHasOldEntry, Running
<1> QED BY <1>3, <1>4 DEF TypeInv

LEMMA TypeNext == TypeInv /\ [Next]_vars => TypeInv'
<1> SUFFICES ASSUME TypeInv, [Next]_vars PROVE TypeInv'
  OBVIOUS
<1> USE CacheAssumption DEF TypeInv, TypeOK, OldHasOldEntry, Running, Change, Cause
<1>0. Blank \in Tree
  BY DEF Blank, Tree
<1>1. ASSUME NEW f \in Files, NEW c \in Contents, NEW keeps \in BOOLEAN, Edit(f, c, keeps)
      PROVE  TypeInv'
  BY <1>1 DEF Edit, Tree, run
<1>2. ASSUME NEW f \in Files, Delete(f) PROVE TypeInv'
  BY <1>2 DEF Delete, Tree, run
<1>3. ASSUME NEW f \in Files, ReadFile(f) PROVE TypeInv'
  BY <1>3 DEF ReadFile, Tree, env, entryVars
<1>4. ASSUME NEW S \in SUBSET Files, Commit(S) PROVE TypeInv'
  <2>1. head' \in Tree
    BY <1>0, <1>4 DEF Commit, Tree
  <2> QED BY <1>4, <2>1 DEF Commit, entryVars, run
<1>5. ASSUME NEW c \in Tree, Checkout(c) PROVE TypeInv'
  BY <1>5 DEF Checkout, run, Present
<1>6. CASE Forget
  BY <1>6 DEF Forget, env, run
<1>7. CASE Tick
  BY <1>7 DEF Tick, env, run
<1>8. CASE SetBack
  BY <1>8 DEF SetBack, env, run
<1>9. CASE Upgrade
  BY <1>9 DEF Upgrade, env, run, Present
<1>10. ASSUME NEW force \in BOOLEAN, Start(force) PROVE TypeInv'
  BY <1>10 DEF Start, env, entryVars
<1>11. CASE Wipe
  BY <1>0, <1>11 DEF Wipe, env, entryVars
<1>12. CASE Discover
  BY <1>12 DEF Discover, env, entryVars, Present
<1>13. CASE Store
  BY <1>13 DEF Store, env, entryVars
<1>14. CASE Register
  <2>1. Cardinality(Present(read)) \in 0..Cardinality(Files)
    BY CountedFiles DEF Present
  <2> QED BY <1>0, <1>14, <2>1 DEF Register, env, Gaps
<1>15. CASE Interrupt
  <2>1. index' \in Tree
    BY <1>15 DEF Interrupt, Tree
  <2>2. old' \subseteq {f \in Files : index'[f] # NoFile}
    BY <1>15 DEF Interrupt
  <2> QED BY <1>0, <1>15, <2>1, <2>2 DEF Interrupt, env, entryVars
<1>16. ASSUME NEW f \in Files, NEW completes \in BOOLEAN, Watch(f, completes)
       PROVE  TypeInv'
  BY <1>16 DEF Watch, env, entryVars, run, Tree
<1>17. CASE UNCHANGED vars
  BY <1>17 DEF vars, env, entryVars, run
<1> QED BY <1>1, <1>2, <1>3, <1>4, <1>5, <1>6, <1>7, <1>8, <1>9, <1>10, <1>11, <1>12,
           <1>13, <1>14, <1>15, <1>16, <1>17 DEF Next

(* Every value has its type, and an index only holds vectors of an earlier  *)
(* geometry of files it holds. *)
THEOREM TypeCorrect == Spec => []TypeOK
<1>1. Spec => []TypeInv
  BY TypeInit, TypeNext, PTL DEF Spec
<1>2. TypeInv => TypeOK
  BY DEF TypeInv
<1> QED BY <1>1, <1>2, PTL

(* VECTOR_GEOMETRY_VERSION: whatever runs were cut and whatever a watcher of *)
(* the new release re-indexed, a reused index has the geometry of the code. *)
THEOREM ReuseHasOneGeometryAlways == Spec => []ReuseHasOneGeometry
<1>1. Spec => []TypeInv
  BY TypeInit, TypeNext, PTL DEF Spec
<1>2. TypeInv => ReuseHasOneGeometry
  BY DEF TypeInv, OldHasOldEntry, ReuseHasOneGeometry, Reusable
<1> QED BY <1>1, <1>2, PTL

-----------------------------------------------------------------------------
(* The git check.  A run that is under way has blanked the index, and one   *)
(* about to register has stored what it read; otherwise the index is the    *)
(* content the entry records. *)

LeftAlone(S) == causes \cap S = {}

CutInv ==
    /\ Running => "interrupted" \in causes
    /\ pc = "register" => index = read

GitInv ==
    entry # NoEntry /\ entry.commit # NoCommit
    /\ LeftAlone({"interrupted", "dropped", "uncommitted", "watched"})
    => index = entry.commit

LEMMA CutInit == Init => CutInv
BY DEF Init, CutInv, Running

LEMMA CutNext == CutInv /\ [Next]_vars => CutInv'
<1> SUFFICES ASSUME CutInv, [Next]_vars PROVE CutInv'
  OBVIOUS
<1> USE DEF CutInv, Running
<1>1. CASE UNCHANGED run /\ UNCHANGED index /\ causes \subseteq causes'
  BY <1>1 DEF run
<1>2. ASSUME NEW f \in Files, ReadFile(f) PROVE CutInv'
  BY <1>2 DEF ReadFile
<1>3. ASSUME NEW force \in BOOLEAN, Start(force) PROVE CutInv'
  BY <1>3 DEF Start
<1>4. CASE Wipe
  BY <1>4 DEF Wipe
<1>5. CASE Discover
  BY <1>5 DEF Discover
<1>6. CASE Store
  BY <1>6 DEF Store
<1>7. CASE Register
  BY <1>7 DEF Register
<1>8. CASE Interrupt
  BY <1>8 DEF Interrupt
<1>9. ASSUME NEW f \in Files, NEW completes \in BOOLEAN, Watch(f, completes)
      PROVE  CutInv'
  BY <1>9 DEF Watch, run
<1>10. \/ UNCHANGED run /\ UNCHANGED index /\ causes \subseteq causes'
       \/ \E f \in Files : ReadFile(f)
       \/ \E force \in BOOLEAN : Start(force)
       \/ Wipe \/ Discover \/ Store \/ Register \/ Interrupt
       \/ \E f \in Files, completes \in BOOLEAN : Watch(f, completes)
  <2>1. ASSUME NEW f \in Files, NEW c \in Contents, NEW keeps \in BOOLEAN, Edit(f, c, keeps)
        PROVE  UNCHANGED run /\ UNCHANGED index /\ causes \subseteq causes'
    BY <2>1 DEF Edit
  <2>2. ASSUME NEW f \in Files, Delete(f)
        PROVE  UNCHANGED run /\ UNCHANGED index /\ causes \subseteq causes'
    BY <2>2 DEF Delete
  <2>3. ASSUME NEW S \in SUBSET Files, Commit(S)
        PROVE  UNCHANGED run /\ UNCHANGED index /\ causes \subseteq causes'
    BY <2>3 DEF Commit
  <2>4. ASSUME NEW c \in Tree, Checkout(c)
        PROVE  UNCHANGED run /\ UNCHANGED index /\ causes \subseteq causes'
    BY <2>4 DEF Checkout
  <2>5. Forget \/ SetBack \/ Upgrade
        => UNCHANGED run /\ UNCHANGED index /\ causes \subseteq causes'
    BY DEF Forget, SetBack, Upgrade
  <2>6. Tick => UNCHANGED run /\ UNCHANGED index /\ causes \subseteq causes'
    BY DEF Tick
  <2>7. UNCHANGED vars => UNCHANGED run /\ UNCHANGED index /\ causes \subseteq causes'
    BY DEF vars
  <2> QED BY <2>1, <2>2, <2>3, <2>4, <2>5, <2>6, <2>7 DEF Next
<1> QED BY <1>1, <1>2, <1>3, <1>4, <1>5, <1>6, <1>7, <1>8, <1>9, <1>10

LEMMA GitNext == TypeInv /\ CutInv /\ GitInv /\ [Next]_vars => GitInv'
<1> SUFFICES ASSUME TypeInv, CutInv, GitInv, [Next]_vars PROVE GitInv'
  OBVIOUS
<1> USE DEF CutInv, GitInv, LeftAlone
<1>1. CASE UNCHANGED <<entry, index>> /\ causes \subseteq causes'
  BY <1>1
<1>2. CASE Upgrade
  <2>1. entry'.commit = entry.commit
    BY <1>2 DEF Upgrade, TypeInv, TypeOK
  <2> QED BY <1>2, <2>1 DEF Upgrade
<1>3. CASE Wipe
  BY <1>3 DEF Wipe
<1>4. CASE Store
  BY <1>4 DEF Store, Running
<1>5. CASE Register
  BY <1>5 DEF Register, Gaps
<1>6. CASE Interrupt
  BY <1>6 DEF Interrupt, entryVars, Running
<1>7. ASSUME NEW f \in Files, NEW completes \in BOOLEAN, Watch(f, completes)
      PROVE  GitInv'
  BY <1>7 DEF Watch
<1>8. \/ UNCHANGED <<entry, index>> /\ causes \subseteq causes'
      \/ Upgrade \/ Wipe \/ Store \/ Register \/ Interrupt
      \/ \E f \in Files, completes \in BOOLEAN : Watch(f, completes)
  <2>1. ASSUME NEW f \in Files, NEW c \in Contents, NEW keeps \in BOOLEAN, Edit(f, c, keeps)
        PROVE  UNCHANGED <<entry, index>> /\ causes \subseteq causes'
    BY <2>1 DEF Edit
  <2>2. ASSUME NEW f \in Files, Delete(f) \/ ReadFile(f)
        PROVE  UNCHANGED <<entry, index>> /\ causes \subseteq causes'
    BY <2>2 DEF Delete, ReadFile, entryVars
  <2>3. ASSUME NEW S \in SUBSET Files, Commit(S)
        PROVE  UNCHANGED <<entry, index>> /\ causes \subseteq causes'
    BY <2>3 DEF Commit, entryVars
  <2>4. ASSUME NEW c \in Tree, Checkout(c)
        PROVE  UNCHANGED <<entry, index>> /\ causes \subseteq causes'
    BY <2>4 DEF Checkout
  <2>5. Forget \/ SetBack \/ Tick => UNCHANGED <<entry, index>> /\ causes \subseteq causes'
    BY DEF Forget, SetBack, Tick
  <2>6. ASSUME NEW force \in BOOLEAN, Start(force)
        PROVE  UNCHANGED <<entry, index>> /\ causes \subseteq causes'
    BY <2>6 DEF Start, entryVars
  <2>7. Discover \/ UNCHANGED vars => UNCHANGED <<entry, index>> /\ causes \subseteq causes'
    BY DEF Discover, vars, entryVars
  <2> QED BY <2>1, <2>2, <2>3, <2>4, <2>5, <2>6, <2>7 DEF Next
<1> QED BY <1>1, <1>2, <1>3, <1>4, <1>5, <1>6, <1>7, <1>8

LEMMA GitInit == Init => GitInv
BY DEF Init, GitInv

LEMMA GitInvIsClose == TypeInv /\ GitInv => GitReuseIsClose
<1> SUFFICES ASSUME TypeInv, GitInv, Reusable, ByGit,
                    LeftAlone({"interrupted", "dropped", "uncommitted", "watched"})
             PROVE  /\ Stale(head) \cap Structural = {}
                    /\ Cardinality(Stale(head)) <= MaxChanged
  BY DEF GitReuseIsClose, LeftAlone
<1>1. GitReuse
  BY DEF Reusable
<1>2. index = entry.commit
  BY DEF GitInv, Reusable, ByGit
<1>3. Stale(head) = Changed
  BY <1>2 DEF Stale, Changed
<1>4. CASE Changed = {}
  BY <1>3, <1>4, FS_EmptySet, CacheAssumption
<1>5. CASE Changed # {}
  BY <1>1, <1>3, <1>5 DEF GitReuse
<1> QED BY <1>4, <1>5

(* max_changed_files and STRUCTURAL_FILES: an index the git check reuses differs *)
(* from HEAD in few files, none structural, unless `causes` names why.       *)
THEOREM GitReuseIsCloseAlways == Spec => []GitReuseIsClose
<1>1. Init => TypeInv /\ CutInv /\ GitInv
  BY TypeInit, CutInit, GitInit
<1>2. TypeInv /\ CutInv /\ GitInv /\ [Next]_vars => (TypeInv /\ CutInv /\ GitInv)'
  BY TypeNext, CutNext, GitNext
<1> QED BY <1>1, <1>2, GitInvIsClose, PTL DEF Spec

-----------------------------------------------------------------------------
(* The mtime check.  *)

TouchInv ==
    /\ touched \subseteq Present(tree)
    /\ entry # NoEntry /\ LeftAlone({"interrupted", "dropped", "missed", "unseen"})
       => \A f \in Files : f \in touched \/ index[f] = tree[f] \/ "early" \in causes

\* A file was written before the entry's time only while the clock was behind it.
EarlyInv == "early" \in causes /\ "unseen" \notin causes => age < 0

LEMMA MtimeInit == Init => TouchInv /\ EarlyInv
BY DEF Init, TouchInv, EarlyInv

LEMMA EarlyNext == TypeInv /\ EarlyInv /\ [Next]_vars => EarlyInv'
<1> SUFFICES ASSUME TypeInv, EarlyInv, [Next]_vars PROVE EarlyInv'
  OBVIOUS
<1> USE DEF EarlyInv
<1>0. \A m \in Ages : m \in Int
  BY CacheAssumption
<1>1. ASSUME NEW f \in Files, NEW c \in Contents, NEW keeps \in BOOLEAN, Edit(f, c, keeps)
      PROVE  EarlyInv'
  BY <1>1 DEF Edit
<1>2. ASSUME NEW f \in Files, Delete(f) \/ ReadFile(f) PROVE EarlyInv'
  BY <1>2 DEF Delete, ReadFile, entryVars
<1>3. ASSUME NEW S \in SUBSET Files, Commit(S) PROVE EarlyInv'
  BY <1>3 DEF Commit, entryVars
<1>4. ASSUME NEW c \in Tree, Checkout(c) PROVE EarlyInv'
  BY <1>4 DEF Checkout
<1>5. CASE Forget \/ Upgrade
  BY <1>5 DEF Forget, Upgrade
<1>6. CASE Tick
  <2>1. age \in Int /\ age' \in Int
    BY <1>0, <1>6 DEF Tick, TypeInv, TypeOK
  <2>2. "early" \notin causes' \ causes
    BY <1>6 DEF Tick
  <2>3. "early" \in causes /\ age' >= 0 => "unseen" \in causes'
    BY <1>6 DEF Tick
  <2> QED BY <2>1, <2>2, <2>3
<1>7. CASE SetBack
  <2>1. age \in Int /\ age' \in Int /\ age' < age
    BY <1>0, <1>7 DEF SetBack, TypeInv, TypeOK
  <2> QED BY <1>7, <2>1 DEF SetBack
<1>8. ASSUME NEW force \in BOOLEAN, Start(force) PROVE EarlyInv'
  BY <1>8 DEF Start, entryVars
<1>9. CASE Wipe
  BY <1>9 DEF Wipe
<1>10. CASE Discover \/ Store \/ Interrupt
  BY <1>10 DEF Discover, Store, Interrupt, entryVars
<1>11. CASE Register
  BY <1>11 DEF Register, Gaps
<1>12. ASSUME NEW f \in Files, NEW completes \in BOOLEAN, Watch(f, completes)
       PROVE  EarlyInv'
  BY <1>12 DEF Watch, entryVars
<1>13. CASE UNCHANGED vars
  BY <1>13 DEF vars, entryVars
<1> QED BY <1>1, <1>2, <1>3, <1>4, <1>5, <1>6, <1>7, <1>8, <1>9, <1>10, <1>11, <1>12,
           <1>13 DEF Next

LEMMA TouchNext == TypeInv /\ CutInv /\ TouchInv /\ [Next]_vars => TouchInv'
<1> SUFFICES ASSUME TypeInv, CutInv, TouchInv, [Next]_vars PROVE TouchInv'
  OBVIOUS
<1> USE DEF TouchInv, LeftAlone, Present
<1>1. ASSUME NEW f \in Files, NEW c \in Contents, NEW keeps \in BOOLEAN, Edit(f, c, keeps)
      PROVE  TouchInv'
  <2>1. tree \in [Files -> Contents \cup {NoFile}] /\ c # NoFile
    BY CacheAssumption DEF TypeInv, TypeOK, Tree
  <2> QED BY <1>1, <2>1 DEF Edit
<1>2. ASSUME NEW f \in Files, Delete(f) PROVE TouchInv'
  <2>1. tree \in [Files -> Contents \cup {NoFile}]
    BY DEF TypeInv, TypeOK, Tree
  <2> QED BY <1>2, <2>1 DEF Delete
<1>3. ASSUME NEW f \in Files, ReadFile(f) PROVE TouchInv'
  BY <1>3 DEF ReadFile, env, entryVars
<1>4. ASSUME NEW S \in SUBSET Files, Commit(S) PROVE TouchInv'
  BY <1>4 DEF Commit, entryVars
<1>5. ASSUME NEW c \in Tree, Checkout(c) PROVE TouchInv'
  <2>1. \A f \in Files : c[f] # tree[f] => f \in touched' \/ c[f] = NoFile \/ "early" \in causes'
    BY <1>5 DEF Checkout
  <2>2. \A f \in Files : tree[f] # NoFile /\ c[f] = NoFile => "unseen" \in causes'
    BY <1>5 DEF Checkout
  <2>3. \A f \in Files : c[f] = tree[f] /\ f \in touched => f \in touched'
    BY <1>5 DEF Checkout
  <2>4. touched' \subseteq Present(c) /\ causes \subseteq causes'
    BY <1>5 DEF Checkout
  <2> QED BY <1>5, <2>1, <2>2, <2>3, <2>4 DEF Checkout
<1>6. CASE Forget
  BY <1>6 DEF Forget, env
<1>7. CASE Tick
  BY <1>7 DEF Tick, env
<1>8. CASE SetBack
  BY <1>8 DEF SetBack, env
<1>9. CASE Upgrade
  BY <1>9 DEF Upgrade, env
<1>10. ASSUME NEW force \in BOOLEAN, Start(force) PROVE TouchInv'
  BY <1>10 DEF Start, env, entryVars
<1>11. CASE Wipe
  BY <1>11 DEF Wipe, env, entryVars
<1>12. CASE Discover
  BY <1>12 DEF Discover, env, entryVars
<1>13. CASE Store
  BY <1>13 DEF Store, env, entryVars, CutInv, Running
<1>14. CASE Register
  BY <1>14 DEF Register, env, Gaps, CutInv
<1>15. CASE Interrupt
  BY <1>15 DEF Interrupt, env, entryVars, CutInv, Running
<1>16. ASSUME NEW f \in Files, NEW completes \in BOOLEAN, Watch(f, completes)
       PROVE  TouchInv'
  <2>1. index \in [Files -> Contents \cup {NoFile}]
    BY DEF TypeInv, TypeOK, Tree
  <2> QED BY <1>16, <2>1 DEF Watch, env, entryVars
<1>17. CASE UNCHANGED vars
  BY <1>17 DEF vars, env, entryVars
<1> QED BY <1>1, <1>2, <1>3, <1>4, <1>5, <1>6, <1>7, <1>8, <1>9, <1>10, <1>11, <1>12,
           <1>13, <1>14, <1>15, <1>16, <1>17 DEF Next

LEMMA TouchInvIsExact == TypeInv /\ TouchInv /\ EarlyInv => MtimeReuseIsExact
<1> SUFFICES ASSUME TypeInv, TouchInv, EarlyInv, Reusable, ~ByGit,
                    LeftAlone({"interrupted", "dropped", "missed", "unseen"})
             PROVE  index = tree
  BY DEF MtimeReuseIsExact, LeftAlone
<1>1. touched = {} /\ ~(age % Wide > MaxAge) /\ entry # NoEntry
  BY DEF Reusable, MtimeReuse, TooOld
<1>2. ~(age < 0)
  BY <1>1, CacheAssumption DEF TypeInv, TypeOK
<1>3. "early" \notin causes
  BY <1>2 DEF EarlyInv, LeftAlone
<1>4. \A f \in Files : index[f] = tree[f]
  BY <1>1, <1>3 DEF TouchInv
<1> QED BY <1>4 DEF TypeInv, TypeOK, Tree

(* check_cache_by_mtime: an index the mtime check reuses is that of the working *)
(* tree, unless `causes` names why; a clock that was set back makes the cast  *)
(* age too great, not too small (`num_minutes() as u64`).                     *)
THEOREM MtimeReuseIsExactAlways == Spec => []MtimeReuseIsExact
<1>1. Init => TypeInv /\ CutInv /\ TouchInv /\ EarlyInv
  BY TypeInit, CutInit, MtimeInit
<1>2. TypeInv /\ CutInv /\ TouchInv /\ EarlyInv /\ [Next]_vars
      => (TypeInv /\ CutInv /\ TouchInv /\ EarlyInv)'
  BY TypeNext, CutNext, TouchNext, EarlyNext
<1> QED BY <1>1, <1>2, TouchInvIsExact, PTL DEF Spec

-----------------------------------------------------------------------------
(***************************************************************************)
(* What is answered from the rows of a store: calls (CallTools) and        *)
(* dependencies (DependencyTools).  Two facts carry both: a breadth-first  *)
(* search that goes the other way finds its start at the same distance,    *)
(* and as many layers as there are nodes are all that can be reached.      *)
(***************************************************************************)
LEMMA LeastNumber ==
  ASSUME NEW T, T \subseteq Nat, T # {}
  PROVE  \E m \in T : \A n \in T : m <= n
<1> DEFINE R == {ss \in Nat \X Nat : ss[1] < ss[2]}
<1>1. IsWellFoundedOn(R, Nat)
  BY NatLessThanWellFounded DEF OpToRel
<1>2. \E m \in T : \A n \in T : ~(<<n, m>> \in R)
  <2> HIDE DEF R
  <2> QED BY <1>1, WFMin
<1>3. PICK m \in T : \A n \in T : ~(<<n, m>> \in R)
  BY <1>2
<1>4. ASSUME NEW n \in T PROVE m <= n
  <2>1. m \in Nat /\ n \in Nat /\ ~(<<n, m>> \in R)
    BY <1>3
  <2>2. ~(n < m)
    BY <2>1
  <2> HIDE DEF R
  <2> QED BY <2>1, <2>2
<1> QED BY <1>4

\* A set of numbers that has 0 and the successor of each of its own has all of them.
LEMMA Counting ==
  ASSUME NEW T, T \subseteq Nat, 0 \in T, \A n \in T : n + 1 \in T
  PROVE  \A n \in Nat : n \in T
<1> SUFFICES ASSUME NEW k \in Nat, k \notin T PROVE FALSE
  OBVIOUS
<1>1. PICK m \in Nat \ T : \A n \in Nat \ T : m <= n
  BY LeastNumber
<1>2. m # 0 /\ m - 1 \in Nat
  BY <1>1
<1>3. m - 1 \in T
  BY <1>1, <1>2
<1> QED BY <1>1, <1>2, <1>3

\* A function over 0..n that is given step by step.
GoesBySteps(f, Q, n, b, G) ==
    f \in [0..n -> Q] /\ f[0] = b /\ \A i \in 1..n : f[i] = G[<<f[i - 1], i>>]
StepMaps(Q, n) == [Q \X (1..n) -> Q]

LEMMA StepsExist ==
  ASSUME NEW Q, NEW n \in Nat, NEW b \in Q, NEW G \in StepMaps(Q, n)
  PROVE  \E f : GoesBySteps(f, Q, n, b, G)
<1> DEFINE good(f, k) == f \in [0..k -> Q] /\ f[0] = b /\ \A i \in 1..k : f[i] = G[<<f[i - 1], i>>]
           T == {k \in Nat : k <= n => \E f : good(f, k)}
<1>1. 0 \in T
  <2> DEFINE f == [i \in 0..0 |-> b]
  <2>1. f \in [0..0 -> Q] /\ f[0] = b /\ 1..0 = {}
    OBVIOUS
  <2> QED BY <2>1
<1>2. ASSUME NEW k \in T PROVE k + 1 \in T
  <2> SUFFICES ASSUME k + 1 <= n PROVE \E f : good(f, k + 1)
    OBVIOUS
  <2>1. k \in Nat /\ k + 1 \in 1..n /\ k \in 0..k
    OBVIOUS
  <2>2. PICK g : good(g, k)
    OBVIOUS
  <2> PICK q : q = G[<<g[k], k + 1>>]
    OBVIOUS
  <2>3. q \in Q
    BY <2>1, <2>2 DEF StepMaps
  <2> DEFINE h == [i \in 0..(k + 1) |-> IF i <= k THEN g[i] ELSE q]
  <2>4. /\ h \in [0..(k + 1) -> Q]
        /\ \A i \in 0..k : h[i] = g[i]
        /\ h[k + 1] = q
    BY <2>1, <2>2, <2>3
  <2> HIDE DEF h
  <2>5. ASSUME NEW i \in 1..(k + 1) PROVE h[i] = G[<<h[i - 1], i>>]
    <3>1. CASE i <= k
      <4>1. i \in 1..k /\ i \in 0..k /\ i - 1 \in 0..k
        BY <2>1, <3>1
      <4>2. h[i] = g[i] /\ h[i - 1] = g[i - 1] /\ g[i] = G[<<g[i - 1], i>>]
        BY <2>2, <2>4, <4>1
      <4> QED BY <4>2
    <3>2. CASE ~(i <= k)
      <4>1. i = k + 1 /\ i - 1 = k
        BY <2>1, <3>2
      <4>2. h[k] = g[k]
        BY <2>1, <2>4
      <4> QED BY <2>4, <4>1, <4>2
    <3> QED BY <3>1, <3>2
  <2>6. h[0] = b
    BY <2>1, <2>2, <2>4
  <2>7. good(h, k + 1)
    BY <2>4, <2>5, <2>6
  <2> HIDE DEF good
  <2> QED BY <2>7
<1>3. \A k \in Nat : k \in T
  <2>1. T \subseteq Nat
    OBVIOUS
  <2> HIDE DEF T
  <2> QED BY <1>1, <1>2, <2>1, Counting
<1>4. PICK f : good(f, n)
  <2>1. n \in T
    BY <1>3
  <2> HIDE DEF good
  <2> QED BY <2>1
<1> QED BY <1>4 DEF GoesBySteps


-----------------------------------------------------------------------------
\* Everything next to a set of nodes.
Beside(near, S) == UNION {near[v] : v \in S}

LEMMA BesideIs ==
  ASSUME NEW near, NEW S
  PROVE  \A w : w \in Beside(near, S) <=> \E v \in S : w \in near[v]
BY DEF Beside

\* A breadth-first search: at is the last layer, seen all layers.
Searched(near, at, seen, n) ==
    /\ at[0] = seen[0]
    /\ \A d, e \in 0..n : e = d + 1 =>
          /\ at[e] = Beside(near, at[d]) \ seen[d]
          /\ seen[e] = seen[d] \cup at[e]

\* What was seen grows by what is next to it, and a layer is what is new.
SeesNext(near, seen, n) ==
    \A d, e \in 0..n : e = d + 1 => seen[e] = seen[d] \cup Beside(near, seen[d])
NewAt(at, seen, n) == \A d, e \in 0..n : e = d + 1 => at[e] = seen[e] \ seen[d]

LEMMA SeenGrows ==
  ASSUME NEW near, NEW n \in Nat, NEW at, NEW seen, Searched(near, at, seen, n)
  PROVE  SeesNext(near, seen, n) /\ NewAt(at, seen, n)
<1>0. /\ at[0] = seen[0]
      /\ \A d, e \in 0..n : e = d + 1 =>
            /\ at[e] = Beside(near, at[d]) \ seen[d]
            /\ seen[e] = seen[d] \cup at[e]
  BY DEF Searched
<1> DEFINE good(d, e) == /\ at[e] = seen[e] \ seen[d]
                         /\ seen[e] = seen[d] \cup Beside(near, seen[d])
           T == {d \in Nat : \A e \in 0..n : e = d + 1 => good(d, e)}
<1>1. ASSUME NEW d \in 0..n, NEW e \in 0..n, e = d + 1
      PROVE  /\ \A w : w \in at[e] <=> w \in Beside(near, at[d]) /\ w \notin seen[d]
             /\ \A w : w \in seen[e] <=> w \in seen[d] \/ w \in at[e]
  <2>1. /\ at[e] = Beside(near, at[d]) \ seen[d]
        /\ seen[e] = seen[d] \cup at[e]
    BY <1>0, <1>1
  <2> QED BY ONLY <2>1
<1>2. ASSUME NEW d \in 0..n, NEW e \in 0..n, e = d + 1, at[d] \subseteq seen[d],
             \A w : w \in Beside(near, seen[d]) => w \in seen[d] \/ w \in Beside(near, at[d])
      PROVE  good(d, e)
  <2>1. /\ \A w : w \in at[e] <=> w \in Beside(near, at[d]) /\ w \notin seen[d]
        /\ \A w : w \in seen[e] <=> w \in seen[d] \/ w \in at[e]
    <3> HIDE DEF good
    <3> QED BY <1>1, <1>2
  <2>2. \A w : w \in Beside(near, at[d]) => w \in Beside(near, seen[d])
    BY <1>2, BesideIs
  <2> PICK A, B, x, y, z : A = at[e] /\ B = seen[e] /\ x = seen[d] /\ y = Beside(near, seen[d])
                           /\ z = Beside(near, at[d])
    OBVIOUS
  <2>3. A = B \ x
    <3>1. \A w : w \in A <=> w \in B /\ w \notin x
      BY <2>1
    <3> QED BY ONLY <3>1
  <2>4. B = x \cup y
    <3>1. \A w : w \in B <=> w \in x \/ w \in y
      BY <1>2, <2>1, <2>2
    <3> QED BY ONLY <3>1
  <2> QED BY <2>3, <2>4
<1>3. 0 \in T
  <2> SUFFICES ASSUME NEW e \in 0..n, e = 0 + 1 PROVE good(0, e)
    BY DEF T
  <2>1. 0 \in 0..n /\ at[0] \subseteq seen[0]
    BY <1>0
  <2>2. \A w : w \in Beside(near, seen[0]) => w \in seen[0] \/ w \in Beside(near, at[0])
    BY <1>0
  <2> HIDE DEF good, T
  <2> QED BY <1>2, <2>1, <2>2
<1>4. ASSUME NEW d \in T PROVE d + 1 \in T
  <2>1. ASSUME NEW e \in 0..n, e = d + 1, NEW f \in 0..n, f = e + 1 PROVE good(e, f)
    <3>1. d \in 0..n /\ good(d, e)
      BY <2>1
    <3> HIDE DEF T
    <3>2. /\ \A w : w \in at[e] <=> w \in seen[e] /\ w \notin seen[d]
          /\ \A w : w \in seen[e] <=> w \in seen[d] \/ w \in Beside(near, seen[d])
      <4>1. at[e] = seen[e] \ seen[d] /\ seen[e] = seen[d] \cup Beside(near, seen[d])
        BY <3>1
      <4> QED BY ONLY <4>1
    <3>3. at[e] \subseteq seen[e]
      BY <3>2
    <3>4. \A w : w \in Beside(near, seen[e]) => w \in seen[e] \/ w \in Beside(near, at[e])
      <4>1. \A w : w \in Beside(near, seen[e]) <=> \E v \in seen[e] : w \in near[v]
        BY BesideIs
      <4>2. \A w : w \in Beside(near, at[e]) <=> \E v \in at[e] : w \in near[v]
        BY BesideIs
      <4>3. \A w : w \in Beside(near, seen[d]) <=> \E v \in seen[d] : w \in near[v]
        BY BesideIs
      <4> HIDE DEF good
      <4> QED BY <3>2, <4>1, <4>2, <4>3
    <3> HIDE DEF good
    <3> QED BY <1>2, <2>1, <3>3, <3>4
  <2>2. ASSUME NEW f \in 0..n, f = (d + 1) + 1 PROVE good(d + 1, f)
    <3>1. d + 1 \in 0..n
      BY <2>2
    <3> PICK e : e = d + 1
      OBVIOUS
    <3> HIDE DEF good, T
    <3>2. good(e, f)
      BY <2>1, <2>2, <3>1
    <3> QED BY <3>2
  <2>3. d + 1 \in Nat
    OBVIOUS
  <2> HIDE DEF good
  <2> QED BY <2>2, <2>3
<1>5. \A d \in Nat : d \in T
  <2>1. T \subseteq Nat
    OBVIOUS
  <2> HIDE DEF T
  <2> QED BY <1>3, <1>4, <2>1, Counting
<1> HIDE DEF good
<1>6. ASSUME NEW d \in 0..n, NEW e \in 0..n, e = d + 1 PROVE good(d, e)
  <2>1. d \in T
    BY <1>5
  <2> QED BY <1>6, <2>1
<1>7. \A d, e \in 0..n : e = d + 1 => good(d, e)
  <2> HIDE DEF T
  <2> QED BY <1>6
<1> QED BY <1>7 DEF good, SeesNext, NewAt

\* The layers of a search are what is new among what was seen.
LEMMA LayersAre ==
  ASSUME NEW N, NEW near \in [N -> SUBSET N], NEW start \in SUBSET N, NEW n \in Nat
  PROVE  /\ DOMAIN Layers(near, start, n) = 0..n /\ Layers(near, start, n)[0] = start
         /\ \E seen \in [0..n -> SUBSET N] :
               /\ seen[0] = start
               /\ NewAt(Layers(near, start, n), seen, n)
               /\ SeesNext(near, seen, n)
<1> DEFINE Q == [at : SUBSET N, seen : SUBSET N]
           b == [at |-> start, seen |-> start]
           new(x) == Beside(near, x.at) \ x.seen
           next(x) == [at |-> new(x), seen |-> x.seen \cup new(x)]
           G == [x \in Q \X (1..n) |-> next(x[1])]
           whole(l) == l = [d \in 0..n |-> IF d = 0 THEN b ELSE next(l[d - 1])]
<1>1. ASSUME NEW x \in Q PROVE next(x) \in Q
  <2>1. x.at \in SUBSET N /\ x.seen \in SUBSET N
    OBVIOUS
  <2>2. new(x) \in SUBSET N
    BY <2>1 DEF Beside
  <2> HIDE DEF new
  <2> QED BY <2>1, <2>2
<1>2. b \in Q
  OBVIOUS
<1>3. G \in StepMaps(Q, n)
  <2>1. \A x \in Q \X (1..n) : next(x[1]) \in Q
    <3>1. \A x \in Q \X (1..n) : x[1] \in Q
      <4> HIDE DEF Q
      <4> QED OBVIOUS
    <3> HIDE DEF Q, next
    <3> QED BY <1>1, <3>1
  <2> HIDE DEF Q, next
  <2> QED BY <2>1 DEF StepMaps
<1>4. PICK f : GoesBySteps(f, Q, n, b, G)
  <2> HIDE DEF Q, G, b
  <2> QED BY <1>2, <1>3, StepsExist
<1>5. whole(f)
  <2>1. f \in [0..n -> Q] /\ f[0] = b /\ \A i \in 1..n : f[i] = G[<<f[i - 1], i>>]
    <3> HIDE DEF Q, G, b
    <3> QED BY <1>4 DEF GoesBySteps
  <2>2. ASSUME NEW d \in 1..n PROVE f[d] = next(f[d - 1])
    <3>1. d - 1 \in 0..n
      OBVIOUS
    <3>2. f[d - 1] \in Q
      <4> HIDE DEF Q, G, b
      <4> QED BY <2>1, <3>1
    <3>3. <<f[d - 1], d>> \in Q \X (1..n) /\ <<f[d - 1], d>>[1] = f[d - 1]
      BY <3>2
    <3>4. G[<<f[d - 1], d>>] = next(f[d - 1])
      <4> HIDE DEF Q, next
      <4> QED BY <3>3
    <3> HIDE DEF Q, next, G, b
    <3> QED BY <2>1, <3>4
  <2>3. \A d \in 0..n : f[d] = IF d = 0 THEN b ELSE next(f[d - 1])
    <3>1. \A d \in 0..n : d = 0 \/ d \in 1..n
      OBVIOUS
    <3>2. \A d \in 1..n : d # 0
      OBVIOUS
    <3> HIDE DEF Q, next, G, b
    <3> QED BY <2>1, <2>2, <3>1, <3>2
  <2> HIDE DEF Q, next, G, b
  <2> QED BY <2>1, <2>3
<1> DEFINE l == CHOOSE k : whole(k)
<1>6. whole(l)
  <2> HIDE DEF whole
  <2> QED BY <1>5
<1>7. Layers(near, start, n) = [d \in 0..n |-> l[d].at]
  BY Zenon DEF Layers, Beside
<1> HIDE DEF l
<1>8. l[0] = b /\ \A d, e \in 0..n : e = d + 1 => l[e] = next(l[d])
  <2>1. 0 \in 0..n /\ \A d, e \in 0..n : e = d + 1 => e # 0 /\ e - 1 = d
    OBVIOUS
  <2> HIDE DEF next, b
  <2>2. \A e \in 0..n : l[e] = IF e = 0 THEN b ELSE next(l[e - 1])
    BY <1>6
  <2>3. ASSUME NEW d \in 0..n, NEW e \in 0..n, e = d + 1 PROVE l[e] = next(l[d])
    <3>1. e # 0 /\ e - 1 = d
      BY <2>1, <2>3
    <3>2. l[e] = next(l[e - 1])
      BY <2>2, <3>1
    <3> QED BY <3>1, <3>2
  <2> QED BY <2>1, <2>2, <2>3
<1> HIDE DEF whole, G
<1>9. \A d \in 0..n : l[d] \in Q
  <2> DEFINE T == {d \in Nat : d <= n => l[d] \in Q}
  <2>1. 0 \in T
    <3> HIDE DEF Q, b
    <3> QED BY <1>2, <1>8
  <2>2. ASSUME NEW d \in T PROVE d + 1 \in T
    <3> SUFFICES ASSUME d + 1 <= n PROVE l[d + 1] \in Q
      OBVIOUS
    <3>1. d + 1 \in 0..n /\ d \in 0..n /\ l[d] \in Q
      OBVIOUS
    <3> PICK e : e = d + 1
      OBVIOUS
    <3> HIDE DEF Q, next
    <3>2. l[e] = next(l[d])
      BY <1>8, <3>1
    <3> QED BY <1>1, <3>1, <3>2
  <2>3. T \subseteq Nat
    OBVIOUS
  <2>4. \A d \in Nat : d \in T
    <3> HIDE DEF T
    <3> QED BY <2>1, <2>2, <2>3, Counting
  <2> HIDE DEF Q
  <2> QED BY <2>4
<1> PICK at, seen : at = [d \in 0..n |-> l[d].at] /\ seen = [d \in 0..n |-> l[d].seen]
  OBVIOUS
<1>10. /\ at \in [0..n -> SUBSET N] /\ seen \in [0..n -> SUBSET N]
       /\ \A d \in 0..n : at[d] = l[d].at /\ seen[d] = l[d].seen
  BY <1>9
<1>11. at[0] = start /\ seen[0] = start
  <2>1. 0 \in 0..n
    OBVIOUS
  <2>2. l[0].at = start /\ l[0].seen = start
    BY <1>8
  <2> QED BY <1>10, <2>1, <2>2
<1>12. ASSUME NEW d \in 0..n, NEW e \in 0..n, e = d + 1
       PROVE  /\ at[e] = Beside(near, at[d]) \ seen[d]
              /\ seen[e] = seen[d] \cup at[e]
  <2>1. l[e] = next(l[d])
    <3> HIDE DEF next, b
    <3> QED BY <1>8, <1>12
  <2>2. l[e].at = new(l[d]) /\ l[e].seen = l[d].seen \cup new(l[d])
    <3> HIDE DEF new
    <3> QED BY <2>1
  <2>3. new(l[d]) = Beside(near, at[d]) \ seen[d]
    BY <1>10
  <2> HIDE DEF new
  <2> QED BY <1>10, <2>2, <2>3
<1>13. SeesNext(near, seen, n) /\ NewAt(at, seen, n)
  <2>1. \A d, e \in 0..n : e = d + 1 =>
           /\ at[e] = Beside(near, at[d]) \ seen[d]
           /\ seen[e] = seen[d] \cup at[e]
    BY <1>12
  <2> HIDE DEF Q, b, new, next
  <2>2. Searched(near, at, seen, n)
    BY <1>11, <2>1 DEF Searched
  <2> QED BY <2>2, SeenGrows
<1> HIDE DEF Q, b, new, next
<1>14. \A d \in 0..n : Layers(near, start, n)[d] = at[d]
  BY <1>7, <1>10
<1>15. NewAt(Layers(near, start, n), seen, n)
  BY <1>13, <1>14 DEF NewAt
<1>16. DOMAIN Layers(near, start, n) = 0..n
  BY <1>7
<1>17. Layers(near, start, n)[0] = start
  <2>1. 0 \in 0..n
    OBVIOUS
  <2> QED BY <1>11, <1>14, <2>1
<1> QED BY <1>10, <1>11, <1>13, <1>15, <1>16, <1>17

-----------------------------------------------------------------------------
\* What can be reached from each node in at most d steps, for d up to n.
Reaches(W, near, N, n) ==
    /\ \A x, y \in N : y \in W[0][x] <=> x = y
    /\ \A d, e \in 0..n : e = d + 1 =>
          \A x, y \in N : y \in W[e][x] <=> \E z \in N : z \in W[d][x] /\ (y = z \/ y \in near[z])

LEMMA ReachesExist ==
  ASSUME NEW N, NEW near \in [N -> SUBSET N], NEW n \in Nat
  PROVE  \E W : Reaches(W, near, N, n)
<1> DEFINE Q == [N -> SUBSET N]
           b == [x \in N |-> {x}]
           next(g) == [x \in N |-> {y \in N : \E z \in N : z \in g[x] /\ (y = z \/ y \in near[z])}]
           G == [p \in Q \X (1..n) |-> next(p[1])]
<1>1. \A g : next(g) \in Q
  OBVIOUS
<1>2. b \in Q
  OBVIOUS
<1>3. G \in StepMaps(Q, n)
  <2> HIDE DEF Q, next
  <2> QED BY <1>1 DEF StepMaps
<1>4. PICK f : GoesBySteps(f, Q, n, b, G)
  <2> HIDE DEF Q, G, b
  <2> QED BY <1>2, <1>3, StepsExist
<1>5. f \in [0..n -> Q] /\ f[0] = b /\ \A i \in 1..n : f[i] = G[<<f[i - 1], i>>]
  <2> HIDE DEF Q, G, b
  <2> QED BY <1>4 DEF GoesBySteps
<1>6. ASSUME NEW d \in 0..n, NEW e \in 0..n, e = d + 1 PROVE f[e] = next(f[d])
  <2>1. e \in 1..n /\ e - 1 = d
    BY <1>6
  <2>2. f[d] \in Q
    <3> HIDE DEF Q, G, b
    <3> QED BY <1>5, <2>1
  <2>3. <<f[d], e>> \in Q \X (1..n) /\ <<f[d], e>>[1] = f[d]
    BY <2>1, <2>2
  <2>4. G[<<f[d], e>>] = next(f[d])
    <3> HIDE DEF Q, next
    <3> QED BY <2>3
  <2>5. f[e] = G[<<f[e - 1], e>>]
    <3> HIDE DEF Q, next, G, b
    <3> QED BY <1>5, <2>1
  <2> HIDE DEF Q, next, G, b
  <2> QED BY <2>1, <2>4, <2>5
<1>7. \A x, y \in N : y \in f[0][x] <=> x = y
  <2>1. \A x, y \in N : y \in b[x] <=> x = y
    OBVIOUS
  <2> HIDE DEF b, Q, G
  <2> QED BY <1>5, <2>1
<1>8. ASSUME NEW d \in 0..n, NEW e \in 0..n, e = d + 1, NEW x \in N, NEW y \in N
      PROVE  y \in f[e][x] <=> \E z \in N : z \in f[d][x] /\ (y = z \/ y \in near[z])
  <2>1. f[e] = next(f[d])
    <3> HIDE DEF next
    <3> QED BY <1>6, <1>8
  <2>2. \A g : y \in next(g)[x] <=> \E z \in N : z \in g[x] /\ (y = z \/ y \in near[z])
    OBVIOUS
  <2> HIDE DEF next
  <2> QED BY <2>1, <2>2
<1> HIDE DEF next, G, b
<1> QED BY <1>7, <1>8 DEF Reaches

\* A first step can be put before others.
LEMMA FirstStep ==
  ASSUME NEW N, NEW near \in [N -> SUBSET N], NEW n \in Nat, NEW W, Reaches(W, near, N, n)
  PROVE  \A d, e \in 0..n : e = d + 1 =>
            \A x, y \in N : y \in W[e][x] <=> \E z \in N : (z = x \/ z \in near[x]) /\ y \in W[d][z]
<1> DEFINE good(d, e) == \A x, y \in N :
               y \in W[e][x] <=> \E z \in N : (z = x \/ z \in near[x]) /\ y \in W[d][z]
           T == {d \in Nat : \A e \in 0..n : e = d + 1 => good(d, e)}
<1>1. \A x, y \in N : y \in W[0][x] <=> x = y
  BY DEF Reaches
<1>2. \A d, e \in 0..n : e = d + 1 =>
         \A x, y \in N : y \in W[e][x] <=> \E z \in N : z \in W[d][x] /\ (y = z \/ y \in near[z])
  BY DEF Reaches
<1>3. 0 \in T
  <2> SUFFICES ASSUME NEW e \in 0..n, e = 0 + 1, NEW x \in N, NEW y \in N
               PROVE  y \in W[e][x] <=> \E z \in N : (z = x \/ z \in near[x]) /\ y \in W[0][z]
    OBVIOUS
  <2>1. 0 \in 0..n /\ e = 0 + 1
    OBVIOUS
  <2>2. y \in W[e][x] <=> \E z \in N : z \in W[0][x] /\ (y = z \/ y \in near[z])
    BY <1>2, <2>1
  <2> QED BY <1>1, <2>2
<1>4. ASSUME NEW d \in T PROVE d + 1 \in T
  <2>1. ASSUME NEW e \in 0..n, e = d + 1, NEW f \in 0..n, f = e + 1 PROVE good(e, f)
    <3>1. d \in 0..n /\ good(d, e)
      BY <2>1
    <3> HIDE DEF T
    <3>2. \A u, v \in N : v \in W[e][u] <=> \E z \in N : z \in W[d][u] /\ (v = z \/ v \in near[z])
      BY <1>2, <2>1, <3>1
    <3>3. \A u, v \in N : v \in W[f][u] <=> \E z \in N : z \in W[e][u] /\ (v = z \/ v \in near[z])
      BY <1>2, <2>1
    <3>4. ASSUME NEW x \in N, NEW y \in N, y \in W[f][x]
          PROVE  \E z \in N : (z = x \/ z \in near[x]) /\ y \in W[e][z]
      <4>1. PICK w \in N : w \in W[e][x] /\ (y = w \/ y \in near[w])
        BY <3>3, <3>4
      <4>2. PICK z \in N : (z = x \/ z \in near[x]) /\ w \in W[d][z]
        BY <3>1, <4>1
      <4>3. y \in W[e][z]
        BY <3>2, <4>1, <4>2
      <4> QED BY <4>2, <4>3
    <3>5. ASSUME NEW x \in N, NEW y \in N, NEW z \in N, z = x \/ z \in near[x], y \in W[e][z]
          PROVE  y \in W[f][x]
      <4>1. PICK w \in N : w \in W[d][z] /\ (y = w \/ y \in near[w])
        BY <3>2, <3>5
      <4>2. w \in W[e][x]
        BY <3>1, <3>5, <4>1
      <4> QED BY <3>3, <4>1, <4>2
    <3> QED BY <3>4, <3>5
  <2>2. ASSUME NEW f \in 0..n, f = (d + 1) + 1 PROVE good(d + 1, f)
    <3>1. d + 1 \in 0..n
      BY <2>2
    <3> PICK e : e = d + 1
      OBVIOUS
    <3> HIDE DEF good, T
    <3>2. good(e, f)
      BY <2>1, <2>2, <3>1
    <3> QED BY <3>2
  <2>3. d + 1 \in Nat
    OBVIOUS
  <2> HIDE DEF good
  <2> QED BY <2>2, <2>3
<1>5. \A d \in Nat : d \in T
  <2>1. T \subseteq Nat
    OBVIOUS
  <2> HIDE DEF T
  <2> QED BY <1>3, <1>4, <2>1, Counting
<1> QED BY <1>5

\* Steps the other way lead back.
LEMMA WayBack ==
  ASSUME NEW N, NEW near \in [N -> SUBSET N], NEW back \in [N -> SUBSET N],
         \A x, y \in N : y \in near[x] <=> x \in back[y], NEW n \in Nat,
         NEW W, Reaches(W, near, N, n), NEW V, Reaches(V, back, N, n)
  PROVE  \A d \in 0..n : \A x, y \in N : y \in W[d][x] <=> x \in V[d][y]
<1> DEFINE good(d) == \A x, y \in N : y \in W[d][x] <=> x \in V[d][y]
           T == {d \in Nat : d <= n => good(d)}
<1>1. 0 \in T
  <2>1. \A x, y \in N : y \in W[0][x] <=> x = y
    BY DEF Reaches
  <2>2. \A x, y \in N : y \in V[0][x] <=> x = y
    BY DEF Reaches
  <2> QED BY <2>1, <2>2
<1>2. ASSUME NEW d \in T PROVE d + 1 \in T
  <2>1. ASSUME NEW e \in 0..n, e = d + 1 PROVE good(e)
    <3>1. d \in 0..n /\ good(d)
      BY <2>1
    <3> HIDE DEF T
    <3>2. \A x, y \in N : y \in W[e][x] <=> \E z \in N : z \in W[d][x] /\ (y = z \/ y \in near[z])
      BY <2>1, <3>1 DEF Reaches
    <3>3. \A x, y \in N : y \in V[e][x] <=> \E z \in N : (z = x \/ z \in back[x]) /\ y \in V[d][z]
      <4> HIDE DEF good
      <4> QED BY <2>1, <3>1, FirstStep
    <3> QED BY <3>1, <3>2, <3>3
  <2>2. ASSUME d + 1 <= n PROVE good(d + 1)
    <3>1. d + 1 \in 0..n
      BY <2>2
    <3> PICK e : e = d + 1
      OBVIOUS
    <3> HIDE DEF good, T
    <3> QED BY <2>1, <3>1
  <2>3. d + 1 \in Nat
    OBVIOUS
  <2> HIDE DEF good
  <2> QED BY <2>2, <2>3
<1>3. \A d \in Nat : d \in T
  <2>1. T \subseteq Nat
    OBVIOUS
  <2> HIDE DEF T
  <2> QED BY <1>1, <1>2, <2>1, Counting
<1> HIDE DEF good
<1>4. ASSUME NEW d \in 0..n PROVE good(d)
  <2>1. d \in T /\ d <= n
    BY <1>3
  <2> QED BY <2>1
<1> HIDE DEF T
<1> QED BY <1>4 DEF good

\* What a search has seen is what can be reached.
LEMMA SeenIsReached ==
  ASSUME NEW N, NEW near \in [N -> SUBSET N], NEW a \in N, NEW n \in Nat,
         NEW W, Reaches(W, near, N, n),
         NEW seen \in [0..n -> SUBSET N], seen[0] = {a}, SeesNext(near, seen, n)
  PROVE  \A d \in 0..n : \A y \in N : y \in seen[d] <=> y \in W[d][a]
<1> DEFINE good(d) == \A y \in N : y \in seen[d] <=> y \in W[d][a]
           T == {d \in Nat : d <= n => good(d)}
<1>1. 0 \in T
  <2>1. \A x, y \in N : y \in W[0][x] <=> x = y
    BY DEF Reaches
  <2> QED BY <2>1
<1>2. ASSUME NEW d \in T PROVE d + 1 \in T
  <2>1. ASSUME NEW e \in 0..n, e = d + 1 PROVE good(e)
    <3>1. d \in 0..n /\ good(d)
      BY <2>1
    <3> HIDE DEF T
    <3>2. \A y \in N : y \in W[e][a] <=> \E z \in N : z \in W[d][a] /\ (y = z \/ y \in near[z])
      BY <2>1, <3>1 DEF Reaches
    <3>3. seen[e] = seen[d] \cup Beside(near, seen[d])
      BY <2>1, <3>1 DEF SeesNext
    <3>4. seen[d] \subseteq N
      BY <3>1
    <3>5. \A y : y \in Beside(near, seen[d]) <=> \E v \in seen[d] : y \in near[v]
      BY BesideIs
    <3>6. \A y : y \in seen[e] <=> y \in seen[d] \/ \E v \in seen[d] : y \in near[v]
      <4>1. \A y : y \in seen[e] <=> y \in seen[d] \/ y \in Beside(near, seen[d])
        BY ONLY <3>3
      <4> QED BY ONLY <3>5, <4>1
    <3> QED BY <3>1, <3>2, <3>4, <3>6
  <2>2. ASSUME d + 1 <= n PROVE good(d + 1)
    <3>1. d + 1 \in 0..n
      BY <2>2
    <3> PICK e : e = d + 1
      OBVIOUS
    <3> HIDE DEF good, T
    <3> QED BY <2>1, <3>1
  <2>3. d + 1 \in Nat
    OBVIOUS
  <2> HIDE DEF good
  <2> QED BY <2>2, <2>3
<1>3. \A d \in Nat : d \in T
  <2>1. T \subseteq Nat
    OBVIOUS
  <2> HIDE DEF T
  <2> QED BY <1>1, <1>2, <2>1, Counting
<1> HIDE DEF good
<1>4. ASSUME NEW d \in 0..n PROVE good(d)
  <2>1. d \in T /\ d <= n
    BY <1>3
  <2> QED BY <2>1
<1> HIDE DEF T
<1> QED BY <1>4 DEF good

\* Searches along mirrored steps find each other at the same distance.
LEMMA LayersMirror ==
  ASSUME NEW N, NEW near \in [N -> SUBSET N], NEW back \in [N -> SUBSET N],
         \A x, y \in N : y \in near[x] <=> x \in back[y], NEW n \in Nat,
         NEW a \in N, NEW b \in N, NEW d \in 1..n
  PROVE  b \in Layers(near, {a}, n)[d] <=> a \in Layers(back, {b}, n)[d]
<1>1. PICK W : Reaches(W, near, N, n)
  BY ReachesExist
<1>2. PICK V : Reaches(V, back, N, n)
  BY ReachesExist
<1>3. \A e \in 0..n : b \in W[e][a] <=> a \in V[e][b]
  BY <1>1, <1>2, WayBack
<1> PICK A, B : A = {a} /\ B = {b}
  OBVIOUS
<1>4. A \in SUBSET N /\ B \in SUBSET N
  OBVIOUS
<1>5. PICK seen \in [0..n -> SUBSET N] :
         seen[0] = A /\ NewAt(Layers(near, A, n), seen, n) /\ SeesNext(near, seen, n)
  BY <1>4, LayersAre
<1>6. PICK met \in [0..n -> SUBSET N] :
         met[0] = B /\ NewAt(Layers(back, B, n), met, n) /\ SeesNext(back, met, n)
  BY <1>4, LayersAre
<1>7. \A e \in 0..n : b \in seen[e] <=> b \in W[e][a]
  BY <1>1, <1>5, SeenIsReached
<1>8. \A e \in 0..n : a \in met[e] <=> a \in V[e][b]
  BY <1>2, <1>6, SeenIsReached
<1> PICK c : c = d - 1
  OBVIOUS
<1>9. c \in 0..n /\ d \in 0..n /\ d = c + 1
  OBVIOUS
<1>10. Layers(near, A, n)[d] = seen[d] \ seen[c] /\ Layers(back, B, n)[d] = met[d] \ met[c]
  BY <1>5, <1>6, <1>9 DEF NewAt
<1> QED BY <1>3, <1>7, <1>8, <1>9, <1>10

\* The first layer is what is next to the start.
LEMMA FirstLayer ==
  ASSUME NEW N, NEW near \in [N -> SUBSET N], NEW a \in N
  PROVE  Layers(near, {a}, 1)[1] = near[a] \ {a}
<1>0. PICK A, n : A = {a} /\ n = 1
  OBVIOUS
<1>1. A \in SUBSET N /\ n \in Nat
  BY <1>0
<1>2. PICK seen \in [0..n -> SUBSET N] :
         seen[0] = A /\ NewAt(Layers(near, A, n), seen, n) /\ SeesNext(near, seen, n)
  BY <1>1, LayersAre
<1>3. 0 \in 0..n /\ 1 \in 0..n /\ 1 = 0 + 1
  BY <1>0
<1>4. /\ Layers(near, A, n)[1] = seen[1] \ seen[0]
      /\ seen[1] = seen[0] \cup Beside(near, seen[0])
  BY <1>2, <1>3 DEF NewAt, SeesNext
<1>5. \A w : w \in Beside(near, A) <=> w \in near[a]
  BY <1>0, BesideIs
<1>6. seen[0] = A /\ seen[1] = A \cup Beside(near, A)
  BY <1>2, <1>4
<1> PICK S : S = Beside(near, A)
  OBVIOUS
<1>7. seen[1] \ seen[0] = (A \cup S) \ A
  BY <1>6
<1>8. (A \cup S) \ A = near[a] \ {a}
  BY <1>0, <1>5
<1> QED BY <1>0, <1>4, <1>7, <1>8

-----------------------------------------------------------------------------
LEMMA FiniteImage ==
  ASSUME NEW S, IsFiniteSet(S), NEW f, NEW T, T = {f[x] : x \in S}
  PROVE  IsFiniteSet(T)
<1> DEFINE g == [x \in S |-> f[x]]
<1>1. g \in Surjection(S, T)
  BY DEF Surjection
<1> HIDE DEF g
<1> QED BY <1>1, FS_Surjection

LEMMA TableIsSequence ==
  ASSUME symbols \in Tables
  PROVE  /\ Len(symbols) \in Nat /\ DOMAIN symbols = 1..Len(symbols)
         /\ IsFiniteSet(DOMAIN symbols) /\ Cardinality(DOMAIN symbols) = Len(symbols)
<1>1. symbols \in Seq(Range(symbols))
  BY TablesAssumption
<1>2. DOMAIN symbols = 1..Len(symbols) /\ Len(symbols) \in Nat
  <2> PICK R : R = Range(symbols)
    OBVIOUS
  <2>1. symbols \in Seq(R)
    BY <1>1
  <2> QED BY <2>1
<1>3. PICK n \in Nat : n = Len(symbols)
  BY <1>2
<1>4. IsFiniteSet(1..n) /\ Cardinality(1..n) = n
  <2>1. 1 \in Int /\ n \in Int
    OBVIOUS
  <2> QED BY <2>1, FS_Interval
<1> QED BY <1>2, <1>3, <1>4

\* The rows of a store are finitely many, no two of a kind between the same two: one to the
\* file of every symbol, the others from one uid to another or to none.
RowEnds == Uids \cup {Gone}

EdgesInv ==
    /\ IsFiniteSet(edges)
    /\ {e \in edges : e.kind = "ContainedBy"} = {FileRow(s) : s \in Table}
    /\ \A e \in Resolved : e.kind \in Kinds /\ e.source \in RowEnds /\ e.target \in RowEnds
    /\ \A e, f \in edges : Alike(e, f) => e = f

LEMMA EdgesInvInit == GraphInit => EdgesInv
<1> SUFFICES ASSUME GraphInit PROVE EdgesInv
  OBVIOUS
<1>1. edges = {FileRow(s) : s \in Table}
  BY DEF GraphInit, Table
<1>2. \A e \in edges : e.kind = "ContainedBy" /\ e.line = 0
      /\ e = [kind |-> e.kind, source |-> e.source, target |-> e.target, line |-> e.line]
  BY <1>1 DEF FileRow
<1>3. IsFiniteSet(edges)
  <2> DEFINE row == [i \in DOMAIN symbols |-> FileRow(symbols[i])]
  <2>1. \A i \in DOMAIN symbols : row[i] = FileRow(symbols[i])
    OBVIOUS
  <2> HIDE DEF row
  <2>2. edges = {row[i] : i \in DOMAIN symbols}
    BY <1>1, <2>1 DEF Table, Range
  <2>3. PICK D : D = DOMAIN symbols
    OBVIOUS
  <2>4. IsFiniteSet(D)
    BY <2>3, TableIsSequence DEF GraphInit
  <2>5. edges = {row[i] : i \in D}
    BY <2>2, <2>3
  <2> QED BY ONLY <2>4, <2>5, FiniteImage
<1>4. {e \in edges : e.kind = "ContainedBy"} = {FileRow(s) : s \in Table}
  BY <1>1, <1>2
<1>5. Resolved = {}
  BY <1>2 DEF Resolved
<1>6. \A e, f \in edges : Alike(e, f) => e = f
  <2> SUFFICES ASSUME NEW e \in edges, NEW f \in edges, Alike(e, f) PROVE e = f
    OBVIOUS
  <2> QED BY <1>2 DEF Alike
<1> QED BY <1>3, <1>4, <1>5, <1>6 DEF EdgesInv

LEMMA EdgesInvStep == EdgesInv /\ [Connect]_graphVars => EdgesInv'
<1> SUFFICES ASSUME EdgesInv, [Connect]_graphVars PROVE EdgesInv'
  OBVIOUS
<1>1. CASE Connect
  <2>1. symbols' = symbols /\ Table' = Table
    BY <1>1 DEF Connect, Table, Range
  <2>2. RowEnds' = RowEnds
    BY <2>1 DEF RowEnds, Uids
  <2>3. PICK kind \in Kinds, from \in RowEnds, to \in RowEnds, n \in 1..MaxLines :
           LET row(l) == [kind |-> kind, source |-> from, target |-> to, line |-> l]
           IN  /\ \A e \in edges : ~Alike(e, row(n))
               /\ edges' = edges \cup Deduplicated({row(l) : l \in 1..n})
    BY <1>1 DEF Connect, RowEnds
  <2>4. PICK new : new = [kind |-> kind, source |-> from, target |-> to, line |-> 1]
    OBVIOUS
  <2>5. edges' = edges \cup {new} /\ \A e \in edges : ~Alike(e, new)
    <3> DEFINE row(l) == [kind |-> kind, source |-> from, target |-> to, line |-> l]
    <3>1. n \in Nat /\ n >= 1
      OBVIOUS
    <3>2. \A l \in 1..n : \A m \in 1..n : Alike(row(l), row(m)) /\ row(l).line = l
      BY DEF Alike
    <3>3. Deduplicated({row(l) : l \in 1..n}) = {new}
      <4>1. 1 \in 1..n /\ \A l \in 1..n : 1 <= l /\ (l <= 1 => l = 1)
        BY <3>1
      <4>2. row(1) = new
        BY <2>4
      <4> PICK X : X = {row(l) : l \in 1..n}
        OBVIOUS
      <4>3. new \in X /\ \A f \in X : new.line <= f.line
        BY <2>4, <4>1, <4>2
      <4>4. ASSUME NEW e \in X, \A f \in X : Alike(e, f) => e.line <= f.line PROVE e = new
        <5>1. PICK l \in 1..n : e = row(l)
          OBVIOUS
        <5>2. Alike(e, new) /\ e.line = l /\ new.line = 1
          BY <2>4, <5>1 DEF Alike
        <5>3. l <= 1
          BY <4>3, <4>4, <5>2
        <5> QED BY <4>1, <4>2, <5>1, <5>3
      <4>5. Deduplicated(X) = {new}
        BY <4>3, <4>4 DEF Deduplicated
      <4> QED BY <4>5
    <3>4. \A e : Alike(e, row(n)) <=> Alike(e, new)
      BY <2>4 DEF Alike
    <3>5. edges' = edges \cup Deduplicated({row(l) : l \in 1..n}) /\ \A e \in edges : ~Alike(e, row(n))
      BY <2>3
    <3> QED BY <3>3, <3>4, <3>5
  <2>6. new.kind # "ContainedBy" /\ new.kind \in Kinds /\ new.source \in RowEnds /\ new.target \in RowEnds
    BY <2>4, TablesAssumption
  <2>7. IsFiniteSet(edges')
    BY <2>5, FS_AddElement DEF EdgesInv
  <2>8. {e \in edges' : e.kind = "ContainedBy"} = {FileRow(s) : s \in Table}
    BY <2>5, <2>6 DEF EdgesInv
  <2>9. Resolved' = Resolved \cup {new}
    BY <2>5, <2>6 DEF Resolved
  <2>10. \A e \in Resolved' : e.kind \in Kinds /\ e.source \in RowEnds /\ e.target \in RowEnds
    BY <2>6, <2>9 DEF EdgesInv
  <2>11. \A e, f \in edges' : Alike(e, f) => e = f
    <3>1. \A e : Alike(e, new) <=> Alike(new, e)
      BY DEF Alike
    <3> QED BY <2>5, <3>1 DEF EdgesInv
  <2>12. {FileRow(s) : s \in Table}' = {FileRow(s) : s \in Table}
    BY <2>1 DEF FileRow
  <2> QED BY <2>2, <2>7, <2>8, <2>10, <2>11, <2>12 DEF EdgesInv
<1>2. CASE UNCHANGED graphVars
  BY <1>2 DEF graphVars, EdgesInv, RowEnds, Uids, Table, Range, Resolved, FileRow
<1> QED BY <1>1, <1>2

\* What was resolved, and calls, leads from one uid to another or to none; the rest to a file.
LEMMA RowsLead ==
  ASSUME EdgesInv
  PROVE  /\ CallRows \subseteq Resolved /\ Resolved \subseteq edges
         /\ \A e \in Resolved : e.source \in RowEnds /\ e.target \in RowEnds
         /\ \A e \in edges \ Resolved : \E s \in Table : e.source = s.uid /\ e.target = FileUid[s.file]
         /\ Rels({"Imports"}) = {}
<1>1. CallRows \subseteq Resolved /\ Resolved \subseteq edges
  BY DEF CallRows, Rels, Resolved
<1>2. \A e \in edges \ Resolved : \E s \in Table : e = FileRow(s)
  BY DEF EdgesInv, Resolved
<1>3. Rels({"Imports"}) = {}
  <2> SUFFICES ASSUME NEW e \in edges, e.kind = "Imports" PROVE FALSE
    BY DEF Rels
  <2>1. e \in Resolved
    BY DEF Resolved
  <2> QED BY <2>1, TablesAssumption DEF EdgesInv
<1> QED BY <1>1, <1>2, <1>3 DEF EdgesInv, FileRow

\* The neighbours the two tools search along.
CallersOf == [v \in Uids \cup {Gone} |-> Sources(To(CallRows, v))]
CalleesOf == [v \in Uids \cup {Gone} |-> Targets(From(CallRows, v))]

LEMMA CallNeighbours ==
  ASSUME EdgesInv
  PROVE  /\ CallersOf \in [RowEnds -> SUBSET RowEnds] /\ CalleesOf \in [RowEnds -> SUBSET RowEnds]
         /\ \A x, y \in RowEnds : y \in CallersOf[x] <=> x \in CalleesOf[y]
<1>1. \A e \in CallRows : e.source \in RowEnds /\ e.target \in RowEnds
  BY RowsLead
<1>2. \A v : Sources(To(CallRows, v)) \subseteq RowEnds /\ Targets(From(CallRows, v)) \subseteq RowEnds
  BY <1>1 DEF Sources, Targets, To, From
<1>3. CallersOf \in [RowEnds -> SUBSET RowEnds] /\ CalleesOf \in [RowEnds -> SUBSET RowEnds]
  BY <1>2 DEF CallersOf, CalleesOf, RowEnds
<1>4. ASSUME NEW x \in RowEnds, NEW y \in RowEnds PROVE y \in CallersOf[x] <=> x \in CalleesOf[y]
  <2>1. CallersOf[x] = Sources(To(CallRows, x)) /\ CalleesOf[y] = Targets(From(CallRows, y))
    BY DEF CallersOf, CalleesOf, RowEnds
  <2>2. y \in Sources(To(CallRows, x)) <=> \E e \in CallRows : e.target = x /\ e.source = y
    BY DEF Sources, To
  <2>3. x \in Targets(From(CallRows, y)) <=> \E e \in CallRows : e.source = y /\ e.target = x
    BY DEF Targets, From
  <2> QED BY <2>1, <2>2, <2>3
<1> QED BY <1>3, <1>4

LEMMA ReportedAre ==
  ASSUME NEW layers, NEW max \in Nat
  PROVE  \A u \in Uids, d \in 1..max : <<u, d>> \in Reported(layers, max) <=> u \in layers[d]
BY DEF Reported

LEMMA MirrorHolds == EdgesInv => CallersMirrorCallees
<1> SUFFICES ASSUME EdgesInv, NEW a \in Uids, NEW b \in Uids, NEW d \in 1..MaxDepth
             PROVE  <<b, d>> \in GetCallers(a, MaxDepth) <=> <<a, d>> \in GetCallees(b, MaxDepth)
  BY DEF CallersMirrorCallees
<1>1. a \in RowEnds /\ b \in RowEnds /\ MaxDepth \in Nat
  BY CallToolsAssumption DEF RowEnds
<1>2. b \in Layers(CallersOf, {a}, MaxDepth)[d] <=> a \in Layers(CalleesOf, {b}, MaxDepth)[d]
  BY <1>1, CallNeighbours, LayersMirror
<1>3. GetCallers(a, MaxDepth) = Reported(Layers(CallersOf, {a}, MaxDepth), MaxDepth)
  BY DEF GetCallers, CallersOf
<1>4. GetCallees(b, MaxDepth) = Reported(Layers(CalleesOf, {b}, MaxDepth), MaxDepth)
  BY DEF GetCallees, CalleesOf
<1> QED BY <1>1, <1>2, <1>3, <1>4, ReportedAre

\* A test calls what a row leads to.
LEMMA TestedIsCalled ==
  ASSUME NEW u, TestCaller(u)
  PROVE  u \in Targets(CallRows)
BY DEF TestCaller, Targets, To

\* Who is in the list of gaps.
LEMMA UntestedAre ==
  ASSUME NEW s
  PROVE  (\E g \in Untested : g.symbol = s)
            <=> (s \in Callable /\ ~IsTest(s) /\ s.uid \in Targets(CallRows) /\ ~TestCaller(s.uid))
<1> PICK T : T = {t \in Callable : /\ ~IsTest(t)
                                  /\ t.uid \in Targets(CallRows)
                                  /\ ~TestCaller(t.uid)}
  OBVIOUS
<1> DEFINE gap(t) == [symbol |-> t, severity |-> CASE InDegree(t.uid) > ManyCallers -> "high"
                                                   [] InDegree(t.uid) > FewCallers  -> "medium"
                                                   [] OTHER                         -> "low"]
<1>1. Untested = {gap(t) : t \in T}
  BY Zenon DEF Untested
<1>2. \A t : gap(t).symbol = t
  OBVIOUS
<1>3. s \in T <=> s \in Callable /\ ~IsTest(s) /\ s.uid \in Targets(CallRows) /\ ~TestCaller(s.uid)
  OBVIOUS
<1> HIDE DEF gap
<1>4. (\E g \in Untested : g.symbol = s) <=> s \in T
  BY <1>1, <1>2
<1> QED BY <1>3, <1>4

LEMMA JudgedHolds == EveryFunctionIsJudged
<1> SUFFICES ASSUME NEW s \in Callable, ~IsTest(s)
             PROVE  LET dead     == s \in FindDeadCode({})
                        untested == s \in {g.symbol : g \in Untested}
                        tested   == TestCaller(s.uid)
                    IN  /\ dead \/ untested \/ tested
                        /\ ~(dead /\ untested) /\ ~(dead /\ tested) /\ ~(untested /\ tested)
  BY DEF EveryFunctionIsJudged
<1>1. s \in FindDeadCode({}) <=> s.uid \notin Targets(CallRows)
  BY DEF FindDeadCode
<1>2. s \in {g.symbol : g \in Untested} <=> \E g \in Untested : g.symbol = s
  OBVIOUS
<1>3. s \in {g.symbol : g \in Untested} <=> s.uid \in Targets(CallRows) /\ ~TestCaller(s.uid)
  BY <1>2, UntestedAre
<1>4. TestCaller(s.uid) => s.uid \in Targets(CallRows)
  BY TestedIsCalled
<1> QED BY <1>1, <1>3, <1>4

LEMMA CoverageHolds == CoverageIsAGap
<1> SUFFICES ASSUME AskedOfCoverage # {}, NEW s \in Callable, s \notin FindDeadCode({})
             PROVE  \E g \in Untested : g.symbol = s
  BY DEF CoverageIsAGap
<1>1. \A t \in Table : ~IsTest(t)
  BY DEF AskedOfCoverage
<1>2. s.uid \in Targets(CallRows) /\ s \in Table
  BY DEF FindDeadCode, Callable
<1>3. ~TestCaller(s.uid)
  <2>1. ASSUME NEW u \in Uids PROVE SymbolOf(u) \in Table
    <3>1. \E t \in Table : t.uid = u
      BY DEF Uids
    <3> QED BY <3>1 DEF SymbolOf
  <2> QED BY <1>1, <2>1 DEF TestCaller
<1> QED BY <1>1, <1>2, <1>3, UntestedAre

\* The direct callers of a symbol.
LEMMA DirectCallers ==
  ASSUME EdgesInv, NEW u \in Uids
  PROVE  GetCallers(u, 1) = {<<e.source, 1>> : e \in {r \in To(CallRows, u) : r.source \in Uids \ {u}}}
<1>1. u \in RowEnds /\ 1..1 = {1}
  BY DEF RowEnds
<1>2. Layers(CallersOf, {u}, 1)[1] = CallersOf[u] \ {u}
  BY <1>1, CallNeighbours, FirstLayer
<1>3. CallersOf[u] = {e.source : e \in To(CallRows, u)}
  BY <1>1 DEF CallersOf, Sources, RowEnds
<1>4. GetCallers(u, 1) = Reported(Layers(CallersOf, {u}, 1), 1)
  BY DEF GetCallers, CallersOf
<1> PICK l : l = Layers(CallersOf, {u}, 1)
  OBVIOUS
<1>5. Reported(l, 1) = {x \in Uids \X {1} : x[1] \in l[x[2]]}
  BY <1>1 DEF Reported
<1>6. Reported(l, 1) = {<<v, 1>> : v \in Uids \cap l[1]}
  <2>1. ASSUME NEW x \in Uids \X {1}, x[1] \in l[x[2]]
        PROVE  x \in {<<v, 1>> : v \in Uids \cap l[1]}
    <3>1. x[2] = 1 /\ x[1] \in Uids /\ x = <<x[1], x[2]>>
      OBVIOUS
    <3> PICK v : v = x[1]
      OBVIOUS
    <3>2. v \in Uids \cap l[1] /\ x = <<v, 1>>
      BY <2>1, <3>1
    <3> QED BY <3>2
  <2>2. ASSUME NEW v \in Uids \cap l[1] PROVE <<v, 1>> \in Uids \X {1} /\ <<v, 1>>[1] \in l[<<v, 1>>[2]]
    OBVIOUS
  <2> QED BY <1>5, <2>1, <2>2
<1>7. l[1] = {e.source : e \in To(CallRows, u)} \ {u}
  BY <1>2, <1>3
<1>8. GetCallers(u, 1) = {<<v, 1>> : v \in Uids \cap l[1]}
  BY <1>4, <1>6
<1> PICK C : C = To(CallRows, u)
  OBVIOUS
<1>9. l[1] = {e.source : e \in C} \ {u}
  BY <1>7
<1>10. Uids \cap l[1] = {e.source : e \in {r \in C : r.source \in Uids \ {u}}}
  BY ONLY <1>9
<1>11. {<<v, 1>> : v \in {e.source : e \in {r \in C : r.source \in Uids \ {u}}}}
          = {<<e.source, 1>> : e \in {r \in C : r.source \in Uids \ {u}}}
  BY ONLY Zenon
<1> QED BY <1>8, <1>10, <1>11

LEMMA ServersHold == EdgesInv => ServersAgreeOnCalls
<1> SUFFICES ASSUME EdgesInv PROVE ServersAgreeOnCalls
  OBVIOUS
<1>1. FindDeadCode({}) \subseteq EntryPoints
  BY DEF FindDeadCode, EntryPoints, Callable
<1>2. ASSUME NEW u \in Uids
      PROVE  {x[1] : x \in GetCallers(u, 1)} = Sources({e \in SymbolCallers(u) : e.kind = "Calls"}) \ {u}
  <2> PICK R : R = {r \in To(CallRows, u) : r.source \in Uids \ {u}}
    OBVIOUS
  <2>1. GetCallers(u, 1) = {<<e.source, 1>> : e \in R}
    BY DirectCallers
  <2>2. {x[1] : x \in GetCallers(u, 1)} = {e.source : e \in R}
    <3> PICK C : C = GetCallers(u, 1)
      OBVIOUS
    <3>1. \A x : x \in C <=> \E e \in R : x = <<e.source, 1>>
      BY <2>1
    <3>2. \A x \in C : \E e \in R : x[1] = e.source
      BY <3>1
    <3>3. \A e \in R : \E x \in C : x[1] = e.source
      <4>1. ASSUME NEW e \in R PROVE \E x \in C : x[1] = e.source
        <5>1. <<e.source, 1>> \in C /\ <<e.source, 1>>[1] = e.source
          BY <3>1
        <5> QED BY <5>1
      <4> QED BY <4>1
    <3> QED BY <3>2, <3>3
  <2>3. R = {e \in edges : e.kind = "Calls" /\ e.target = u /\ e.source \in Uids /\ e.source # u}
    BY DEF To, CallRows, Rels
  <2>4. Sources({e \in SymbolCallers(u) : e.kind = "Calls"})
           = {e.source : e \in {r \in edges : r.kind = "Calls" /\ r.target = u /\ r.source \in Uids}}
    BY DEF Sources, SymbolCallers, To
  <2>5. {e.source : e \in R} = {e.source : e \in {r \in edges : r.kind = "Calls" /\ r.target = u /\ r.source \in Uids}} \ {u}
    BY <2>3
  <2> QED BY <2>2, <2>4, <2>5
<1> QED BY <1>1, <1>2 DEF ServersAgreeOnCalls

LEMMA DegreesHold == EdgesInv => DegreesAreCalls
<1> SUFFICES ASSUME EdgesInv, NEW s \in Table
             PROVE  /\ InDegree(s.uid) = 0 <=> s \in EntryPoints
                    /\ InDegree(s.uid) >= Cardinality(GetCallers(s.uid, 1))
  BY DEF DegreesAreCalls
<1> PICK u, T : u = s.uid /\ T = To(CallRows, u)
  OBVIOUS
<1>1. u \in Uids
  BY DEF Uids
<1>2. T \in SUBSET edges
  BY DEF To, CallRows, Rels
<1>3. IsFiniteSet(T)
  BY <1>2, FS_Subset DEF EdgesInv
<1>4. InDegree(u) = Cardinality(T) /\ Cardinality(T) \in Nat
  BY <1>3, FS_CardinalityType DEF InDegree
<1>5. InDegree(u) = 0 <=> T = {}
  BY <1>3, <1>4, FS_EmptySet
<1>6. T = {} <=> u \notin Targets(CallRows)
  BY DEF To, Targets
<1>7. s \in EntryPoints <=> u \notin Targets(CallRows)
  BY DEF EntryPoints
<1> PICK R : R = {r \in T : r.source \in Uids \ {u}}
  OBVIOUS
<1>8. GetCallers(u, 1) = {<<e.source, 1>> : e \in R}
  BY <1>1, DirectCallers
<1>9. R \in SUBSET T
  OBVIOUS
<1>10. IsFiniteSet(R) /\ Cardinality(R) <= Cardinality(T)
  BY <1>3, <1>9, FS_Subset
<1>11. IsFiniteSet(GetCallers(u, 1)) /\ Cardinality(GetCallers(u, 1)) <= Cardinality(R)
  <2> PICK C : C = GetCallers(u, 1)
    OBVIOUS
  <2> DEFINE f == [e \in R |-> <<e.source, 1>>]
  <2>1. f \in Surjection(R, C)
    BY <1>8 DEF Surjection
  <2> HIDE DEF f
  <2>2. IsFiniteSet(C) /\ Cardinality(C) <= Cardinality(R)
    BY <1>10, <2>1, FS_Surjection
  <2> QED BY <2>2
<1>12. Cardinality(GetCallers(u, 1)) \in Nat /\ Cardinality(R) \in Nat
  BY <1>10, <1>11, FS_CardinalityType
<1> QED BY <1>4, <1>5, <1>6, <1>7, <1>10, <1>11, <1>12

-----------------------------------------------------------------------------
\* What is seen stays seen, and only what is next to it is added.
LEMMA SeenStays ==
  ASSUME NEW near, NEW n \in Nat, NEW seen, SeesNext(near, seen, n)
  PROVE  \A d \in 0..n : seen[0] \subseteq seen[d]
<1> DEFINE T == {d \in Nat : d <= n => seen[0] \subseteq seen[d]}
<1>1. 0 \in T
  OBVIOUS
<1>2. ASSUME NEW d \in T PROVE d + 1 \in T
  <2>1. ASSUME NEW e \in 0..n, e = d + 1 PROVE seen[0] \subseteq seen[e]
    <3>1. d \in 0..n /\ seen[0] \subseteq seen[d]
      BY <2>1
    <3>2. seen[e] = seen[d] \cup Beside(near, seen[d])
      BY <2>1, <3>1 DEF SeesNext
    <3>3. seen[d] \subseteq seen[e]
      BY ONLY <3>2
    <3> QED BY <3>1, <3>3
  <2>2. d + 1 <= n => seen[0] \subseteq seen[d + 1]
    <3> PICK e : e = d + 1
      OBVIOUS
    <3>1. e \in Nat /\ (e <= n => e \in 0..n)
      OBVIOUS
    <3> HIDE DEF T
    <3> QED BY <2>1, <3>1
  <2>3. d + 1 \in Nat
    OBVIOUS
  <2> QED BY <2>2, <2>3
<1>3. \A d \in Nat : d \in T
  <2>1. T \subseteq Nat
    OBVIOUS
  <2> HIDE DEF T
  <2> QED BY <1>1, <1>2, <2>1, Counting
<1> QED BY <1>3

\* What is seen is in every set that has the start and what is next to its elements.
LEMMA SeenIsLeast ==
  ASSUME NEW near, NEW n \in Nat, NEW seen, SeesNext(near, seen, n),
         NEW S, seen[0] \subseteq S, \A x \in S : near[x] \subseteq S
  PROVE  \A d \in 0..n : seen[d] \subseteq S
<1> DEFINE T == {d \in Nat : d <= n => seen[d] \subseteq S}
<1>1. 0 \in T
  OBVIOUS
<1>2. ASSUME NEW d \in T PROVE d + 1 \in T
  <2>1. ASSUME NEW e \in 0..n, e = d + 1 PROVE seen[e] \subseteq S
    <3>1. d \in 0..n /\ seen[d] \subseteq S
      BY <2>1
    <3>2. seen[e] = seen[d] \cup Beside(near, seen[d])
      BY <2>1, <3>1 DEF SeesNext
    <3>3. Beside(near, seen[d]) \subseteq S
      BY <3>1, BesideIs
    <3> QED BY <3>1, <3>2, <3>3
  <2>2. d + 1 <= n => seen[d + 1] \subseteq S
    <3> PICK e : e = d + 1
      OBVIOUS
    <3>1. e \in Nat /\ (e <= n => e \in 0..n)
      OBVIOUS
    <3> HIDE DEF T
    <3> QED BY <2>1, <3>1
  <2>3. d + 1 \in Nat
    OBVIOUS
  <2> QED BY <2>2, <2>3
<1>3. \A d \in Nat : d \in T
  <2>1. T \subseteq Nat
    OBVIOUS
  <2> HIDE DEF T
  <2> QED BY <1>1, <1>2, <2>1, Counting
<1> QED BY <1>3

\* What was seen are the layers so far.
LEMMA SeenAreLayers ==
  ASSUME NEW n \in Nat, NEW at, NEW seen, NEW near, at[0] = seen[0], NewAt(at, seen, n),
         SeesNext(near, seen, n)
  PROVE  \A d \in 0..n : \A w : w \in seen[d] <=> \E e \in 0..d : w \in at[e]
<1> DEFINE good(d) == \A w : w \in seen[d] <=> \E e \in 0..d : w \in at[e]
           T == {d \in Nat : d <= n => good(d)}
<1>1. 0 \in T
  <2>1. 0..0 = {0}
    OBVIOUS
  <2> QED BY <2>1
<1>2. ASSUME NEW d \in T PROVE d + 1 \in T
  <2>1. ASSUME NEW e \in 0..n, e = d + 1 PROVE good(e)
    <3>1. d \in 0..n /\ good(d)
      BY <2>1
    <3>2. at[e] = seen[e] \ seen[d] /\ seen[e] = seen[d] \cup Beside(near, seen[d])
      BY <2>1, <3>1 DEF SeesNext, NewAt
    <3>3. \A w : w \in seen[e] <=> w \in seen[d] \/ w \in at[e]
      BY ONLY <3>2
    <3>4. \A i : i \in 0..e <=> i \in 0..d \/ i = e
      BY <2>1
    <3> QED BY <3>1, <3>3, <3>4
  <2>2. d + 1 <= n => good(d + 1)
    <3> PICK e : e = d + 1
      OBVIOUS
    <3>1. e \in Nat /\ (e <= n => e \in 0..n)
      OBVIOUS
    <3> HIDE DEF T, good
    <3> QED BY <2>1, <3>1
  <2>3. d + 1 \in Nat
    OBVIOUS
  <2> HIDE DEF good
  <2> QED BY <2>2, <2>3
<1>3. \A d \in Nat : d \in T
  <2>1. T \subseteq Nat
    OBVIOUS
  <2> HIDE DEF T
  <2> QED BY <1>1, <1>2, <2>1, Counting
<1>4. ASSUME NEW d \in 0..n PROVE good(d)
  <2>1. d \in T /\ d <= n
    BY <1>3
  <2> HIDE DEF good
  <2> QED BY <2>1
<1> HIDE DEF T
<1> QED BY <1>4

\* After as many layers as there are nodes nothing new is to be seen: a layer without a new
\* node is the last, and the others have one node at least.
LEMMA SeenIsClosed ==
  ASSUME NEW N, IsFiniteSet(N), NEW near \in [N -> SUBSET N], NEW n \in Nat, Cardinality(N) <= n,
         NEW seen \in [0..n -> SUBSET N], SeesNext(near, seen, n), NEW a, a \in seen[0]
  PROVE  \A x \in seen[n] : near[x] \subseteq seen[n]
<1> DEFINE closed(d) == \A x \in seen[d] : near[x] \subseteq seen[d]
           good(d) == closed(d) \/ Cardinality(seen[d]) >= d + 1
           T == {d \in Nat : d <= n => good(d)}
<1>1. \A d \in 0..n : IsFiniteSet(seen[d]) /\ Cardinality(seen[d]) \in Nat /\ Cardinality(seen[d]) <= Cardinality(N)
  <2> SUFFICES ASSUME NEW d \in 0..n
               PROVE  IsFiniteSet(seen[d]) /\ Cardinality(seen[d]) \in Nat /\ Cardinality(seen[d]) <= Cardinality(N)
    OBVIOUS
  <2>1. seen[d] \in SUBSET N
    OBVIOUS
  <2> QED BY <2>1, FS_Subset, FS_CardinalityType
<1>2. 0 \in T
  <2>1. 0 \in 0..n
    OBVIOUS
  <2>2. Cardinality(seen[0]) # 0
    BY <1>1, <2>1, FS_EmptySet
  <2>3. Cardinality(seen[0]) >= 0 + 1
    BY <1>1, <2>1, <2>2
  <2> HIDE DEF closed
  <2> QED BY <2>3
<1>3. ASSUME NEW d \in T PROVE d + 1 \in T
  <2>1. ASSUME NEW e \in 0..n, e = d + 1 PROVE good(e)
    <3>1. d \in 0..n /\ good(d)
      BY <2>1
    <3>2. seen[e] = seen[d] \cup Beside(near, seen[d])
      BY <2>1, <3>1 DEF SeesNext
    <3>3. \A w : w \in seen[e] <=> w \in seen[d] \/ w \in Beside(near, seen[d])
      BY ONLY <3>2
    <3>4. \A w : w \in Beside(near, seen[d]) <=> \E v \in seen[d] : w \in near[v]
      BY BesideIs
    <3>5. CASE closed(d)
      <4>1. \A w : w \in seen[e] <=> w \in seen[d]
        BY <3>3, <3>4, <3>5
      <4>2. closed(e)
        BY <3>5, <4>1
      <4> HIDE DEF closed
      <4> QED BY <4>2
    <3>6. CASE ~closed(d)
      <4>1. PICK v \in seen[d] : \E y \in near[v] : y \notin seen[d]
        BY <3>6
      <4>2. PICK y \in near[v] : y \notin seen[d]
        BY <4>1
      <4>3. y \in seen[e] /\ seen[d] \subseteq seen[e]
        BY <3>3, <3>4, <4>2
      <4> HIDE DEF closed
      <4> PICK A, B : A = seen[d] /\ B = seen[e]
        OBVIOUS
      <4>4. A \in SUBSET B /\ A # B
        BY <4>2, <4>3
      <4>5. IsFiniteSet(B) /\ Cardinality(B) \in Nat /\ Cardinality(A) \in Nat
        BY <1>1, <3>1
      <4>6. Cardinality(A) <= Cardinality(B) /\ Cardinality(A) # Cardinality(B)
        BY <4>4, <4>5, FS_Subset
      <4>7. Cardinality(A) >= d + 1
        BY <3>1, <3>6
      <4>8. Cardinality(B) >= e + 1
        BY <2>1, <3>1, <4>5, <4>6, <4>7
      <4> QED BY <4>8
    <3> HIDE DEF closed, good
    <3> QED BY <3>5, <3>6
  <2>2. d + 1 <= n => good(d + 1)
    <3> PICK e : e = d + 1
      OBVIOUS
    <3>1. e \in Nat /\ (e <= n => e \in 0..n)
      OBVIOUS
    <3> HIDE DEF T, good
    <3> QED BY <2>1, <3>1
  <2>3. d + 1 \in Nat
    OBVIOUS
  <2> HIDE DEF good
  <2> QED BY <2>2, <2>3
<1>4. \A d \in Nat : d \in T
  <2>1. T \subseteq Nat
    OBVIOUS
  <2> HIDE DEF T
  <2> QED BY <1>2, <1>3, <2>1, Counting
<1>5. good(n)
  <2> HIDE DEF good
  <2> QED BY <1>4
<1>6. Cardinality(seen[n]) <= Cardinality(N) /\ Cardinality(seen[n]) \in Nat /\ Cardinality(N) \in Nat
  <2>1. n \in 0..n
    OBVIOUS
  <2> QED BY <1>1, <2>1, FS_CardinalityType
<1>7. closed(n)
  <2> HIDE DEF closed
  <2> QED BY <1>5, <1>6
<1> QED BY <1>7

-----------------------------------------------------------------------------
\* A set that has the neighbours of its elements.
Closed(near, S) == \A x \in S : near[x] \subseteq S

\* All layers, and those after the start.
AllOf(near, a, n)   == UNION Range(Layers(near, {a}, n))
LaterOf(near, a, n) == UNION {Layers(near, {a}, n)[d] : d \in 1..n}

\* As many layers as there are nodes are all that can be reached.
LEMMA AllLayers ==
  ASSUME NEW N, IsFiniteSet(N), NEW near \in [N -> SUBSET N], NEW n \in Nat, Cardinality(N) <= n,
         NEW a \in N
  PROVE  /\ a \in AllOf(near, a, n) /\ AllOf(near, a, n) \subseteq N
         /\ Closed(near, AllOf(near, a, n))
         /\ \A S : a \in S /\ Closed(near, S) => AllOf(near, a, n) \subseteq S
         /\ LaterOf(near, a, n) = AllOf(near, a, n) \ {a}
<1> PICK all : all = AllOf(near, a, n)
  OBVIOUS
<1>0. PICK A, l : A = {a} /\ l = Layers(near, A, n)
  OBVIOUS
<1>1. A \in SUBSET N
  BY <1>0
<1>2. DOMAIN l = 0..n /\ l[0] = A
  BY <1>0, <1>1, LayersAre
<1>3. PICK seen \in [0..n -> SUBSET N] : seen[0] = A /\ NewAt(l, seen, n) /\ SeesNext(near, seen, n)
  <2>1. \E seen \in [0..n -> SUBSET N] :
           seen[0] = A /\ NewAt(Layers(near, A, n), seen, n) /\ SeesNext(near, seen, n)
    BY <1>1, LayersAre
  <2> QED BY <1>0, <2>1
<1>4. \A d \in 0..n : \A w : w \in seen[d] <=> \E e \in 0..d : w \in l[e]
  BY <1>2, <1>3, SeenAreLayers
<1>5. n \in 0..n /\ 0 \in 0..n
  OBVIOUS
<1>6. \A w : w \in all <=> w \in seen[n]
  <2>1. \A w : w \in all <=> \E e \in DOMAIN l : w \in l[e]
    BY <1>0 DEF Range, AllOf
  <2> QED BY <1>2, <1>4, <1>5, <2>1
<1>7. all = seen[n]
  BY <1>6
<1>8. a \in seen[0]
  BY <1>0, <1>3
<1>9. a \in all /\ all \subseteq N
  <2>1. seen[0] \subseteq seen[n]
    BY <1>3, <1>5, SeenStays
  <2> QED BY <1>5, <1>7, <1>8, <2>1
<1>10. Closed(near, all)
  <2>1. \A x \in seen[n] : near[x] \subseteq seen[n]
    BY <1>3, <1>8, SeenIsClosed
  <2> QED BY <1>7, <2>1 DEF Closed
<1>11. ASSUME NEW S, a \in S, Closed(near, S) PROVE all \subseteq S
  <2>1. seen[0] \subseteq S
    BY <1>0, <1>3, <1>11
  <2>2. \A x \in S : near[x] \subseteq S
    BY <1>11 DEF Closed
  <2>3. \A d \in 0..n : seen[d] \subseteq S
    BY <1>3, <2>1, <2>2, SeenIsLeast
  <2> QED BY <1>5, <1>7, <2>3
<1>12. \A w : w \in UNION {l[d] : d \in 1..n} <=> w \in all /\ w # a
  <2>1. \A w : w \in UNION {l[d] : d \in 1..n} <=> \E d \in 1..n : w \in l[d]
    OBVIOUS
  <2>2. ASSUME NEW w, NEW d \in 1..n, w \in l[d] PROVE w \in all /\ w # a
    <3>1. d \in 0..n
      OBVIOUS
    <3>2. w \in all
      BY <1>4, <1>5, <1>7, <2>2, <3>1
    <3>3. PICK c \in 0..n : d = c + 1
      <4>1. d - 1 \in 0..n /\ d = (d - 1) + 1
        OBVIOUS
      <4> QED BY <4>1
    <3>4. l[d] = seen[d] \ seen[c]
      BY <1>3, <3>1, <3>3 DEF NewAt
    <3>5. seen[0] \subseteq seen[c]
      BY <1>3, <3>3, SeenStays
    <3> QED BY <1>8, <2>2, <3>2, <3>4, <3>5
  <2>3. ASSUME NEW w \in all, w # a PROVE \E d \in 1..n : w \in l[d]
    <3>1. PICK e \in 0..n : w \in l[e]
      BY <1>4, <1>5, <1>7
    <3>2. e # 0
      BY <1>0, <1>2, <2>3, <3>1
    <3>3. e \in 1..n
      BY <3>2
    <3> QED BY <3>1, <3>3
  <2> QED BY <2>1, <2>2, <2>3
<1>13. UNION {l[d] : d \in 1..n} = all \ {a}
  BY <1>12
<1>14. l = Layers(near, {a}, n)
  BY <1>0
<1>15. LaterOf(near, a, n) = all \ {a}
  BY ONLY <1>13, <1>14 DEF LaterOf
<1> QED BY <1>9, <1>10, <1>11, <1>15

-----------------------------------------------------------------------------
\* The table is one of those it may be, with finitely many rows.
GraphInv == EdgesInv /\ symbols \in Tables

LEMMA GraphInvInit == GraphInit => GraphInv
BY EdgesInvInit DEF GraphInit, GraphInv

LEMMA GraphInvStep == GraphInv /\ [CommunityNext]_graphVars => GraphInv'
<1> SUFFICES ASSUME GraphInv, [CommunityNext]_graphVars PROVE GraphInv'
  OBVIOUS
<1>1. CASE [Connect]_graphVars
  <2>1. symbols' = symbols
    BY <1>1 DEF Connect, graphVars
  <2> QED BY <1>1, <2>1, EdgesInvStep DEF GraphInv
<1>2. CASE Detect
  <2>1. symbols' = symbols /\ edges' = edges
    BY <1>2 DEF Detect
  <2> QED BY <2>1 DEF GraphInv, EdgesInv, RowEnds, Uids, Table, Range, Resolved, FileRow
<1> QED BY <1>1, <1>2 DEF CommunityNext

LEMMA FewSymbols ==
  ASSUME GraphInv
  PROVE  /\ IsFiniteSet(Uids) /\ IsFiniteSet(RowEnds) /\ Cardinality(Uids) \in Nat
         /\ Cardinality(RowEnds) <= Cardinality(Uids) + 1
<1>1. IsFiniteSet(Uids)
  <2> DEFINE uid == [i \in DOMAIN symbols |-> symbols[i].uid]
  <2>1. \A i \in DOMAIN symbols : uid[i] = symbols[i].uid
    OBVIOUS
  <2> HIDE DEF uid
  <2>2. Uids = {uid[i] : i \in DOMAIN symbols}
    BY <2>1 DEF Uids, Table, Range
  <2> QED BY <2>2, TableIsSequence, FiniteImage DEF GraphInv
<1>2. PICK U : U = Uids
  OBVIOUS
<1>3. IsFiniteSet(U) /\ Cardinality(U) \in Nat
  BY <1>1, <1>2, FS_CardinalityType
<1>4. IsFiniteSet(U \cup {Gone}) /\ Cardinality(U \cup {Gone}) <= Cardinality(U) + 1
  BY <1>3, FS_AddElement
<1>5. RowEnds = U \cup {Gone}
  BY <1>2 DEF RowEnds
<1> QED BY <1>2, <1>3, <1>4, <1>5

-----------------------------------------------------------------------------
\* What is next to a symbol along some rows.
Along(rows) == [v \in Uids \cup {Gone} |-> Targets(From(rows, v))]

LEMMA AlongRows ==
  ASSUME GraphInv, NEW rows, rows \subseteq Resolved
  PROVE  /\ Along(rows) \in [RowEnds -> SUBSET RowEnds]
         /\ \A v \in RowEnds : \A w : w \in Along(rows)[v] <=> \E e \in rows : e.source = v /\ e.target = w
         /\ Ends(rows) \subseteq RowEnds
<1>1. \A v : Targets(From(rows, v)) \subseteq RowEnds
  BY RowsLead DEF GraphInv, Targets, From
<1>2. Along(rows) \in [RowEnds -> SUBSET RowEnds]
  BY <1>1 DEF Along, RowEnds
<1>3. \A v \in RowEnds : Along(rows)[v] = Targets(From(rows, v))
  BY DEF Along, RowEnds
<1>4. \A v : \A w : w \in Targets(From(rows, v)) <=> \E e \in rows : e.source = v /\ e.target = w
  BY DEF Targets, From
<1>5. Ends(rows) \subseteq RowEnds
  BY RowsLead DEF GraphInv, Ends, Sources, Targets
<1> QED BY <1>2, <1>3, <1>4, <1>5

\* Reach is all that can be reached.
LEMMA ReachIs ==
  ASSUME GraphInv, NEW rows, rows \subseteq Resolved, NEW u \in RowEnds
  PROVE  /\ u \in Reach(rows, u) /\ Reach(rows, u) \subseteq RowEnds
         /\ Closed(Along(rows), Reach(rows, u))
         /\ \A S : u \in S /\ Closed(Along(rows), S) => Reach(rows, u) \subseteq S
<1> PICK n : n = Cardinality(Uids) + 1
  OBVIOUS
<1>1. n \in Nat /\ IsFiniteSet(RowEnds) /\ Cardinality(RowEnds) <= n
  BY FewSymbols
<1>2. Along(rows) \in [RowEnds -> SUBSET RowEnds]
  BY AlongRows
<1>3. Reach(rows, u) = UNION Range(Layers(Along(rows), {u}, n))
  BY DEF Reach, Along
<1> PICK N, near, all : N = RowEnds /\ near = Along(rows) /\ all = AllOf(near, u, n)
  OBVIOUS
<1>4. /\ u \in all /\ all \subseteq N /\ Closed(near, all)
      /\ \A S : u \in S /\ Closed(near, S) => all \subseteq S
  <2>1. IsFiniteSet(N) /\ near \in [N -> SUBSET N] /\ n \in Nat /\ Cardinality(N) <= n /\ u \in N
    BY <1>1, <1>2
  <2> QED BY <2>1, AllLayers
<1>5. Reach(rows, u) = all
  BY <1>3 DEF AllOf
<1> QED BY <1>4, <1>5

\* What can be reached from what can be reached.
LEMMA ReachOn ==
  ASSUME GraphInv, NEW rows, rows \subseteq Resolved, NEW u \in RowEnds, NEW v \in Reach(rows, u)
  PROVE  Reach(rows, v) \subseteq Reach(rows, u)
<1>1. v \in RowEnds /\ Closed(Along(rows), Reach(rows, u))
  BY ReachIs
<1> QED BY <1>1, ReachIs

-----------------------------------------------------------------------------
\* Rows of calls that are no recursion: the search along them finds what one along all calls
\* finds.
CallsOn == CycleRows({"Calls", "Imports"})

LEMMA CallsAre ==
  ASSUME GraphInv
  PROVE  CallsOn = Proper(CallRows) /\ CallsOn \subseteq Resolved
<1>1. CallsOn = Proper(Rels({"Calls"})) \cup Proper(Rels({"Imports"}))
  BY DEF CallsOn, CycleRows, Proper, Rels
<1>2. Rels({"Imports"}) = {} /\ CallRows \subseteq Resolved
  BY RowsLead DEF GraphInv
<1>3. Proper(Rels({"Imports"})) = {}
  BY <1>2 DEF Proper
<1> QED BY <1>1, <1>2, <1>3 DEF CallRows, Proper

\* The graph of cycles is never refused.
LEMMA CyclesAre ==
  ASSUME GraphInv
  PROVE  /\ DetectCycles({"Calls", "Imports"}, 2) = {c \in Circles(CallsOn) : Cardinality(c) >= 2}
         /\ DetectCycles({"Calls", "Imports"}, 2) # Refusal
<1>1. CallsOn = Proper(CallRows) /\ CallsOn \subseteq Resolved
  BY CallsAre
<1>2. ASSUME NEW e \in CallsOn, NEW f \in CallsOn, e # f, e.source = f.source, e.target = f.target
      PROVE  FALSE
  <2>1. e.kind = f.kind /\ e \in edges /\ f \in edges
    BY <1>1 DEF Proper, CallRows, Rels
  <2>2. Alike(e, f)
    BY <1>2, <2>1 DEF Alike
  <2> QED BY <1>2, <2>1, <2>2 DEF GraphInv, EdgesInv
<1>3. ~RefusedDirected(CallsOn)
  BY <1>2 DEF RefusedDirected
<1>4. Max({2, 2}) = 2
  BY DEF Max
<1>5. PICK cycles : cycles = {c \in Circles(CallsOn) : Cardinality(c) >= 2}
  OBVIOUS
<1>6. DetectCycles({"Calls", "Imports"}, 2) = cycles
  BY <1>3, <1>4, <1>5 DEF DetectCycles, CallsOn
<1>7. cycles # Refusal
  <2>1. Ends(CallsOn) \subseteq RowEnds
    BY <1>1, AlongRows
  <2>2. Circles(CallsOn) \subseteq SUBSET RowEnds
    BY <2>1 DEF Circles
  <2>3. RowEnds \subseteq {s.uid : s \in UNION {Range(t) : t \in Tables}} \cup {Gone}
    BY DEF GraphInv, RowEnds, Uids, Table
  <2>4. PICK U : U = {s.uid : s \in UNION {Range(t) : t \in Tables}} \cup {Gone}
    OBVIOUS
  <2>5. cycles \in SUBSET SUBSET U
    BY <1>5, <2>2, <2>3, <2>4
  <2> QED BY <2>4, <2>5, RefusalAssumption
<1> QED BY <1>5, <1>6, <1>7

\* What reaches another symbol has a row.
LEMMA ReachingHasRow ==
  ASSUME GraphInv, NEW rows, rows \subseteq Resolved, NEW u \in RowEnds, NEW v \in Reach(rows, u), u # v
  PROVE  u \in Ends(rows)
<1> SUFFICES ASSUME u \notin Ends(rows) PROVE FALSE
  OBVIOUS
<1>1. Along(rows)[u] = {}
  <2>1. \A w : w \in Along(rows)[u] <=> \E e \in rows : e.source = u /\ e.target = w
    BY AlongRows
  <2> QED BY <2>1 DEF Ends, Sources
<1>2. Closed(Along(rows), {u})
  BY <1>1 DEF Closed
<1>3. u \in {u}
  OBVIOUS
<1>4. Reach(rows, u) \subseteq {u}
  BY <1>2, <1>3, ReachIs
<1> QED BY <1>4

\* Two that reach each other are in one cycle, and only they.
LEMMA CyclesAreMutual ==
  ASSUME GraphInv, NEW u \in RowEnds, NEW v \in RowEnds, u # v
  PROVE  (\E c \in DetectCycles({"Calls", "Imports"}, 2) : {u, v} \subseteq c)
            <=> v \in Reach(CallsOn, u) /\ u \in Reach(CallsOn, v)
<1>0. PICK rows, cycles : rows = CallsOn /\ cycles = DetectCycles({"Calls", "Imports"}, 2)
  OBVIOUS
<1>1. rows \subseteq Resolved /\ cycles = {c \in Circles(rows) : Cardinality(c) >= 2}
  BY <1>0, CallsAre, CyclesAre
<1>2. Ends(rows) \subseteq RowEnds
  BY <1>1, AlongRows
<1>3. ASSUME NEW c \in cycles, {u, v} \subseteq c
      PROVE  v \in Reach(rows, u) /\ u \in Reach(rows, v)
  <2>1. PICK w \in Ends(rows) : c = {x \in Ends(rows) : x \in Reach(rows, w) /\ w \in Reach(rows, x)}
    BY <1>1 DEF Circles
  <2>2. w \in RowEnds /\ w \in Reach(rows, u) /\ w \in Reach(rows, v) /\ u \in Reach(rows, w) /\ v \in Reach(rows, w)
    BY <1>2, <1>3, <2>1
  <2>3. Reach(rows, w) \subseteq Reach(rows, u) /\ Reach(rows, w) \subseteq Reach(rows, v)
    BY <1>1, <2>2, ReachOn
  <2> QED BY <2>2, <2>3
<1>4. ASSUME v \in Reach(rows, u), u \in Reach(rows, v)
      PROVE  \E c \in cycles : {u, v} \subseteq c
  <2>1. u \in Ends(rows) /\ v \in Ends(rows)
    BY <1>1, <1>4, ReachingHasRow
  <2>2. PICK c : c = {x \in Ends(rows) : x \in Reach(rows, u) /\ u \in Reach(rows, x)}
    OBVIOUS
  <2>3. c \in Circles(rows)
    BY <2>1, <2>2 DEF Circles
  <2>4. u \in Reach(rows, u)
    BY <1>1, ReachIs
  <2>5. {u, v} \subseteq c /\ c \subseteq RowEnds
    BY <1>2, <1>4, <2>1, <2>2, <2>4
  <2>6. IsFiniteSet(c) /\ Cardinality(c) \in Nat
    BY <2>5, FewSymbols, FS_Subset, FS_CardinalityType
  <2>7. Cardinality(c) >= 2
    <3>1. IsFiniteSet(c \ {u}) /\ Cardinality(c \ {u}) = Cardinality(c) - 1
      BY <2>5, <2>6, FS_RemoveElement
    <3>2. v \in c \ {u}
      BY <2>5
    <3>3. Cardinality(c \ {u}) # 0
      BY <3>1, <3>2, FS_EmptySet
    <3>4. Cardinality(c) - 1 \in Nat
      BY <3>1, FS_CardinalityType
    <3> QED BY <2>6, <3>1, <3>3, <3>4
  <2> QED BY <1>1, <2>3, <2>5, <2>7
<1> QED BY <1>0, <1>3, <1>4

\* get_callers, asked as deep as there are uids, has all that reach a symbol.
LEMMA CallersReach ==
  ASSUME GraphInv, NEW u \in Uids, NEW v \in Uids, u # v
  PROVE  v \in {x[1] : x \in GetCallers(u, Cardinality(Uids) + 1)} <=> u \in Reach(CallsOn, v)
<1>0. PICK n, N : n = Cardinality(Uids) + 1 /\ N = RowEnds
  OBVIOUS
<1>1. n \in Nat /\ IsFiniteSet(N) /\ Cardinality(N) <= n /\ u \in N /\ v \in N
  BY <1>0, FewSymbols DEF RowEnds
<1>2. /\ CallersOf \in [N -> SUBSET N] /\ CalleesOf \in [N -> SUBSET N]
      /\ \A x, y \in N : y \in CallersOf[x] <=> x \in CalleesOf[y]
  BY <1>0, CallNeighbours DEF GraphInv
<1>3. PICK layers, found : layers = Layers(CallersOf, {u}, n) /\ found = Reported(layers, n)
  OBVIOUS
<1>4. GetCallers(u, n) = found
  BY <1>3 DEF GetCallers, CallersOf
<1>5. v \in {x[1] : x \in found} <=> \E d \in 1..n : v \in layers[d]
  <2>1. \A x : x \in found <=> x \in Uids \X (1..n) /\ x[1] \in layers[x[2]]
    BY <1>3 DEF Reported
  <2>2. ASSUME NEW d \in 1..n, v \in layers[d] PROVE v \in {x[1] : x \in found}
    <3>1. PICK x : x = <<v, d>>
      OBVIOUS
    <3>2. x \in found /\ x[1] = v
      BY <2>1, <2>2, <3>1
    <3> QED BY <3>2
  <2>3. ASSUME NEW x \in found, x[1] = v PROVE \E d \in 1..n : v \in layers[d]
    BY <2>1, <2>3
  <2> QED BY <2>2, <2>3
<1>6. \A d \in 1..n : v \in layers[d] <=> u \in Layers(CalleesOf, {v}, n)[d]
  BY <1>1, <1>2, <1>3, LayersMirror
<1>7. PICK all : all = AllOf(CalleesOf, v, n)
  OBVIOUS
<1>8. /\ v \in all /\ all \subseteq N /\ Closed(CalleesOf, all)
      /\ \A S : v \in S /\ Closed(CalleesOf, S) => all \subseteq S
      /\ LaterOf(CalleesOf, v, n) = all \ {v}
  BY <1>1, <1>2, <1>7, AllLayers
<1>9. (\E d \in 1..n : v \in layers[d]) <=> u \in all
  <2>1. u \in LaterOf(CalleesOf, v, n) <=> \E d \in 1..n : u \in Layers(CalleesOf, {v}, n)[d]
    BY DEF LaterOf
  <2> QED BY <1>6, <1>8, <2>1
<1>10. PICK rows : rows = CallsOn
  OBVIOUS
<1>11. rows = Proper(CallRows) /\ rows \subseteq Resolved
  BY <1>10, CallsAre
<1>12. ASSUME NEW x \in N PROVE Along(rows)[x] \subseteq CalleesOf[x] /\ CalleesOf[x] \subseteq Along(rows)[x] \cup {x}
  <2>1. \A w : w \in Along(rows)[x] <=> \E e \in rows : e.source = x /\ e.target = w
    BY <1>0, <1>11, AlongRows
  <2>2. CalleesOf[x] = Targets(From(CallRows, x))
    BY <1>0 DEF CalleesOf, RowEnds
  <2>3. \A w : w \in CalleesOf[x] <=> \E e \in CallRows : e.source = x /\ e.target = w
    BY <2>2 DEF Targets, From
  <2> QED BY <1>11, <2>1, <2>3 DEF Proper
<1>13. \A S \in SUBSET N : Closed(CalleesOf, S) <=> Closed(Along(rows), S)
  <2> SUFFICES ASSUME NEW S \in SUBSET N PROVE Closed(CalleesOf, S) <=> Closed(Along(rows), S)
    OBVIOUS
  <2>1. ASSUME NEW x \in S PROVE CalleesOf[x] \subseteq S <=> Along(rows)[x] \subseteq S
    BY <1>12
  <2> QED BY <2>1 DEF Closed
<1>14. /\ v \in Reach(rows, v) /\ Reach(rows, v) \subseteq N /\ Closed(Along(rows), Reach(rows, v))
       /\ \A S : v \in S /\ Closed(Along(rows), S) => Reach(rows, v) \subseteq S
  BY <1>0, <1>1, <1>11, ReachIs
<1>15. all = Reach(rows, v)
  <2>1. all \subseteq Reach(rows, v)
    BY <1>8, <1>13, <1>14
  <2>2. Reach(rows, v) \subseteq all
    BY <1>8, <1>13, <1>14
  <2> QED BY <2>1, <2>2
<1> QED BY <1>0, <1>4, <1>5, <1>9, <1>10, <1>15

LEMMA CallersHold == GraphInv => CyclesAreCallers
<1> SUFFICES ASSUME GraphInv PROVE CyclesAreCallers
  OBVIOUS
<1>1. ASSUME NEW u \in Uids, NEW v \in Uids, u # v
      PROVE  (\E c \in DetectCycles({"Calls", "Imports"}, 2) : {u, v} \subseteq c)
                <=> /\ v \in {x[1] : x \in GetCallers(u, Cardinality(Uids) + 1)}
                    /\ u \in {x[1] : x \in GetCallers(v, Cardinality(Uids) + 1)}
  <2>1. u \in RowEnds /\ v \in RowEnds
    BY DEF RowEnds
  <2> QED BY <1>1, <2>1, CyclesAreMutual, CallersReach
<1>2. DetectCycles({"Calls", "Imports"}, 2) # Refusal
  BY CyclesAre
<1> QED BY <1>1, <1>2 DEF CyclesAreCallers

-----------------------------------------------------------------------------
\* A graph without directions is refused if and only if two call each other: no row to a file
\* has the ends of another.
LEMMA RefusedAre ==
  ASSUME GraphInv
  PROVE  Refused(StructuralRows) <=> \E u, v \in RowEnds : Mutual(u, v)
<1>1. ASSUME NEW e \in StructuralRows
      PROVE  /\ e \in edges /\ e.source \in RowEnds
             /\ \/ e \in CallRows /\ e.target \in RowEnds
                \/ e.kind = "ContainedBy" /\ e.target \notin RowEnds
  <2>1. e \in edges /\ e.kind \in {"Calls", "Imports", "ContainedBy"}
    BY DEF StructuralRows, Rels
  <2>2. CASE e.kind = "Calls"
    <3>1. e \in CallRows
      BY <2>1, <2>2 DEF CallRows, Rels
    <3> QED BY <2>1, <3>1, RowsLead DEF GraphInv
  <2>3. CASE e.kind = "Imports"
    <3>1. e \in Rels({"Imports"})
      BY <2>1, <2>3 DEF Rels
    <3> QED BY <3>1, RowsLead DEF GraphInv
  <2>4. CASE e.kind = "ContainedBy"
    <3>1. e \in edges \ Resolved
      BY <2>1, <2>4 DEF Resolved
    <3>2. PICK s \in Table : e.source = s.uid /\ e.target = FileUid[s.file]
      BY <3>1, RowsLead DEF GraphInv
    <3>3. s.uid \in RowEnds
      BY DEF RowEnds, Uids
    <3>4. e.target \notin RowEnds
      BY <3>2, TablesAssumption DEF GraphInv, RowEnds, Uids, Table
    <3> QED BY <2>1, <2>4, <3>2, <3>3, <3>4
  <2> QED BY <2>1, <2>2, <2>3, <2>4
<1>2. ASSUME NEW e \in Proper(StructuralRows), NEW f \in Proper(StructuralRows), e # f, Joins(e) = Joins(f)
      PROVE  \E u, v \in RowEnds : Mutual(u, v)
  <2>1. e \in StructuralRows /\ f \in StructuralRows /\ e.source # e.target
    BY DEF Proper
  <2>2. \/ e.source = f.source /\ e.target = f.target
        \/ e.source = f.target /\ e.target = f.source
    BY <1>2 DEF Joins
  <2>3. CASE e.source = f.source /\ e.target = f.target
    <3>1. e.kind = f.kind
      BY <1>1, <2>1, <2>3 DEF CallRows, Rels
    <3>2. Alike(e, f)
      BY <2>3, <3>1 DEF Alike
    <3> QED BY <1>1, <1>2, <2>1, <3>2 DEF GraphInv, EdgesInv
  <2>4. CASE e.source = f.target /\ e.target = f.source
    <3>1. e \in CallRows /\ f \in CallRows
      BY <1>1, <2>1, <2>4
    <3>2. Mutual(e.source, e.target)
      BY <2>1, <2>4, <3>1 DEF Mutual, Targets, From
    <3> QED BY <1>1, <2>1, <2>4, <3>2
  <2> QED BY <2>2, <2>3, <2>4
<1>3. ASSUME NEW u, NEW v, Mutual(u, v) PROVE Refused(StructuralRows)
  <2>1. PICK e \in CallRows, f \in CallRows : e.source = u /\ e.target = v /\ f.source = v /\ f.target = u
    BY <1>3 DEF Mutual, Targets, From
  <2>2. u # v
    BY <1>3 DEF Mutual
  <2>3. e \in Proper(StructuralRows) /\ f \in Proper(StructuralRows)
    BY <2>1, <2>2 DEF Proper, StructuralRows, CallRows, Rels
  <2>4. e # f /\ Joins(e) = Joins(f)
    BY <2>1, <2>2 DEF Joins
  <2> QED BY <2>3, <2>4 DEF Refused
<1> QED BY <1>2, <1>3 DEF Refused

LEMMA CentralityHolds == GraphInv => CentralityIsOfAll
<1> SUFFICES ASSUME GraphInv PROVE CentralityIsOfAll
  OBVIOUS
<1>1. Uids \subseteq Ends(StructuralRows)
  <2> SUFFICES ASSUME NEW s \in Table PROVE s.uid \in Ends(StructuralRows)
    BY DEF Uids
  <2>1. FileRow(s) \in edges /\ FileRow(s).kind = "ContainedBy" /\ FileRow(s).source = s.uid
    BY DEF GraphInv, EdgesInv, FileRow
  <2>2. FileRow(s) \in StructuralRows
    BY <2>1 DEF StructuralRows, Rels
  <2> QED BY <2>1, <2>2 DEF Ends, Sources
<1>2. Ends(StructuralRows) \cap Uids = Uids
  BY <1>1
<1> QED BY <1>2, RefusedAre DEF CentralityIsOfAll, GetCentralityReport, RowEnds

LEMMA LintHolds == GraphInv => LintNamesTheRefused
<1> SUFFICES ASSUME GraphInv, GetCentralityReport = Refusal
             PROVE  \E f \in Lint(1) : /\ f.rule = "circular_dependency"
                                       /\ \E u, v \in f.about : Mutual(u, v)
  BY DEF LintNamesTheRefused
<1>1. Uids # Refusal
  <2>1. PICK U : U = {s.uid : s \in UNION {Range(t) : t \in Tables}}
    OBVIOUS
  <2>2. Uids \in SUBSET U
    BY <2>1 DEF GraphInv, Uids, Table
  <2> QED BY <2>1, <2>2, RefusalAssumption
<1>2. PICK u \in RowEnds, v \in RowEnds : Mutual(u, v)
  BY <1>1, CentralityHolds DEF CentralityIsOfAll, RowEnds
<1>3. PICK rows : rows = CallsOn
  OBVIOUS
<1>4. rows = Proper(CallRows) /\ rows \subseteq Resolved
  BY <1>3, CallsAre
<1>5. PICK e \in rows, f \in rows : e.source = u /\ e.target = v /\ f.source = v /\ f.target = u
  BY <1>2, <1>4 DEF Mutual, Targets, From, Proper
<1>6. v \in Along(rows)[u] /\ u \in Along(rows)[v]
  BY <1>4, <1>5, AlongRows
<1>7. v \in Reach(rows, u) /\ u \in Reach(rows, v)
  BY <1>4, <1>6, ReachIs DEF Closed
<1>8. u # v
  BY <1>2 DEF Mutual
<1>9. PICK c \in DetectCycles({"Calls", "Imports"}, 2) : {u, v} \subseteq c
  BY <1>3, <1>7, <1>8, CyclesAreMutual
<1>10. PICK row : row = [rule |-> "circular_dependency", about |-> c]
  OBVIOUS
<1>11. row \in LintCycles
  BY <1>9, <1>10, CyclesAre DEF LintCycles
<1>12. row \in Lint(1) /\ row.rule = "circular_dependency" /\ row.about = c
  BY <1>10, <1>11 DEF Lint
<1> QED BY <1>2, <1>9, <1>12

\* What the tools say of calls fits together, of every graph of every store, whether or not
\* communities were detected in it (CallTools): callers mirror callees, every function is dead,
\* untested or tested, and both servers and the degrees mean the same rows.
THEOREM CallToolsAgreeAlways == CommunitySpec => []CallToolsAgree
<1>1. GraphInv => CallToolsAgree
  BY MirrorHolds, JudgedHolds, CoverageHolds, ServersHold, DegreesHold DEF CallToolsAgree, GraphInv
<1> QED BY <1>1, GraphInvInit, GraphInvStep, PTL DEF CommunitySpec

\* What the tools say of dependencies fits together, of every graph of every store
\* (DependencyTools): no graph of calls is refused, cycles are what get_callers finds both ways,
\* and the centrality report covers every symbol or fails, of what the linter then reports.
THEOREM DependencyToolsAgreeAlways == CommunitySpec => []DependencyToolsAgree
<1>1. GraphInv => DependencyToolsAgree
  BY CallersHold, CentralityHolds, LintHolds DEF DependencyToolsAgree
<1> QED BY <1>1, GraphInvInit, GraphInvStep, PTL DEF CommunitySpec

-----------------------------------------------------------------------------
(***************************************************************************)
(* What is said of communities (CommunityTools).  What is folded over a    *)
(* set are its partitions (PartitionsAre); their parts have nothing in     *)
(* common, so that what is counted in them adds up (SumOfCounts); and a    *)
(* name that only one community has leads home (HomeIs).                   *)
(***************************************************************************)

\* Sets that have nothing in common are counted one by one: what a fold over them adds up is
\* the number of all their elements.
AllIn(F, s) == UNION {F[i] : i \in s}
Apart(F, I) == /\ \A i \in I : IsFiniteSet(F[i])
               /\ \A i, j \in I : i # j => F[i] \cap F[j] = {}
FirstOf(s) == CHOOSE x \in s : TRUE

LEMMA CountedInSteps ==
  ASSUME NEW I, IsFiniteSet(I), NEW F, Apart(F, I), NEW s \in SUBSET I
  PROVE  /\ IsFiniteSet(AllIn(F, s)) /\ Cardinality(AllIn(F, s)) \in Nat
         /\ s = {} => Cardinality(AllIn(F, s)) = 0
         /\ s # {} => /\ FirstOf(s) \in s
                      /\ Cardinality(AllIn(F, s))
                            = Cardinality(F[FirstOf(s)]) + Cardinality(AllIn(F, s \ {FirstOf(s)}))
<1>1. ASSUME NEW r \in SUBSET I PROVE IsFiniteSet(AllIn(F, r)) /\ Cardinality(AllIn(F, r)) \in Nat
  <2>1. PICK S : S = {F[i] : i \in r}
    OBVIOUS
  <2>2. IsFiniteSet(r)
    BY FS_Subset
  <2>3. IsFiniteSet(S)
    BY <2>1, <2>2, FiniteImage
  <2>4. \A T \in S : IsFiniteSet(T)
    BY <2>1 DEF Apart
  <2>5. IsFiniteSet(UNION S)
    BY <2>3, <2>4, FS_UNION
  <2> QED BY <2>1, <2>5, FS_CardinalityType DEF AllIn
<1>2. ASSUME s = {} PROVE Cardinality(AllIn(F, s)) = 0
  <2>1. AllIn(F, s) = {}
    BY <1>2 DEF AllIn
  <2> QED BY <2>1, FS_EmptySet
<1>3. ASSUME s # {} PROVE FirstOf(s) \in s
  BY <1>3 DEF FirstOf
<1>4. ASSUME s # {}, NEW x \in s
      PROVE  Cardinality(AllIn(F, s)) = Cardinality(F[x]) + Cardinality(AllIn(F, s \ {x}))
  <2>1. PICK A, B : A = F[x] /\ B = AllIn(F, s \ {x})
    OBVIOUS
  <2>2. IsFiniteSet(A) /\ IsFiniteSet(B) /\ Cardinality(A) \in Nat /\ Cardinality(B) \in Nat
    BY <1>1, <2>1, FS_CardinalityType DEF Apart
  <2>3. A \cap B = {}
    BY <2>1 DEF AllIn, Apart
  <2>4. AllIn(F, s) = A \cup B
    BY <2>1 DEF AllIn
  <2>5. Cardinality(A \cup B) = Cardinality(A) + Cardinality(B) - Cardinality({})
    BY <2>2, <2>3, FS_Union
  <2> QED BY <2>1, <2>2, <2>4, <2>5, FS_EmptySet
<1> QED BY <1>1, <1>2, <1>3, <1>4

\* The equation of the fold, and what solves it.
Adds(g, F, I) ==
    g = [s \in SUBSET I |-> IF s = {} THEN 0 ELSE Cardinality(F[FirstOf(s)]) + g[s \ {FirstOf(s)}]]

LEMMA CountAdds ==
  ASSUME NEW I, IsFiniteSet(I), NEW F, Apart(F, I)
  PROVE  \E g : Adds(g, F, I)
<1> DEFINE g == [s \in SUBSET I |-> Cardinality(AllIn(F, s))]
<1>1. ASSUME NEW s \in SUBSET I
      PROVE  g[s] = IF s = {} THEN 0 ELSE Cardinality(F[FirstOf(s)]) + g[s \ {FirstOf(s)}]
  <2>1. PICK r : r = s \ {FirstOf(s)}
    OBVIOUS
  <2>2. r \in SUBSET I
    BY <2>1
  <2>3. g[s] = Cardinality(AllIn(F, s)) /\ g[r] = Cardinality(AllIn(F, r))
    BY <2>2
  <2>4. CASE s = {}
    BY <2>3, <2>4, CountedInSteps
  <2>5. CASE s # {}
    <3> HIDE DEF g
    <3>1. Cardinality(AllIn(F, s)) = Cardinality(F[FirstOf(s)]) + Cardinality(AllIn(F, r))
      BY <2>1, <2>5, CountedInSteps
    <3>2. Cardinality(AllIn(F, s)) = Cardinality(F[FirstOf(s)]) + g[r]
      BY <2>3, <3>1
    <3> QED BY <2>1, <2>3, <2>5, <3>2
  <2> HIDE DEF g
  <2> QED BY <2>4, <2>5
<1>2. g = [s \in SUBSET I |-> g[s]]
  OBVIOUS
<1>3. Adds(g, F, I)
  <2> HIDE DEF g
  <2> QED BY <1>1, <1>2 DEF Adds
<1> QED BY <1>3

LEMMA AddsAreCounts ==
  ASSUME NEW I, IsFiniteSet(I), NEW F, Apart(F, I), NEW g, Adds(g, F, I)
  PROVE  g[I] = Cardinality(AllIn(F, I))
<1>1. ASSUME NEW s \in SUBSET I
      PROVE  g[s] = IF s = {} THEN 0 ELSE Cardinality(F[FirstOf(s)]) + g[s \ {FirstOf(s)}]
  BY Zenon DEF Adds
<1> DEFINE T == {n \in Nat : \E s \in SUBSET I : Cardinality(s) = n /\ g[s] # Cardinality(AllIn(F, s))}
<1>2. SUFFICES ASSUME T # {} PROVE FALSE
  <2>1. Cardinality(I) \in Nat
    BY FS_CardinalityType
  <2> QED BY <2>1
<1>3. PICK n \in T : \A m \in T : n <= m
  BY <1>2, LeastNumber
<1>4. PICK s \in SUBSET I : Cardinality(s) = n /\ g[s] # Cardinality(AllIn(F, s))
  BY <1>3
<1>5. s # {} /\ FirstOf(s) \in s
  BY <1>1, <1>4, CountedInSteps
<1>6. PICK r : r = s \ {FirstOf(s)}
  OBVIOUS
<1>7. r \in SUBSET I /\ g[r] # Cardinality(AllIn(F, r))
  <2>1. g[s] = Cardinality(F[FirstOf(s)]) + g[r]
    BY <1>1, <1>5, <1>6
  <2>2. Cardinality(AllIn(F, s)) = Cardinality(F[FirstOf(s)]) + Cardinality(AllIn(F, r))
    BY <1>5, <1>6, CountedInSteps
  <2> QED BY <1>4, <1>6, <2>1, <2>2
<1>8. Cardinality(r) = n - 1 /\ Cardinality(r) \in Nat
  <2>1. IsFiniteSet(s)
    BY FS_Subset
  <2>2. IsFiniteSet(r) /\ Cardinality(r) = Cardinality(s) - 1
    BY <1>5, <1>6, <2>1, FS_RemoveElement
  <2> QED BY <1>4, <2>2, FS_CardinalityType
<1>9. Cardinality(r) \in T
  BY <1>7, <1>8
<1> QED BY <1>3, <1>8, <1>9

LEMMA SumOfCounts ==
  ASSUME NEW I, IsFiniteSet(I), NEW F, Apart(F, I), NEW f, f = [i \in I |-> Cardinality(F[i])]
  PROVE  SumFunction(f) = Cardinality(AllIn(F, I))
<1> DEFINE adds(g) == g = [s \in SUBSET I |-> IF s = {} THEN 0
                              ELSE f[FirstOf(s)] + g[s \ {FirstOf(s)}]]
<1>1. DOMAIN f = I
  OBVIOUS
<1>2. SumFunction(f) = (CHOOSE g : adds(g))[I]
  BY <1>1, Zenon DEF SumFunction, SumFunctionOnSet, FoldFunctionOnSet, MapThenFoldSet, FirstOf
<1>3. ASSUME NEW g PROVE adds(g) <=> Adds(g, F, I)
  <2>1. \A s \in SUBSET I : s # {} => f[FirstOf(s)] = Cardinality(F[FirstOf(s)])
    BY DEF FirstOf
  <2>2. \A s \in SUBSET I : (IF s = {} THEN 0 ELSE f[FirstOf(s)] + g[s \ {FirstOf(s)}])
                               = IF s = {} THEN 0 ELSE Cardinality(F[FirstOf(s)]) + g[s \ {FirstOf(s)}]
    BY <2>1
  <2> QED BY <2>2, Zenon DEF Adds
<1>4. Adds(CHOOSE g : adds(g), F, I)
  <2> HIDE DEF adds
  <2> QED BY <1>3, CountAdds
<1> HIDE DEF adds
<1> QED BY <1>2, <1>4, AddsAreCounts

LEMMA SumOfParts ==
  ASSUME NEW S, IsFiniteSet(S), \A t \in S : IsFiniteSet(t), \A s, t \in S : s # t => s \cap t = {}
  PROVE  MapThenSumSet(Cardinality, S) = Cardinality(UNION S)
<1>1. PICK F : F = [t \in S |-> t]
  OBVIOUS
<1>2. Apart(F, S)
  BY <1>1 DEF Apart
<1> DEFINE adds(g) == g = [s \in SUBSET S |-> IF s = {} THEN 0
                              ELSE Cardinality(FirstOf(s)) + g[s \ {FirstOf(s)}]]
<1>3. MapThenSumSet(Cardinality, S) = (CHOOSE g : adds(g))[S]
  BY Zenon DEF MapThenSumSet, MapThenFoldSet, FirstOf
<1>4. ASSUME NEW g PROVE adds(g) <=> Adds(g, F, S)
  <2>1. \A s \in SUBSET S : s # {} => F[FirstOf(s)] = FirstOf(s)
    BY <1>1 DEF FirstOf
  <2>2. \A s \in SUBSET S : (IF s = {} THEN 0 ELSE Cardinality(FirstOf(s)) + g[s \ {FirstOf(s)}])
                               = IF s = {} THEN 0 ELSE Cardinality(F[FirstOf(s)]) + g[s \ {FirstOf(s)}]
    BY <2>1
  <2> QED BY <2>2, Zenon DEF Adds
<1>5. Adds(CHOOSE g : adds(g), F, S)
  <2> HIDE DEF adds
  <2> QED BY <1>2, <1>4, CountAdds
<1>6. AllIn(F, S) = UNION S
  BY <1>1 DEF AllIn
<1> HIDE DEF adds
<1> QED BY <1>2, <1>3, <1>5, <1>6, AddsAreCounts

\* A set of numbers with a greatest one: which Max is, and Min the least.
LEMMA MaxIs ==
  ASSUME NEW I, IsFiniteSet(I), I \subseteq Int, I # {}
  PROVE  Max(I) \in I /\ \A x \in I : x <= Max(I)
<1>1. \E m \in I : \A x \in I : x <= m
  <2> DEFINE above(m) == {x \in I : x > m}
             T == {n \in Nat : \E m \in I : Cardinality(above(m)) = n}
  <2>1. \A m \in I : IsFiniteSet(above(m)) /\ Cardinality(above(m)) \in Nat
    BY FS_Subset, FS_CardinalityType
  <2>2. T # {}
    BY <2>1
  <2>3. PICK n \in T : \A k \in T : n <= k
    BY <2>2, LeastNumber
  <2>4. PICK m \in I : Cardinality(above(m)) = n
    BY <2>3
  <2>5. ASSUME NEW x \in I, x > m PROVE FALSE
    <3>1. above(x) \subseteq above(m) /\ x \in above(m) /\ x \notin above(x)
      <4>1. \A y \in I : y > x => y > m
        <5>1. ASSUME NEW y \in I, y > x PROVE y > m
          <6>1. y \in Int /\ x \in Int /\ m \in Int
            OBVIOUS
          <6> QED BY <2>5, <5>1, <6>1
        <5> QED BY <5>1
      <4>2. ~(x > x)
        <5>1. x \in Int
          OBVIOUS
        <5> QED BY <5>1
      <4> QED BY <2>5, <4>1, <4>2
    <3>2. Cardinality(above(x)) < Cardinality(above(m))
      <4>1. Cardinality(above(x)) <= Cardinality(above(m)) /\ Cardinality(above(x)) # Cardinality(above(m))
        <5> HIDE DEF above
        <5> QED BY <2>1, <3>1, FS_Subset
      <4> QED BY <2>1, <4>1
    <3>3. Cardinality(above(x)) \in T
      BY <2>1
    <3> QED BY <2>1, <2>3, <2>4, <3>2, <3>3
  <2> QED BY <2>4, <2>5
<1> QED BY <1>1 DEF Max

-----------------------------------------------------------------------------
LEMMA CrossesSome ==
  ASSUME EdgesInv, NEW map, NEW e \in Across(map),
         map[e.source] # NoCommunity, map[e.target] # NoCommunity
  PROVE  CrossEdges(map, e.source) > 0 /\ CrossEdges(map, e.target) > 0
<1>1. /\ e \in edges /\ e.source \in DOMAIN map /\ e.target \in DOMAIN map
      /\ map[e.source] # map[e.target]
  BY DEF Across, Joins
<1>2. LabelIn(map, e.source) = map[e.source] /\ LabelIn(map, e.target) = map[e.target]
  BY <1>1 DEF LabelIn
<1> DEFINE crossing(u) == {f \in edges :
               \/ f.source = u /\ LabelIn(map, f.target) \notin {LabelIn(map, u), NoCommunity}
               \/ f.target = u /\ LabelIn(map, f.source) \notin {LabelIn(map, u), NoCommunity}}
<1>3. e \in crossing(e.source) /\ e \in crossing(e.target)
  BY <1>1, <1>2
<1>4. ASSUME NEW u, e \in crossing(u) PROVE Cardinality(crossing(u)) > 0
  <2>1. IsFiniteSet(crossing(u))
    BY FS_Subset DEF EdgesInv
  <2>2. Cardinality(crossing(u)) # 0 /\ Cardinality(crossing(u)) \in Nat
    <3> HIDE DEF crossing
    <3> QED BY <1>4, <2>1, FS_EmptySet, FS_CardinalityType
  <2> QED BY <2>2
<1>5. Cardinality(crossing(e.source)) > 0 /\ Cardinality(crossing(e.target)) > 0
  <2> HIDE DEF crossing
  <2> QED BY <1>3, <1>4
<1> QED BY <1>5 DEF CrossEdges

LEMMA OneSymbol ==
  ASSUME GraphInv, NEW s \in Table
  PROVE  SymbolOf(s.uid) = s /\ s.name # NoCommunity
<1>1. \A r \in Table : r.uid = s.uid => r = s
  BY CommunityAssumption DEF GraphInv, Table
<1> QED BY <1>1, CommunityAssumption DEF GraphInv, Table, SymbolOf

LEMMA StoredHomes ==
  ASSUME GraphInv, NEW u \in DOMAIN StoredMap
  PROVE  \E s \in Table : u = s.uid /\ SymbolOf(u) = s /\ StoredMap[u] = HomeOf(s) /\ HomeOf(s) # NoCommunity
<1>1. PICK s \in Table : u = s.uid /\ HomeOf(s) # NoCommunity
  BY DEF StoredMap
<1>2. SymbolOf(u) = s
  BY <1>1, OneSymbol
<1> QED BY <1>1, <1>2 DEF StoredMap

LEMMA BridgesAre ==
  ASSUME NEW e \in Bridges
  PROVE  e \in Across(StoredMap) /\ e.kind = "Calls"
BY DEF Bridges

LEMMA BridgesHold == GraphInv => BridgesCross
<1> SUFFICES ASSUME GraphInv, NEW e \in Bridges, NEW map \in CommunityMaps
             PROVE  CrossEdges(map, e.source) > 0 /\ CrossEdges(map, e.target) > 0
  BY DEF BridgesCross
<1>1. e \in Across(StoredMap)
  BY BridgesAre
<1>2. e.source \in DOMAIN StoredMap /\ e.target \in DOMAIN StoredMap
  BY <1>1 DEF Across, Joins
<1>3. StoredMap # <<>>
  BY <1>2
<1>4. map = StoredMap
  BY <1>3 DEF CommunityMaps
<1>5. StoredMap[e.source] # NoCommunity /\ StoredMap[e.target] # NoCommunity
  BY <1>2, StoredHomes
<1> QED BY <1>1, <1>4, <1>5, CrossesSome DEF GraphInv

LEMMA DetailHolds == EdgesInv => DetailShowsCrossings
<1> SUFFICES ASSUME EdgesInv, NEW c \in Isolated, Detail(c.uid).community = c
             PROVE  Detail(c.uid).external >= Cardinality(Crossing(c))
  BY DEF DetailShowsCrossings
<1> DEFINE touching == {e \in edges : Joins(e) \cap UidsOf(c) # {}}
           inside   == {e \in touching : Joins(e) \subseteq UidsOf(c)}
<1>1. Detail(c.uid).external = Cardinality(touching \ inside)
  BY DEF Detail
<1>2. Crossing(c) \subseteq touching \ inside /\ IsFiniteSet(touching \ inside)
  <2>1. touching \ inside \subseteq edges
    OBVIOUS
  <2>2. IsFiniteSet(touching \ inside)
    <3> HIDE DEF touching, inside
    <3> QED BY <2>1, FS_Subset DEF EdgesInv
  <2>3. Crossing(c) \subseteq touching \ inside
    BY DEF Crossing, CallRows, Rels
  <2> QED BY <2>2, <2>3
<1>3. PICK outside : outside = touching \ inside
  OBVIOUS
<1>4. Cardinality(Crossing(c)) <= Cardinality(outside)
      /\ Cardinality(Crossing(c)) \in Nat /\ Cardinality(outside) \in Nat
  BY <1>2, <1>3, FS_Subset, FS_CardinalityType
<1> QED BY <1>1, <1>3, <1>4

-----------------------------------------------------------------------------
CommunitiesInv == communities \in Seq(Range(communities))

LEMMA SequenceOfRange ==
  ASSUME NEW X, NEW n \in Nat, NEW c \in [1..n -> X]
  PROVE  c \in Seq(Range(c)) /\ Len(c) = n
<1>1. c \in [1..n -> Range(c)]
  BY DEF Range
<1>2. PICK R : R = Range(c)
  OBVIOUS
<1>3. c \in Seq(R) /\ Len(c) = n
  BY <1>1, <1>2
<1> QED BY <1>2, <1>3

\* A set as a list.
LEMMA Listed ==
  ASSUME NEW S, IsFiniteSet(S)
  PROVE  /\ Cardinality(S) \in Nat
         /\ SetToSeq(S) \in [1..Cardinality(S) -> S]
         /\ \A i, j \in 1..Cardinality(S) : i # j => SetToSeq(S)[i] # SetToSeq(S)[j]
<1>1. PICK n \in Nat : n = Cardinality(S)
  BY FS_CardinalityType
<1>2. PICK f : f \in Bijection(1..n, S)
  BY <1>1, FS_CardinalityType DEF ExistsBijection
<1>3. f \in [1..n -> S] /\ \A i, j \in 1..n : f[i] = f[j] => i = j
  BY <1>2 DEF Bijection, Injection, IsInjective
<1>4. f \in [1..Cardinality(S) -> S] /\ IsInjective(f)
  BY <1>1, <1>3 DEF IsInjective
<1>5. SetToSeq(S) \in [1..Cardinality(S) -> S] /\ IsInjective(SetToSeq(S))
  BY <1>4 DEF SetToSeq
<1>6. \A i, j \in 1..Cardinality(S) : i # j => SetToSeq(S)[i] # SetToSeq(S)[j]
  <2>1. PICK g : g = SetToSeq(S)
    OBVIOUS
  <2>2. g \in [1..n -> S] /\ IsInjective(g)
    BY <1>1, <1>5, <2>1
  <2> QED BY <1>1, <2>1, <2>2 DEF IsInjective
<1> QED BY <1>1, <1>5, <1>6

LEMMA ListedAll ==
  ASSUME NEW S, IsFiniteSet(S), NEW a \in S
  PROVE  \E i \in 1..Cardinality(S) : SetToSeq(S)[i] = a
<1>1. PICK n, l : n \in Nat /\ n = Cardinality(S) /\ l = SetToSeq(S)
  BY FS_CardinalityType
<1>2. l \in [1..n -> S] /\ \A i, j \in 1..n : i # j => l[i] # l[j]
  BY <1>1, Listed
<1>3. SUFFICES ASSUME \A i \in 1..n : l[i] # a PROVE FALSE
  BY <1>1
<1>4. l \in Injection(1..n, S \ {a})
  BY <1>2, <1>3 DEF Injection, IsInjective
<1>5. IsFiniteSet(S \ {a}) /\ Cardinality(S \ {a}) = n - 1
  BY <1>1, FS_RemoveElement
<1>6. IsFiniteSet(1..n) /\ Cardinality(1..n) = n
  <2>1. 1 \in Int /\ n \in Int
    BY <1>1
  <2>2. IsFiniteSet(1..n) /\ Cardinality(1..n) = IF 1 > n THEN 0 ELSE n - 1 + 1
    BY <2>1, FS_Interval, Zenon
  <2>3. Cardinality(1..n) = n
    BY <1>1, <2>2
  <2> QED BY <2>2, <2>3
<1>7. Cardinality(1..n) <= Cardinality(S \ {a})
  BY <1>4, <1>5, FS_Injection
<1>8. Cardinality(1..n) <= n - 1 /\ Cardinality(1..n) = n /\ n \in Nat
  BY <1>1, <1>5, <1>6, <1>7
<1> QED BY <1>8

\* No more ends of rows than two for each symbol, its uid and its file's, and one of nothing.
LEMMA StructuralEnds ==
  ASSUME GraphInv
  PROVE  /\ IsFiniteSet(Ends(StructuralRows))
         /\ Cardinality(Ends(StructuralRows)) \in 0..(2 * Len(symbols) + 1)
<1>1. PICK n \in Nat : n = Len(symbols) /\ DOMAIN symbols = 1..n
  BY TableIsSequence DEF GraphInv
<1>2. IsFiniteSet(1..n) /\ Cardinality(1..n) = n
  BY <1>1, TableIsSequence DEF GraphInv
<1> DEFINE uid  == [i \in 1..n |-> symbols[i].uid]
           path == [i \in 1..n |-> FileUid[symbols[i].file]]
<1>3. PICK U, F, S, T :
        /\ U = {symbols[i].uid : i \in 1..n} /\ F = {FileUid[symbols[i].file] : i \in 1..n}
        /\ S = (U \cup F) \cup {Gone} /\ T = Ends(StructuralRows)
  OBVIOUS
<1>4. IsFiniteSet(U) /\ Cardinality(U) <= n
  <2>1. uid \in Surjection(1..n, U)
    BY <1>3 DEF Surjection
  <2> HIDE DEF uid
  <2> QED BY <1>2, <2>1, FS_Surjection
<1>5. IsFiniteSet(F) /\ Cardinality(F) <= n
  <2>1. path \in Surjection(1..n, F)
    BY <1>3 DEF Surjection
  <2> HIDE DEF path
  <2> QED BY <1>2, <2>1, FS_Surjection
<1>6. Uids = U /\ \A s \in Table : FileUid[s.file] \in F
  BY <1>1, <1>3 DEF Uids, Table, Range
<1>7. T \subseteq S
  <2> SUFFICES ASSUME NEW e \in edges PROVE e.source \in S /\ e.target \in S
    BY <1>3 DEF Ends, Sources, Targets, StructuralRows, Rels
  <2>1. CASE e \in Resolved
    BY <1>3, <1>6, <2>1, RowsLead DEF GraphInv, RowEnds
  <2>2. CASE e \notin Resolved
    <3>1. PICK s \in Table : e.source = s.uid /\ e.target = FileUid[s.file]
      BY <2>2, RowsLead DEF GraphInv
    <3> QED BY <1>3, <1>6, <3>1 DEF Uids
  <2> QED BY <2>1, <2>2
<1>8. IsFiniteSet(S) /\ Cardinality(S) <= 2 * n + 1 /\ Cardinality(S) \in Nat
  <2>1. PICK x, y, z \in Nat : x = Cardinality(U) /\ y = Cardinality(F) /\ z = Cardinality(U \cap F)
    <3>1. IsFiniteSet(U \cap F)
      BY <1>4, FS_Subset
    <3> QED BY <1>4, <1>5, <3>1, FS_CardinalityType
  <2>2. IsFiniteSet(U \cup F) /\ Cardinality(U \cup F) = x + y - z
    BY <1>4, <1>5, <2>1, FS_Union
  <2>3. Cardinality(U \cup F) <= 2 * n /\ Cardinality(U \cup F) \in Nat
    BY <1>4, <1>5, <2>1, <2>2, FS_CardinalityType
  <2>4. PICK V : V = U \cup F
    OBVIOUS
  <2>5. IsFiniteSet(V \cup {Gone}) /\ Cardinality(V \cup {Gone}) \in {Cardinality(V), Cardinality(V) + 1}
    BY <2>2, <2>4, FS_AddElement
  <2>6. Cardinality(V \cup {Gone}) <= 2 * n + 1
    BY <2>3, <2>4, <2>5
  <2> QED BY <1>3, <2>4, <2>5, <2>6, FS_CardinalityType
<1>9. IsFiniteSet(T) /\ Cardinality(T) <= Cardinality(S) /\ Cardinality(T) \in Nat
  BY <1>7, <1>8, FS_Subset, FS_CardinalityType
<1> QED BY <1>1, <1>3, <1>8, <1>9

\* All partitions of a set: with one more element, they are what that element may join.
PartsOf(s) ==
    {p \in SUBSET SUBSET s : /\ UNION p = s /\ {} \notin p
                             /\ \A a, b \in p : a # b => a \cap b = {}}

LEMMA OneMore ==
  ASSUME NEW s, NEW x \in s
  PROVE  Joining(x, PartsOf(s \ {x})) = PartsOf(s)
<1>0. PICK r : r = s \ {x}
  OBVIOUS
<1>1. \A q : q \in Joining(x, PartsOf(r))
              <=> \E p \in PartsOf(r) : \/ q = p \cup {{x}}
                                        \/ \E a \in p : q = (p \ {a}) \cup {a \cup {x}}
  BY DEF Joining
<1>2. ASSUME NEW p \in PartsOf(r) PROVE p \cup {{x}} \in PartsOf(s)
  <2>1. PICK q : q = p \cup {{x}}
    OBVIOUS
  <2>2. UNION p = r /\ {} \notin p /\ \A b, c \in p : b # c => b \cap c = {}
    BY <1>2 DEF PartsOf
  <2>3. \A b \in p : b \subseteq r /\ x \notin b
    BY <1>0, <2>2
  <2>4. \A b \in q : b \in p \/ b = {x}
    BY <2>1
  <2>5. UNION q = s
    <3>1. ASSUME NEW y \in s PROVE \E b \in q : y \in b
      <4>1. CASE y = x
        BY <2>1, <4>1
      <4>2. CASE y # x
        <5>1. y \in UNION p
          BY <1>0, <2>2, <4>2
        <5> QED BY <2>1, <5>1
      <4> QED BY <4>1, <4>2
    <3>2. \A b \in q : b \subseteq s
      BY <1>0, <2>3, <2>4
    <3> QED BY <3>1, <3>2
  <2>6. {} \notin q
    BY <2>2, <2>4
  <2>7. ASSUME NEW b \in q, NEW c \in q, b # c PROVE b \cap c = {}
    <3>1. CASE b \in p /\ c \in p
      BY <2>2, <2>7, <3>1
    <3>2. CASE b \in p /\ c = {x}
      BY <2>3, <3>2
    <3>3. CASE b = {x} /\ c \in p
      BY <2>3, <3>3
    <3> QED BY <2>4, <2>7, <3>1, <3>2, <3>3
  <2> QED BY <2>1, <2>5, <2>6, <2>7 DEF PartsOf
<1>3. ASSUME NEW p \in PartsOf(r), NEW a \in p PROVE (p \ {a}) \cup {a \cup {x}} \in PartsOf(s)
  <2>1. PICK q : q = (p \ {a}) \cup {a \cup {x}}
    OBVIOUS
  <2>2. UNION p = r /\ {} \notin p /\ \A b, c \in p : b # c => b \cap c = {}
    BY <1>3 DEF PartsOf
  <2>0. \A b \in q : b \in p \ {a} \/ b = a \cup {x}
    BY <2>1
  <2>3. UNION q = s
    <3>1. ASSUME NEW y \in r PROVE \E b \in q : y \in b
      <4>1. PICK c \in p : y \in c
        BY <2>2
      <4>2. CASE c = a
        <5>1. PICK b : b = a \cup {x}
          OBVIOUS
        <5>2. b \in q /\ y \in b
          BY <2>1, <4>1, <4>2, <5>1
        <5> QED BY <5>2
      <4>3. CASE c # a
        BY <2>1, <4>1, <4>3
      <4> QED BY <4>2, <4>3
    <3>2. x \in a \cup {x} /\ a \cup {x} \in q
      BY <2>1
    <3>3. \A b \in q : b \subseteq s
      <4>1. \A b \in p : b \subseteq s
        BY <1>0, <2>2
      <4> QED BY <1>3, <2>0, <4>1
    <3> QED BY <1>0, <3>1, <3>2, <3>3
  <2>4. {} \notin q
    BY <2>0, <2>2
  <2>5. ASSUME NEW b \in q, NEW c \in q, b # c PROVE b \cap c = {}
    <3>1. \A d \in p : x \notin d
      <4>1. \A d \in p : d \subseteq r
        BY <2>2
      <4> QED BY <1>0, <4>1
    <3>2. CASE b \in p \ {a} /\ c \in p \ {a}
      BY <2>2, <2>5, <3>2
    <3>3. CASE b \in p \ {a} /\ c = a \cup {x}
      <4>1. b \cap a = {} /\ x \notin b
        BY <1>3, <2>2, <3>1, <3>3
      <4> QED BY <3>3, <4>1
    <3>4. CASE b = a \cup {x} /\ c \in p \ {a}
      <4>1. c \cap a = {} /\ x \notin c
        BY <1>3, <2>2, <3>1, <3>4
      <4> QED BY <3>4, <4>1
    <3> QED BY <2>0, <2>5, <3>2, <3>3, <3>4
  <2> QED BY <2>1, <2>3, <2>4, <2>5 DEF PartsOf
<1>4. ASSUME NEW q \in PartsOf(s) PROVE q \in Joining(x, PartsOf(r))
  <2>1. UNION q = s /\ {} \notin q /\ \A b, c \in q : b # c => b \cap c = {}
    BY <1>4 DEF PartsOf
  <2>2. PICK b \in q : x \in b
    BY <2>1
  <2>3. ASSUME NEW c \in q \ {b}
        PROVE  x \notin c /\ c \cap b = {} /\ c # {} /\ c \subseteq r
    <3>1. c \in q /\ c # b
      OBVIOUS
    <3>2. c \cap b = {} /\ c # {} /\ c \subseteq s
      BY <2>1, <2>2, <3>1
    <3>3. x \notin c
      BY <2>2, <3>2
    <3> QED BY <1>0, <3>2, <3>3
  <2>4. CASE b = {x}
    <3>1. PICK p : p = q \ {b}
      OBVIOUS
    <3>2. UNION p = r
      <4>1. \A y \in r : \E c \in p : y \in c
        BY <1>0, <2>1, <2>4, <3>1
      <4> QED BY <2>3, <3>1, <4>1
    <3>3. p \in PartsOf(r)
      BY <2>1, <3>1, <3>2 DEF PartsOf
    <3>4. q = p \cup {{x}}
      BY <2>2, <2>4, <3>1
    <3> QED BY <1>1, <3>3, <3>4
  <2>5. CASE b # {x}
    <3>1. PICK a, p : a = b \ {x} /\ p = (q \ {b}) \cup {a}
      OBVIOUS
    <3>2. a # {} /\ x \notin a /\ b = a \cup {x} /\ a \subseteq r
      BY <1>0, <2>1, <2>2, <2>5, <3>1
    <3>3. a \notin q \ {b}
      BY <2>3, <3>1, <3>2
    <3>4. UNION p = r
      <4>1. \A y \in r : \E c \in p : y \in c
        BY <1>0, <2>1, <3>1
      <4> QED BY <2>3, <3>1, <3>2, <4>1
    <3>5. \A c \in q \ {b} : c \cap a = {}
      BY <2>3, <3>1
    <3>6. p \in PartsOf(r)
      BY <2>1, <3>1, <3>2, <3>4, <3>5 DEF PartsOf
    <3>7. q = (p \ {a}) \cup {a \cup {x}}
      BY <2>2, <3>1, <3>2, <3>3
    <3>8. a \in p
      BY <3>1
    <3> QED BY <1>1, <3>6, <3>7, <3>8
  <2> QED BY <2>4, <2>5
<1>5. \A q \in Joining(x, PartsOf(r)) : q \in PartsOf(s)
  BY <1>1, <1>2, <1>3
<1>6. Joining(x, PartsOf(r)) = PartsOf(s)
  BY <1>4, <1>5
<1> QED BY <1>0, <1>6

\* The equation of the fold, and what solves it.
Grows(g, N) ==
    g = [s \in SUBSET N |-> IF s = {} THEN {{}} ELSE Joining(FirstOf(s), g[s \ {FirstOf(s)}])]

LEMMA PartsGrow ==
  ASSUME NEW N
  PROVE  \E g : Grows(g, N)
<1> DEFINE g == [s \in SUBSET N |-> PartsOf(s)]
<1>1. ASSUME NEW s \in SUBSET N
      PROVE  g[s] = IF s = {} THEN {{}} ELSE Joining(FirstOf(s), g[s \ {FirstOf(s)}])
  <2>1. PICK r : r = s \ {FirstOf(s)}
    OBVIOUS
  <2>2. r \in SUBSET N
    BY <2>1
  <2>3. g[s] = PartsOf(s) /\ g[r] = PartsOf(r)
    BY <2>2
  <2>4. CASE s = {}
    <3>1. PartsOf(s) = {{}}
      BY <2>4 DEF PartsOf
    <3> QED BY <2>3, <2>4, <3>1
  <2>5. CASE s # {}
    <3>1. FirstOf(s) \in s
      BY <2>5 DEF FirstOf
    <3>2. Joining(FirstOf(s), PartsOf(r)) = PartsOf(s)
      BY <2>1, <3>1, OneMore
    <3> HIDE DEF g
    <3> QED BY <2>1, <2>3, <2>5, <3>2
  <2> HIDE DEF g
  <2> QED BY <2>4, <2>5
<1>2. g = [s \in SUBSET N |-> g[s]]
  OBVIOUS
<1>3. Grows(g, N)
  <2> HIDE DEF g
  <2> QED BY <1>1, <1>2 DEF Grows
<1> QED BY <1>3

LEMMA GrownAreParts ==
  ASSUME NEW N, IsFiniteSet(N), NEW g, Grows(g, N)
  PROVE  g[N] = PartsOf(N)
<1>1. ASSUME NEW s \in SUBSET N
      PROVE  g[s] = IF s = {} THEN {{}} ELSE Joining(FirstOf(s), g[s \ {FirstOf(s)}])
  BY Zenon DEF Grows
<1> DEFINE T == {n \in Nat : \E s \in SUBSET N : Cardinality(s) = n /\ g[s] # PartsOf(s)}
<1>2. SUFFICES ASSUME T # {} PROVE FALSE
  <2>1. Cardinality(N) \in Nat
    BY FS_CardinalityType
  <2> QED BY <2>1
<1>3. PICK n \in T : \A m \in T : n <= m
  BY <1>2, LeastNumber
<1>4. PICK s \in SUBSET N : Cardinality(s) = n /\ g[s] # PartsOf(s)
  BY <1>3
<1>5. s # {} /\ FirstOf(s) \in s
  <2>1. ASSUME NEW p \in PartsOf({}) PROVE p = {}
    <3>1. p \in SUBSET SUBSET {} /\ {} \notin p
      BY <2>1 DEF PartsOf
    <3>2. \A a \in p : a = {}
      BY <3>1
    <3> QED BY <3>1, <3>2
  <2>2. {} \in PartsOf({})
    BY DEF PartsOf
  <2>3. PartsOf({}) = {{}}
    BY <2>1, <2>2
  <2>4. s # {}
    BY <1>1, <1>4, <2>3
  <2> QED BY <2>4 DEF FirstOf
<1>6. PICK r : r = s \ {FirstOf(s)}
  OBVIOUS
<1>7. r \in SUBSET N /\ g[r] # PartsOf(r)
  <2>1. g[s] = Joining(FirstOf(s), g[r])
    BY <1>1, <1>5, <1>6
  <2>2. Joining(FirstOf(s), PartsOf(r)) = PartsOf(s)
    BY <1>5, <1>6, OneMore
  <2> QED BY <1>4, <1>6, <2>1, <2>2
<1>8. Cardinality(r) = n - 1 /\ Cardinality(r) \in Nat
  <2>1. IsFiniteSet(s)
    BY FS_Subset
  <2>2. IsFiniteSet(r) /\ Cardinality(r) = Cardinality(s) - 1
    BY <1>5, <1>6, <2>1, FS_RemoveElement
  <2> QED BY <1>4, <2>2, FS_CardinalityType
<1>9. Cardinality(r) \in T
  BY <1>7, <1>8
<1> QED BY <1>3, <1>8, <1>9

LEMMA PartitionsAre ==
  ASSUME NEW N, IsFiniteSet(N)
  PROVE  Partitions(N) = PartsOf(N)
<1> DEFINE grows(g) == g = [s \in SUBSET N |-> IF s = {} THEN {{}}
                               ELSE Joining(FirstOf(s), g[s \ {FirstOf(s)}])]
<1>1. Partitions(N) = (CHOOSE g : grows(g))[N]
  BY Zenon DEF Partitions, FoldSet, MapThenFoldSet, FirstOf
<1>2. \A g : grows(g) <=> Grows(g, N)
  BY Zenon DEF Grows
<1> HIDE DEF grows
<1>3. Grows(CHOOSE g : grows(g), N)
  BY <1>2, PartsGrow
<1> QED BY <1>1, <1>3, GrownAreParts

\* The parts of a partition, and what is in them.
LEMMA Parts ==
  ASSUME NEW nodes, IsFiniteSet(nodes), NEW p \in Leiden(nodes)
  PROVE  \E k \in 0..Cardinality(nodes) :
            /\ p \in [1..k -> SUBSET nodes]
            /\ \A u \in nodes : \E i \in 1..k : u \in p[i]
            /\ \A i \in 1..k : p[i] # {}
            /\ \A i, j \in 1..k : i # j => p[i] \cap p[j] = {}
<1>1. PICK q \in Partitions(nodes) : p \in {SetToSeq(q), Reverse(SetToSeq(q))}
  BY DEF Leiden
<1>2. /\ q \subseteq SUBSET nodes /\ UNION q = nodes /\ {} \notin q
      /\ \A a, b \in q : a # b => a \cap b = {}
  BY <1>1, PartitionsAre DEF PartsOf
<1>3. IsFiniteSet(q) /\ Cardinality(q) <= Cardinality(nodes)
  <2> DEFINE part == [u \in nodes |-> CHOOSE a \in q : u \in a]
  <2>1. \A u \in nodes : \E a \in q : u \in a
    BY <1>2
  <2>2. \A u \in nodes : part[u] \in q /\ u \in part[u]
    BY <2>1
  <2>3. part \in [nodes -> q]
    BY <2>2
  <2> HIDE DEF part
  <2>4. \A a \in q : \E u \in nodes : part[u] = a
    <3> SUFFICES ASSUME NEW a \in q PROVE \E u \in nodes : part[u] = a
      OBVIOUS
    <3>1. a # {} /\ a \subseteq nodes
      BY <1>2
    <3>3. PICK u \in a : TRUE
      BY <3>1
    <3>2. u \in nodes
      BY <3>1
    <3> QED BY <1>2, <2>2, <3>2
  <2>5. part \in Surjection(nodes, q)
    BY <2>3, <2>4 DEF Surjection
  <2> QED BY <2>5, FS_Surjection
<1>4. PICK k : k = Cardinality(q)
  OBVIOUS
<1>5. k \in 0..Cardinality(nodes)
  BY <1>3, <1>4, FS_CardinalityType
<1>6. PICK l : l = SetToSeq(q)
  OBVIOUS
<1>7. l \in [1..k -> q] /\ \A i, j \in 1..k : i # j => l[i] # l[j]
  BY <1>3, <1>4, <1>6, Listed
<1>8. \A a \in q : \E i \in 1..k : l[i] = a
  BY <1>3, <1>4, <1>6, ListedAll
<1>9. /\ p \in [1..k -> q] /\ \A i, j \in 1..k : i # j => p[i] # p[j]
      /\ \A a \in q : \E i \in 1..k : p[i] = a
  <2>1. CASE p = l
    BY <1>7, <1>8, <2>1
  <2>2. CASE p = Reverse(l)
    <3>1. k \in Nat
      BY <1>5
    <3>2. Len(l) = k
      <4>1. l \in Seq(q)
        BY <1>7, <3>1
      <4> QED BY <1>7, <3>1, <4>1
    <3>3. p = [i \in 1..k |-> l[(k - i) + 1]]
      BY <2>2, <3>2 DEF Reverse
    <3>4. \A i \in 1..k : (k - i) + 1 \in 1..k /\ (k - ((k - i) + 1)) + 1 = i
      BY <3>1
    <3>5. \A i, j \in 1..k : i # j => (k - i) + 1 # (k - j) + 1
      BY <3>1
    <3>6. p \in [1..k -> q]
      BY <1>7, <3>3, <3>4
    <3>7. \A i, j \in 1..k : i # j => p[i] # p[j]
      BY <1>7, <3>3, <3>4, <3>5
    <3>8. ASSUME NEW i \in 1..k PROVE \E j \in 1..k : p[j] = l[i]
      <4>1. PICK j \in 1..k : j = (k - i) + 1
        BY <3>4
      <4>2. p[j] = l[(k - j) + 1] /\ (k - j) + 1 = i
        BY <3>3, <3>4, <4>1
      <4> QED BY <4>2
    <3> QED BY <1>8, <3>6, <3>7, <3>8
  <2> QED BY <1>1, <1>6, <2>1, <2>2
<1>10. \A i \in 1..k : p[i] \in q
  BY <1>9
<1>11. p \in [1..k -> SUBSET nodes]
  BY <1>2, <1>9
<1>12. \A u \in nodes : \E i \in 1..k : u \in p[i]
  <2> SUFFICES ASSUME NEW u \in nodes PROVE \E i \in 1..k : u \in p[i]
    OBVIOUS
  <2>1. PICK a \in q : u \in a
    BY <1>2
  <2>2. PICK i \in 1..k : p[i] = a
    BY <1>9
  <2> QED BY <2>1, <2>2
<1>13. \A i \in 1..k : p[i] # {}
  <2> SUFFICES ASSUME NEW i \in 1..k, p[i] = {} PROVE FALSE
    OBVIOUS
  <2>1. p[i] \in q /\ {} \notin q
    BY <1>2, <1>10
  <2> QED BY <2>1
<1>14. \A i, j \in 1..k : i # j => p[i] \cap p[j] = {}
  BY <1>2, <1>9, <1>10
<1> QED BY <1>5, <1>11, <1>12, <1>13, <1>14

LEMMA CommunitiesInvInit == GraphInit => CommunitiesInv
BY CommunityAssumption DEF GraphInit, CommunitiesInv

LEMMA CommunitiesInvStep == GraphInv /\ CommunitiesInv /\ [CommunityNext]_graphVars => CommunitiesInv'
<1> SUFFICES ASSUME GraphInv, CommunitiesInv, [CommunityNext]_graphVars PROVE CommunitiesInv'
  OBVIOUS
<1>1. CASE communities' = communities
  BY <1>1 DEF CommunitiesInv
<1>2. CASE Detect
  <2>1. CASE communities' = <<>>
    <3>1. communities' \in [1..0 -> {}]
      BY <2>1
    <3> QED BY <3>1, SequenceOfRange DEF CommunitiesInv
  <2>2. ASSUME NEW p \in Leiden(Ends(StructuralRows)),
               communities' \in {c \in [DOMAIN p -> UNION {Descriptions(i, p[i]) : i \in DOMAIN p}] :
                                     \A i \in DOMAIN p : c[i] \in Descriptions(i, p[i])}
        PROVE  CommunitiesInv'
    <3>1. PICK k \in 0..Cardinality(Ends(StructuralRows)) : DOMAIN p = 1..k
      BY StructuralEnds, Parts
    <3>2. PICK X : X = UNION {Descriptions(i, p[i]) : i \in DOMAIN p}
      OBVIOUS
    <3>3. communities' \in [1..k -> X] /\ k \in Nat
      BY <2>2, <3>1, <3>2
    <3> QED BY <3>3, SequenceOfRange DEF CommunitiesInv
  <2> QED BY <1>2, <2>1, <2>2 DEF Detect
<1> QED BY <1>1, <1>2 DEF CommunityNext, Connect, graphVars

LEMMA HomeIs ==
  ASSUME CommunitiesInv, Distinct, NEW k \in DOMAIN communities, NEW s,
         s.name \in Range(communities[k].names)
  PROVE  HomeOf(s) = communities[k].label
<1> DEFINE I == {i \in 1..Len(communities) : s.name \in Range(communities[i].names)}
<1>1. DOMAIN communities = 1..Len(communities) /\ Len(communities) \in Nat
  <2>1. PICK R : R = Range(communities)
    OBVIOUS
  <2>2. communities \in Seq(R)
    BY <2>1 DEF CommunitiesInv
  <2> QED BY <2>2
<1>2. I = {k}
  BY <1>1 DEF Distinct
<1>3. Max(I) = k
  <2>1. k \in Int
    BY <1>1
  <2>2. IsFiniteSet({k})
    BY FS_Singleton
  <2> QED BY <1>2, <2>1, <2>2, MaxIs
<1>4. SelectLastInSeq(communities, LAMBDA c : s.name \in Range(c.names)) = k
  <2>1. I # {}
    BY <1>2
  <2> QED BY <1>3, <2>1 DEF SelectLastInSeq
<1>5. k # 0
  BY <1>1
<1> QED BY <1>4, <1>5 DEF HomeOf

LEMMA IsolatedHolds == GraphInv /\ CommunitiesInv => IsolatedHasOneBridge
<1> SUFFICES ASSUME GraphInv, CommunitiesInv, Distinct, NEW c \in Isolated
             PROVE  Cardinality({e \in Bridges : Joins(e) \cap UidsOf(c) # {}}) <= 1
  BY DEF IsolatedHasOneBridge
<1>1. PICK k \in DOMAIN communities : c = communities[k]
  BY DEF Isolated, Range
<1>2. ASSUME NEW u \in UidsOf(c), u \in DOMAIN StoredMap PROVE StoredMap[u] = c.label
  <2>1. PICK s \in Table : u = s.uid /\ s.name \in Range(c.names)
    BY DEF UidsOf, Members
  <2>2. SymbolOf(u) = s
    BY <2>1, OneSymbol
  <2>3. StoredMap[u] = HomeOf(s)
    BY <1>2, <2>2, StoredHomes
  <2> QED BY <1>1, <2>1, <2>3, HomeIs
<1>3. ASSUME NEW e \in Bridges, Joins(e) \cap UidsOf(c) # {} PROVE e \in Crossing(c)
  <2>1. e \in Across(StoredMap) /\ e.kind = "Calls"
    BY BridgesAre
  <2>2. e \in edges /\ Joins(e) \subseteq DOMAIN StoredMap /\ StoredMap[e.source] # StoredMap[e.target]
    BY <2>1 DEF Across
  <2>3. ~(Joins(e) \subseteq UidsOf(c))
    BY <1>2, <2>2 DEF Joins
  <2> QED BY <1>3, <2>1, <2>2, <2>3 DEF Crossing, CallRows, Rels
<1>4. IsFiniteSet(Crossing(c))
  <2>1. Crossing(c) \subseteq edges
    BY DEF Crossing, CallRows, Rels
  <2> QED BY <2>1, FS_Subset DEF GraphInv, EdgesInv
<1>5. Cardinality(Crossing(c)) <= 1
  BY DEF Isolated
<1>6. PICK own : own = {e \in Bridges : Joins(e) \cap UidsOf(c) # {}}
  OBVIOUS
<1>7. own \subseteq Crossing(c)
  BY <1>3, <1>6
<1>8. IsFiniteSet(own) /\ Cardinality(own) <= Cardinality(Crossing(c))
  BY <1>4, <1>7, FS_Subset
<1>9. Cardinality(own) \in Nat /\ Cardinality(Crossing(c)) \in Nat
  BY <1>4, <1>8, FS_CardinalityType
<1> QED BY <1>5, <1>6, <1>8, <1>9

-----------------------------------------------------------------------------
LEMMA LabelsAreNames ==
  ASSUME GraphInv, NEW i \in 1..Cardinality(Ends(StructuralRows)), NEW members, NEW l \in Labels(i, members)
  PROVE  l # NoCommunity
<1>1. PICK u \in members : l = IF u \in Uids THEN SymbolOf(u).name ELSE Nameless(i)
  BY DEF Labels
<1>2. CASE u \in Uids
  <2>1. PICK s \in Table : u = s.uid
    BY <1>2 DEF Uids
  <2> QED BY <1>1, <1>2, <2>1, OneSymbol
<1>3. CASE u \notin Uids
  <2>1. i \in 1..(2 * Len(symbols) + 1)
    BY StructuralEnds, TableIsSequence DEF GraphInv
  <2> QED BY <1>1, <1>3, <2>1, CommunityAssumption DEF GraphInv
<1> QED BY <1>2, <1>3

LEMMA MapsAreNamed ==
  ASSUME GraphInv, NEW map \in LabelMaps, NEW u \in DOMAIN map
  PROVE  map[u] # NoCommunity
<1>1. map # <<>>
  OBVIOUS
<1>2. ~(Sparse \/ Refused(StructuralRows))
  BY <1>1 DEF LabelMaps
<1> DEFINE nodes == Ends(StructuralRows)
           given(p) == UNION {{<<i, l>> : l \in Labels(i, p[i])} : i \in DOMAIN p}
           labels(p) == {l \in [DOMAIN p -> {x[2] : x \in given(p)}] :
                            \A i \in DOMAIN p : <<i, l[i]>> \in given(p)}
<1>10. PICK p \in Leiden(nodes) :
        map \in {[v \in nodes |-> l[CHOOSE i \in DOMAIN p : v \in p[i]]] : l \in labels(p)}
  BY <1>2 DEF LabelMaps
<1>3. PICK l \in labels(p) : map = [v \in nodes |-> l[CHOOSE i \in DOMAIN p : v \in p[i]]]
  BY <1>10
<1>4. PICK k \in 0..Cardinality(nodes) : DOMAIN p = 1..k /\ \A v \in nodes : \E i \in 1..k : v \in p[i]
  <2>1. IsFiniteSet(nodes)
    BY StructuralEnds
  <2> HIDE DEF nodes
  <2> QED BY <2>1, Parts
<1>5. u \in nodes
  BY <1>3
<1>6. PICK i \in 1..k : map[u] = l[i]
  BY <1>3, <1>4, <1>5
<1>7. <<i, l[i]>> \in given(p)
  BY <1>4, <1>6
<1>8. l[i] \in Labels(i, p[i])
  <2>1. PICK j \in DOMAIN p : \E m \in Labels(j, p[j]) : <<i, l[i]>> = <<j, m>>
    BY <1>7
  <2> QED BY <2>1
<1>9. i \in 1..Cardinality(Ends(StructuralRows))
  BY StructuralEnds
<1> QED BY <1>6, <1>8, <1>9, LabelsAreNames

LEMMA SurprisingHolds == GraphInv => SurprisingCross
<1> SUFFICES ASSUME GraphInv, NEW map \in LabelMaps, NEW e \in Surprising(map, 10)
             PROVE  CrossEdges(map, e.source) > 0 /\ CrossEdges(map, e.target) > 0
  BY DEF SurprisingCross
<1>1. e \in Across(map)
  BY DEF Surprising
<1>2. e.source \in DOMAIN map /\ e.target \in DOMAIN map
  BY <1>1 DEF Across, Joins
<1> QED BY <1>1, <1>2, MapsAreNamed, CrossesSome DEF GraphInv

\* As many pairs at most as can be made of n.
LEMMA FewPairs ==
  ASSUME NEW S, IsFiniteSet(S), NEW P, IsFiniteSet(P),
         \A e \in P : e.source \in S /\ e.target \in S /\ e.source # e.target,
         \A e, f \in P : e # f => Joins(e) # Joins(f)
  PROVE  2 * Cardinality(P) <= Cardinality(S) * (Cardinality(S) - 1)
<1> DEFINE pairs(R, Q) == /\ IsFiniteSet(R) /\ IsFiniteSet(Q)
                          /\ \A e \in Q : e.source \in R /\ e.target \in R /\ e.source # e.target
                          /\ \A e, f \in Q : e # f => Joins(e) # Joins(f)
           T == {n \in Nat : \A R, Q : pairs(R, Q) /\ Cardinality(R) = n
                                          => 2 * Cardinality(Q) <= n * (n - 1)}
<1>1. 0 \in T
  <2> SUFFICES ASSUME NEW R, NEW Q, pairs(R, Q), Cardinality(R) = 0
               PROVE  2 * Cardinality(Q) <= 0 * (0 - 1)
    OBVIOUS
  <2>1. R = {}
    BY FS_EmptySet
  <2>2. Q = {}
    BY <2>1
  <2>3. Cardinality(Q) = 0
    BY <2>2, FS_EmptySet
  <2> QED BY <2>3
<1>2. ASSUME NEW n \in T PROVE n + 1 \in T
  <2> SUFFICES ASSUME NEW R, NEW Q, pairs(R, Q), Cardinality(R) = n + 1
               PROVE  2 * Cardinality(Q) <= (n + 1) * ((n + 1) - 1)
    OBVIOUS
  <2>1. n \in Nat
    OBVIOUS
  <2>2. PICK x : x \in R
    BY <2>1, FS_EmptySet
  <2> DEFINE Qx   == {e \in Q : x \in Joins(e)}
             rest == {e \in Q : x \notin Joins(e)}
             less == R \ {x}
             other == [e \in Qx |-> IF e.source = x THEN e.target ELSE e.source]
  <2>3. IsFiniteSet(less) /\ Cardinality(less) = n
    <3>1. IsFiniteSet(R) /\ Cardinality(R) = n + 1
      OBVIOUS
    <3>2. IsFiniteSet(less) /\ Cardinality(less) = Cardinality(R) - 1
      <4> HIDE DEF pairs
      <4> QED BY <2>2, <3>1, FS_RemoveElement
    <3> QED BY <2>1, <3>1, <3>2
  <2>4. IsFiniteSet(Qx) /\ IsFiniteSet(rest)
    BY FS_Subset
  <2>5. Cardinality(Qx) <= n
    <3>1. \A e \in Qx : other[e] \in less /\ Joins(e) = {x, other[e]}
      BY DEF Joins
    <3>2. other \in Injection(Qx, less)
      <4>1. other \in [Qx -> less]
        <5>1. \A e \in Qx : (IF e.source = x THEN e.target ELSE e.source) \in less
          BY <3>1
        <5> HIDE DEF Qx, less
        <5> QED BY <5>1
      <4>2. ASSUME NEW e \in Qx, NEW f \in Qx, other[e] = other[f] PROVE e = f
        <5>1. Joins(e) = Joins(f)
          <6> HIDE DEF other
          <6> QED BY <3>1, <4>2
        <5>2. e \in Q /\ f \in Q
          OBVIOUS
        <5> HIDE DEF Qx, other
        <5> QED BY <5>1, <5>2
      <4> HIDE DEF Qx, less, other
      <4> QED BY <4>1, <4>2 DEF Injection, IsInjective
    <3> HIDE DEF Qx, less, other
    <3> QED BY <2>3, <3>2, FS_Injection
  <2>6. 2 * Cardinality(rest) <= n * (n - 1)
    <3>1. pairs(less, rest)
      <4>1. IsFiniteSet(less) /\ IsFiniteSet(rest)
        BY <2>3, <2>4
      <4> QED BY <4>1 DEF Joins
    <3> HIDE DEF pairs, less, rest
    <3> QED BY <2>3, <3>1
  <2>7. Cardinality(Q) = Cardinality(Qx) + Cardinality(rest)
        /\ Cardinality(Qx) \in Nat /\ Cardinality(rest) \in Nat
    <3>1. Q = Qx \cup rest /\ Qx \cap rest = {}
      OBVIOUS
    <3> HIDE DEF Qx, rest
    <3>2. Cardinality(Qx \cup rest) = Cardinality(Qx) + Cardinality(rest) - Cardinality({})
      BY <2>4, <3>1, FS_Union
    <3>3. Cardinality(Qx) \in Nat /\ Cardinality(rest) \in Nat
      BY <2>4, FS_CardinalityType
    <3> QED BY <3>1, <3>2, <3>3, FS_EmptySet
  <2>8. PICK a \in Nat, b \in Nat : a = Cardinality(Qx) /\ b = Cardinality(rest)
    BY <2>7
  <2>9. a <= n /\ 2 * b <= n * (n - 1)
    BY <2>5, <2>6, <2>8
  <2>10. 2 * (a + b) <= (n + 1) * ((n + 1) - 1)
    BY <2>1, <2>9
  <2> QED BY <2>7, <2>8, <2>10
<1>3. Cardinality(S) \in T
  <2> HIDE DEF T
  <2>1. T \subseteq Nat
    BY DEF T
  <2>2. Cardinality(S) \in Nat
    BY FS_CardinalityType
  <2> QED BY <1>1, <1>2, <2>1, <2>2, Counting
<1>4. pairs(S, P)
  OBVIOUS
<1> HIDE DEF pairs
<1> QED BY <1>3, <1>4

LEMMA Halves ==
  ASSUME NEW c \in Nat, NEW m \in Nat, 2 * c <= m
  PROVE  c <= m \div 2
OBVIOUS

LEMMA PartsAreSparse ==
  ASSUME GraphInv, NEW p \in Measured, NEW i \in DOMAIN p
  PROVE  Cardinality(Within(p, i)) <= Possible(p, i)
<1>1. ~Refused(StructuralRows) /\ p \in Leiden(Ends(StructuralRows))
  BY DEF Measured
<1>2. p[i] \subseteq Ends(StructuralRows)
  BY <1>1, StructuralEnds, Parts
<1>3. PICK S, P : S = p[i] /\ P = Within(p, i)
  OBVIOUS
<1>4. IsFiniteSet(S)
  BY <1>2, <1>3, StructuralEnds, FS_Subset
<1>5. IsFiniteSet(P)
  <2>1. P \subseteq edges
    BY <1>3 DEF Within, Proper, StructuralRows, Rels
  <2> QED BY <2>1, FS_Subset DEF GraphInv, EdgesInv
<1>6. 2 * Cardinality(P) <= Cardinality(S) * (Cardinality(S) - 1)
  <2>1. \A e \in P : e.source \in S /\ e.target \in S /\ e.source # e.target
    BY <1>3 DEF Within, Proper, Joins
  <2>2. \A e, f \in P : e # f => Joins(e) # Joins(f)
    BY <1>1, <1>3 DEF Within, Refused
  <2> QED BY <1>4, <1>5, <2>1, <2>2, FewPairs
<1>7. Cardinality(P) \in Nat /\ Cardinality(S) \in Nat
  BY <1>4, <1>5, FS_CardinalityType
<1>8. Cardinality(S) * (Cardinality(S) - 1) \in Nat
  <2>1. Cardinality(S) = 0 \/ Cardinality(S) - 1 \in Nat
    BY <1>7
  <2> QED BY <1>7, <2>1
<1>9. PICK m \in Nat : m = Cardinality(S) * (Cardinality(S) - 1)
  BY <1>8
<1>10. Cardinality(P) <= m \div 2
  BY <1>6, <1>7, <1>9, Halves
<1> QED BY <1>3, <1>9, <1>10 DEF Possible

LEMMA EveryRowIsCounted ==
  ASSUME GraphInv, NEW p \in Measured
  PROVE  Cardinality(Proper(StructuralRows))
            = SumFunction([i \in DOMAIN p |-> Cardinality(Within(p, i))])
              + SumFunction([ij \in {x \in (DOMAIN p) \X (DOMAIN p) : x[1] < x[2]} |->
                                Cardinality(Between(p, ij[1], ij[2]))])
<1> DEFINE nodes == Ends(StructuralRows)
           D     == DOMAIN p
           Pairs == {x \in D \X D : x[1] < x[2]}
           W     == [i \in D |-> Within(p, i)]
           B     == [ij \in Pairs |-> Between(p, ij[1], ij[2])]
           rows  == Proper(StructuralRows)
<1>1. PICK k \in 0..Cardinality(nodes) :
         /\ p \in [1..k -> SUBSET nodes]
         /\ \A u \in nodes : \E i \in 1..k : u \in p[i]
         /\ \A i, j \in 1..k : i # j => p[i] \cap p[j] = {}
  <2>1. p \in Leiden(nodes) /\ IsFiniteSet(nodes)
    BY StructuralEnds DEF Measured
  <2> HIDE DEF nodes
  <2> QED BY <2>1, Parts
<1>2. D = 1..k /\ k \in Nat
  BY <1>1
<1>3. IsFiniteSet(rows)
  <2>1. rows \subseteq edges
    BY DEF Proper, StructuralRows, Rels
  <2> QED BY <2>1, FS_Subset DEF GraphInv, EdgesInv
<1>4. \A e \in rows : e.source \in nodes /\ e.target \in nodes /\ e.source # e.target
  BY DEF Proper, Ends, Sources, Targets
<1>5. IsFiniteSet(D) /\ IsFiniteSet(Pairs)
  <2>1. 1 \in Int /\ k \in Int
    BY <1>2
  <2>2. IsFiniteSet(D)
    BY <1>2, <2>1, FS_Interval
  <2>3. IsFiniteSet(D \X D)
    <3> HIDE DEF D
    <3> QED BY <2>2, FS_Product
  <2>4. Pairs \subseteq D \X D
    OBVIOUS
  <2> HIDE DEF D, Pairs
  <2> QED BY <2>2, <2>3, <2>4, FS_Subset
<1>6. ASSUME NEW e \in rows, NEW i \in D, NEW j \in D, e.source \in p[i], e.target \in p[j]
      PROVE  /\ \A m \in D : e \in W[m] <=> m = i /\ m = j
             /\ \A ij \in Pairs : e \in B[ij] <=> (ij = <<i, j>> \/ ij = <<j, i>>)
  <2>1. \A m \in D : (e.source \in p[m] <=> m = i) /\ (e.target \in p[m] <=> m = j)
    BY <1>1, <1>2, <1>6
  <2>2. ASSUME NEW m \in D PROVE e \in W[m] <=> m = i /\ m = j
    <3>1. e \in W[m] <=> e.source \in p[m] /\ e.target \in p[m]
      BY DEF Within, Joins
    <3> QED BY <2>1, <3>1
  <2>3. ASSUME NEW ij \in Pairs PROVE e \in B[ij] <=> (ij = <<i, j>> \/ ij = <<j, i>>)
    <3>1. PICK a \in D, b \in D : ij = <<a, b>> /\ a < b
      OBVIOUS
    <3>2. e \in B[ij] <=> (\/ e.source \in p[a] \/ e.target \in p[a]) /\ (e.source \in p[b] \/ e.target \in p[b])
      BY <3>1 DEF Between, Joins
    <3>3. e \in B[ij] <=> (a = i \/ a = j) /\ (b = i \/ b = j)
      BY <2>1, <3>2
    <3>4. a # b
      BY <1>2, <3>1
    <3> QED BY <3>1, <3>3, <3>4
  <2> QED BY <2>2, <2>3
<1>7. ASSUME NEW e \in rows
      PROVE  \E i, j \in D : e.source \in p[i] /\ e.target \in p[j]
  BY <1>1, <1>2, <1>4
<1>8. (\A i \in D : W[i] \subseteq rows) /\ (\A ij \in Pairs : B[ij] \subseteq rows)
  BY DEF Within, Between
<1>9. Apart(W, D)
  <2>1. \A i \in D : IsFiniteSet(W[i])
    <3> HIDE DEF W, D, rows
    <3> QED BY <1>3, <1>8, FS_Subset
  <2>2. ASSUME NEW m \in D, NEW n \in D, m # n, NEW e \in W[m] \cap W[n] PROVE FALSE
    <3> HIDE DEF W, D, rows
    <3> QED BY <1>6, <1>7, <1>8, <2>2
  <2> HIDE DEF W, D
  <2> QED BY <2>1, <2>2 DEF Apart
<1>10. Apart(B, Pairs)
  <2>1. \A ij \in Pairs : IsFiniteSet(B[ij])
    <3> HIDE DEF B, Pairs, rows
    <3> QED BY <1>3, <1>8, FS_Subset
  <2>2. ASSUME NEW m \in Pairs, NEW n \in Pairs, m # n, NEW e \in B[m] \cap B[n] PROVE FALSE
    <3>1. e \in rows
      <4> HIDE DEF B, Pairs, rows
      <4> QED BY <1>8, <2>2
    <3>2. PICK i \in D, j \in D : e.source \in p[i] /\ e.target \in p[j]
      BY <1>7, <3>1
    <3>3. m \in {<<i, j>>, <<j, i>>} /\ n \in {<<i, j>>, <<j, i>>}
      <4> HIDE DEF B, Pairs, rows, D
      <4> QED BY <1>6, <2>2, <3>1, <3>2
    <3>4. m[1] < m[2] /\ n[1] < n[2]
      OBVIOUS
    <3>5. i \in Int /\ j \in Int
      BY <1>2
    <3> HIDE DEF B, Pairs, rows, D
    <3> QED BY <2>2, <3>3, <3>4, <3>5
  <2> HIDE DEF B, Pairs
  <2> QED BY <2>1, <2>2 DEF Apart
<1>11. AllIn(W, D) \cup AllIn(B, Pairs) = rows /\ AllIn(W, D) \cap AllIn(B, Pairs) = {}
  <2>1. ASSUME NEW e \in rows PROVE e \in AllIn(W, D) \cup AllIn(B, Pairs)
    <3>1. PICK i \in D, j \in D : e.source \in p[i] /\ e.target \in p[j]
      BY <1>7
    <3>2. i \in Int /\ j \in Int
      BY <1>2
    <3>3. CASE i = j
      <4>1. e \in W[i]
        <5> HIDE DEF W, B, Pairs, rows, D
        <5> QED BY <1>6, <3>1, <3>3
      <4> HIDE DEF W
      <4> QED BY <4>1 DEF AllIn
    <3>4. CASE i < j
      <4>1. <<i, j>> \in Pairs
        BY <3>4
      <4>2. e \in B[<<i, j>>]
        <5> HIDE DEF W, B, Pairs, rows, D
        <5> QED BY <1>6, <3>1, <4>1
      <4> HIDE DEF B, Pairs
      <4> QED BY <4>1, <4>2 DEF AllIn
    <3>5. CASE j < i
      <4>1. <<j, i>> \in Pairs
        BY <3>5
      <4>2. e \in B[<<j, i>>]
        <5> HIDE DEF W, B, Pairs, rows, D
        <5> QED BY <1>6, <3>1, <4>1
      <4> HIDE DEF B, Pairs
      <4> QED BY <4>1, <4>2 DEF AllIn
    <3> QED BY <3>2, <3>3, <3>4, <3>5
  <2>2. ASSUME NEW e \in AllIn(W, D), e \in AllIn(B, Pairs) PROVE FALSE
    <3> HIDE DEF W, B, Pairs, rows, D
    <3>1. PICK m \in D : e \in W[m]
      BY DEF AllIn
    <3>2. PICK ij \in Pairs : e \in B[ij]
      BY <2>2 DEF AllIn
    <3>3. e \in rows
      BY <1>8, <3>1
    <3>4. PICK i \in D, j \in D : e.source \in p[i] /\ e.target \in p[j]
      BY <1>7, <3>3
    <3>5. m = i /\ m = j /\ ij = <<m, m>>
      BY <1>6, <3>1, <3>2, <3>3, <3>4
    <3>6. ij[1] < ij[2] /\ m \in Int
      BY <1>2 DEF Pairs
    <3> QED BY <3>5, <3>6
  <2>3. AllIn(W, D) \subseteq rows /\ AllIn(B, Pairs) \subseteq rows
    <3> HIDE DEF W, B, Pairs, rows, D
    <3> QED BY <1>8 DEF AllIn
  <2> HIDE DEF W, B, Pairs, rows, D
  <2> QED BY <2>1, <2>2, <2>3
<1>12. [i \in D |-> Cardinality(Within(p, i))] = [i \in D |-> Cardinality(W[i])]
  OBVIOUS
<1>13. [ij \in Pairs |-> Cardinality(Between(p, ij[1], ij[2]))] = [ij \in Pairs |-> Cardinality(B[ij])]
  OBVIOUS
<1>14. SumFunction([i \in D |-> Cardinality(Within(p, i))]) = Cardinality(AllIn(W, D))
  <2>1. PICK f : f = [i \in D |-> Cardinality(W[i])]
    OBVIOUS
  <2>2. SumFunction(f) = Cardinality(AllIn(W, D))
    <3> HIDE DEF W, D
    <3> QED BY <1>5, <1>9, <2>1, SumOfCounts
  <2> QED BY <1>12, <2>1, <2>2
<1>15. SumFunction([ij \in Pairs |-> Cardinality(Between(p, ij[1], ij[2]))]) = Cardinality(AllIn(B, Pairs))
  <2>1. PICK f : f = [ij \in Pairs |-> Cardinality(B[ij])]
    OBVIOUS
  <2>2. SumFunction(f) = Cardinality(AllIn(B, Pairs))
    <3> HIDE DEF B, Pairs
    <3> QED BY <1>5, <1>10, <2>1, SumOfCounts
  <2> QED BY <1>13, <2>1, <2>2
<1>16. Cardinality(rows) = Cardinality(AllIn(W, D)) + Cardinality(AllIn(B, Pairs))
  <2>1. PICK a, b : a = AllIn(W, D) /\ b = AllIn(B, Pairs)
    OBVIOUS
  <2> HIDE DEF W, B, Pairs, rows, D
  <2>2. a \subseteq rows /\ b \subseteq rows /\ a \cup b = rows /\ a \cap b = {}
    BY <1>11, <2>1
  <2>3. IsFiniteSet(a) /\ IsFiniteSet(b)
    BY <1>3, <2>2, FS_Subset
  <2>4. Cardinality(a) \in Nat /\ Cardinality(b) \in Nat
    BY <2>3, FS_CardinalityType
  <2>5. Cardinality(a \cup b) = Cardinality(a) + Cardinality(b) - Cardinality({})
    BY <2>2, <2>3, FS_Union
  <2>6. Cardinality({}) = 0
    BY FS_EmptySet
  <2>7. Cardinality(rows) = Cardinality(a) + Cardinality(b)
    <3>1. PICK x, y, z : x = Cardinality(a) /\ y = Cardinality(b) /\ z = Cardinality(a \cup b)
      OBVIOUS
    <3>2. x \in Nat /\ y \in Nat /\ z = x + y - 0
      BY <2>4, <2>5, <2>6, <3>1
    <3>3. z = x + y
      BY ONLY <3>2
    <3>4. Cardinality(rows) = z
      BY <2>2, <3>1
    <3> QED BY <3>1, <3>3, <3>4
  <2> QED BY <2>1, <2>7
<1> QED BY <1>14, <1>15, <1>16

LEMMA MetricsHold == GraphInv => MetricsAddUp
BY EveryRowIsCounted, PartsAreSparse DEF MetricsAddUp

-----------------------------------------------------------------------------
\* The overview: its clusters and its pages.
LEMMA MinOfTwo ==
  ASSUME NEW x \in Int, NEW y \in Int
  PROVE  Min({x, y}) = IF x <= y THEN x ELSE y
<1>1. PICK m : m = IF x <= y THEN x ELSE y
  OBVIOUS
<1>2. m \in {x, y} /\ \A z \in {x, y} : m <= z
  BY <1>1
<1>3. \A z \in {x, y} : (\A w \in {x, y} : z <= w) => z = m
  BY <1>1
<1> QED BY <1>1, <1>2, <1>3 DEF Min

LEMMA Multiples ==
  ASSUME NEW per \in Nat \ {0}, NEW i \in Nat
  PROVE  i * per \in Nat /\ (i + 1) * per = i * per + per /\ i * per >= i
         /\ 0 * per = 0 /\ 1 * per = per
<1> DEFINE T == {n \in Nat : n * per \in Nat /\ n * per >= n}
<1>1. 0 \in T
  OBVIOUS
<1>2. \A n \in Nat : (n + 1) * per = n * per + per
  OBVIOUS
<1>3. \A n \in T : n + 1 \in T
  <2> SUFFICES ASSUME NEW n \in T PROVE n + 1 \in T
    OBVIOUS
  <2>1. PICK m \in Nat : m = n * per /\ m >= n
    OBVIOUS
  <2>2. (n + 1) * per = m + per
    BY <1>2, <2>1
  <2>3. m + per \in Nat /\ m + per >= n + 1
    BY <2>1
  <2> QED BY <2>2, <2>3
<1>4. i \in T
  <2> HIDE DEF T
  <2>1. T \subseteq Nat
    BY DEF T
  <2> QED BY <1>1, <1>3, <2>1, Counting
<1> QED BY <1>2, <1>4

LEMMA SubSequences ==
  ASSUME NEW S, NEW n \in Nat, NEW all \in [1..n -> S], NEW a \in 0..n, NEW b \in a..n
  PROVE  /\ SubSeq(all, 1, a) \o SubSeq(all, a + 1, b) = SubSeq(all, 1, b)
         /\ SubSeq(all, 1, n) = all
<1>1. all \in Seq(S) /\ Len(all) = n
  OBVIOUS
<1>2. SubSeq(all, 1, a) \in Seq(S) /\ SubSeq(all, a + 1, b) \in Seq(S) /\ SubSeq(all, 1, b) \in Seq(S)
  BY <1>1
<1>3. Len(SubSeq(all, 1, a)) = a /\ Len(SubSeq(all, a + 1, b)) = b - a /\ Len(SubSeq(all, 1, b)) = b
  BY <1>1
<1>4. \A i \in 1..b : (SubSeq(all, 1, a) \o SubSeq(all, a + 1, b))[i] = SubSeq(all, 1, b)[i]
  BY <1>1, <1>2, <1>3
<1> QED BY <1>1, <1>2, <1>3, <1>4

\* The pages of a list, one after another, are the list.
LEMMA PagesAreAll ==
  ASSUME NEW S, NEW n \in Nat, NEW all \in [1..n -> S], NEW per \in Nat \ {0}
  PROVE  FlattenSeq([m \in 1..Len(all) |-> Page(all, m, per)]) = all
<1> DEFINE upTo(i)  == IF i * per <= n THEN i * per ELSE n
           first(i) == SubSeq(all, 1, upTo(i))
<1>1. all \in Seq(S) /\ Len(all) = n
  OBVIOUS
<1>2. PICK pages : pages = [m \in 1..n |-> Page(all, m, per)]
  OBVIOUS
<1>3. Len(pages) = n /\ DOMAIN pages = 1..n
  <2>1. PICK X : X = {Page(all, m, per) : m \in 1..n}
    OBVIOUS
  <2>2. pages \in [1..n -> X]
    BY <1>2, <2>1
  <2>3. pages \in Seq(X) /\ Len(pages) = n
    BY <2>2
  <2> QED BY <2>2, <2>3
<1>4. ASSUME NEW i \in Nat
      PROVE  /\ upTo(i) \in 0..n /\ upTo(i + 1) \in upTo(i)..n
             /\ i * per <= n => upTo(i) = i * per
             /\ ~(i * per <= n) => upTo(i) = n /\ upTo(i + 1) = n
  <2>1. PICK x \in Nat, y \in Nat : x = i * per /\ y = (i + 1) * per /\ y = x + per
    BY Multiples
  <2> QED BY <2>1
<1>5. ASSUME NEW i \in Nat, i + 1 \in 1..n
      PROVE  pages[i + 1] = SubSeq(all, i * per + 1, upTo(i + 1))
  <2>1. PICK x \in Nat, y \in Nat : x = i * per /\ y = (i + 1) * per /\ y = x + per
    BY Multiples
  <2>2. (i + 1) - 1 = i
    OBVIOUS
  <2>3. Min({x + per, n}) = upTo(i + 1)
    <3>1. x + per \in Int /\ n \in Int
      BY <2>1
    <3> QED BY <2>1, <3>1, MinOfTwo
  <2>4. Page(all, i + 1, per) = SubSeq(all, x + 1, Min({x + per, n}))
    BY <1>1, <2>1, <2>2 DEF Page
  <2> QED BY <1>2, <1>5, <2>1, <2>3, <2>4
<1>6. ASSUME NEW i \in Nat, i + 1 \in 1..n
      PROVE  first(i) \o pages[i + 1] = first(i + 1)
  <2>1. CASE i * per <= n
    <3>1. upTo(i) = i * per /\ upTo(i) \in 0..n /\ upTo(i + 1) \in upTo(i)..n
      BY <1>4, <2>1
    <3>2. PICK a \in 0..n, b \in 0..n : a = upTo(i) /\ b = upTo(i + 1) /\ a = i * per /\ a <= b
      <4> HIDE DEF upTo
      <4> QED BY <3>1
    <3>3. pages[i + 1] = SubSeq(all, a + 1, b)
      <4> HIDE DEF upTo
      <4> QED BY <1>5, <1>6, <3>2
    <3>4. first(i) = SubSeq(all, 1, a) /\ first(i + 1) = SubSeq(all, 1, b)
      <4>1. \A x, y : x = y => SubSeq(all, 1, x) = SubSeq(all, 1, y)
        OBVIOUS
      <4> HIDE DEF upTo
      <4> QED BY <3>2, <4>1
    <3>5. SubSeq(all, 1, a) \o SubSeq(all, a + 1, b) = SubSeq(all, 1, b)
      <4>1. b \in a..n
        BY <3>2
      <4> QED BY <4>1, SubSequences
    <3> HIDE DEF first
    <3> QED BY <3>3, <3>4, <3>5
  <2>2. CASE ~(i * per <= n)
    <3>1. upTo(i) = n /\ upTo(i + 1) = n
      BY <1>4, <2>2
    <3>2. PICK x \in Nat : x = i * per /\ n < x
      <4>1. i * per \in Nat
        BY Multiples
      <4> QED BY <2>2, <4>1
    <3>3. pages[i + 1] = SubSeq(all, x + 1, n)
      BY <1>5, <1>6, <3>1, <3>2
    <3>4. SubSeq(all, x + 1, n) = <<>>
      BY <1>1, <3>2
    <3>5. first(i) = all /\ first(i + 1) = all
      BY <3>1, SubSequences
    <3> HIDE DEF first
    <3> QED BY <1>1, <3>3, <3>4, <3>5
  <2> QED BY <2>1, <2>2
<1>7. 0 < n => first(1) = pages[1] /\ first(n) = all
  <2> SUFFICES ASSUME 0 < n PROVE first(1) = pages[1] /\ first(n) = all
    OBVIOUS
  <2>1. 0 + 1 \in 1..n /\ 0 + 1 = 1
    OBVIOUS
  <2>2. 0 * per = 0
    BY Multiples
  <2>3. pages[1] = SubSeq(all, 1, upTo(1))
    <3>1. pages[0 + 1] = SubSeq(all, 0 * per + 1, upTo(0 + 1))
      BY <1>5, <2>1
    <3> QED BY <2>1, <2>2, <3>1
  <2>4. upTo(n) = n
    <3>1. PICK x \in Nat : x = n * per /\ x >= n
      BY Multiples
    <3> QED BY <3>1
  <2> QED BY <2>3, <2>4, SubSequences
<1>8. CASE n = 0
  <2>1. FlattenSeq(pages) = pages
    BY <1>3, <1>8 DEF FlattenSeq
  <2>2. pages = all
    BY <1>2, <1>8
  <2> QED BY <1>1, <1>2, <2>1, <2>2
<1>9. CASE 0 < n
  <2> DEFINE joins(g) == g = [i \in 1..Len(pages) |-> IF i = 1 THEN pages[i] ELSE g[i - 1] \o pages[i]]
  <2>1. FlattenSeq(pages) = (CHOOSE g : joins(g))[n]
    <3>1. Len(pages) # 0
      BY <1>3, <1>9
    <3>2. FlattenSeq(pages) = (CHOOSE g : joins(g))[Len(pages)]
      BY <3>1, Zenon DEF FlattenSeq
    <3> HIDE DEF joins
    <3> QED BY <1>3, <3>2
  <2>2. \E g : joins(g)
    <3> DEFINE g == [i \in 1..n |-> first(i)]
    <3>1. ASSUME NEW i \in 1..n PROVE g[i] = IF i = 1 THEN pages[i] ELSE g[i - 1] \o pages[i]
      <4>1. CASE i = 1
        BY <1>7, <1>9, <4>1
      <4>2. CASE i # 1
        <5>1. PICK j \in 1..n : i = j + 1 /\ i - 1 = j
          BY <4>2
        <5>2. g[j] = first(j) /\ g[i] = first(i) /\ j \in Nat
          BY <5>1
        <5>3. first(j) \o pages[j + 1] = first(j + 1)
          <6> HIDE DEF first
          <6> QED BY <1>6, <5>1, <5>2
        <5> HIDE DEF g, first
        <5> QED BY <4>2, <5>1, <5>2, <5>3
      <4> HIDE DEF g
      <4> QED BY <4>1, <4>2
    <3>2. g = [i \in 1..n |-> g[i]]
      OBVIOUS
    <3>3. joins(g)
      <4>1. g = [i \in 1..n |-> IF i = 1 THEN pages[i] ELSE g[i - 1] \o pages[i]]
        <5> HIDE DEF g
        <5> QED BY <3>1, <3>2
      <4> HIDE DEF g
      <4> QED BY <1>3, <4>1
    <3> QED BY <3>3
  <2>3. PICK g : joins(g) /\ FlattenSeq(pages) = g[n]
    <3> HIDE DEF joins
    <3> QED BY <2>1, <2>2
  <2>4. ASSUME NEW i \in 1..n PROVE g[i] = IF i = 1 THEN pages[i] ELSE g[i - 1] \o pages[i]
    <3>1. i \in 1..Len(pages)
      BY <1>3
    <3> QED BY <2>3, <3>1, Zenon
  <2> DEFINE T == {i \in Nat : i + 1 \in 1..n => g[i + 1] = first(i + 1)}
  <2>5. 0 \in T
    <3>1. g[1] = pages[1]
      BY <1>9, <2>4
    <3> HIDE DEF first
    <3> QED BY <1>7, <1>9, <3>1
  <2>6. ASSUME NEW i \in T PROVE i + 1 \in T
    <3> SUFFICES ASSUME i + 2 \in 1..n PROVE g[i + 2] = first(i + 2)
      <4>1. (i + 1) + 1 = i + 2 /\ i + 1 \in Nat
        OBVIOUS
      <4> HIDE DEF first
      <4> QED BY <4>1
    <3>1. i + 1 \in 1..n /\ i + 1 \in Nat /\ (i + 1) + 1 = i + 2 /\ (i + 2) - 1 = i + 1 /\ i + 2 # 1
      OBVIOUS
    <3>2. g[i + 1] = first(i + 1)
      <4> HIDE DEF first
      <4> QED BY <3>1
    <3>3. g[i + 2] = g[i + 1] \o pages[i + 2]
      BY <2>4, <3>1
    <3>4. first(i + 1) \o pages[i + 2] = first(i + 2)
      <4> HIDE DEF first
      <4> QED BY <1>6, <3>1
    <3> HIDE DEF first
    <3> QED BY <3>2, <3>3, <3>4
  <2>7. PICK m \in Nat : m + 1 = n
    <3>1. n - 1 \in Nat /\ (n - 1) + 1 = n
      BY <1>9
    <3> QED BY <3>1
  <2>8. m \in T
    <3> HIDE DEF T
    <3>1. T \subseteq Nat
      BY DEF T
    <3> QED BY <2>5, <2>6, <3>1, Counting
  <2>9. g[n] = first(n)
    <3> HIDE DEF first
    <3> QED BY <1>9, <2>7, <2>8
  <2> HIDE DEF first
  <2> QED BY <1>1, <1>2, <1>7, <1>9, <2>3, <2>9
<1> QED BY <1>8, <1>9

LEMMA OverviewHolds == GraphInv => OverviewIsAPartition
<1> SUFFICES ASSUME GraphInv, NEW map \in CommunityMaps
             PROVE  LET all == SetToSeq(Clusters(map))
                    IN  /\ UNION Clusters(map) = Uids
                        /\ MapThenSumSet(Cardinality, Clusters(map)) = Cardinality(Uids)
                        /\ \A per \in PerPage :
                              FlattenSeq([n \in 1..Len(all) |-> Page(all, n, per)]) = all
  BY DEF OverviewIsAPartition
<1>1. PICK S : S = Clusters(map)
  OBVIOUS
<1>2. PICK label : label = [u \in Uids |-> LabelIn(map, u)]
  OBVIOUS
<1>3. S = {{u \in Uids : label[u] = l} : l \in {label[u] : u \in Uids}}
  BY <1>1, <1>2 DEF Clusters
<1>4. UNION S = Uids
  BY <1>3
<1>5. IsFiniteSet(S)
  <2>1. PICK L : L = {label[u] : u \in Uids}
    OBVIOUS
  <2>2. IsFiniteSet(L)
    BY <2>1, FewSymbols, FiniteImage
  <2>3. PICK f : f = [l \in L |-> {u \in Uids : label[u] = l}]
    OBVIOUS
  <2>4. S = {f[l] : l \in L}
    BY <1>3, <2>1, <2>3
  <2> QED BY <2>2, <2>4, FiniteImage
<1>6. \A s \in S : IsFiniteSet(s)
  <2> SUFFICES ASSUME NEW s \in S PROVE IsFiniteSet(s)
    OBVIOUS
  <2>1. s \subseteq Uids
    BY <1>4
  <2> QED BY <2>1, FewSymbols, FS_Subset
<1>7. \A s, t \in S : s # t => s \cap t = {}
  <2> SUFFICES ASSUME NEW s \in S, NEW t \in S, NEW u \in s \cap t PROVE s = t
    OBVIOUS
  <2>1. PICK l \in {label[v] : v \in Uids} : s = {v \in Uids : label[v] = l}
    BY <1>3
  <2>2. PICK m \in {label[v] : v \in Uids} : t = {v \in Uids : label[v] = m}
    BY <1>3
  <2>3. l = m
    BY <2>1, <2>2
  <2> QED BY <2>1, <2>2, <2>3
<1>8. MapThenSumSet(Cardinality, S) = Cardinality(Uids)
  BY <1>4, <1>5, <1>6, <1>7, SumOfParts
<1>9. ASSUME NEW per \in PerPage
      PROVE  FlattenSeq([n \in 1..Len(SetToSeq(S)) |-> Page(SetToSeq(S), n, per)]) = SetToSeq(S)
  <2>1. per \in Nat \ {0}
    BY CommunityAssumption
  <2>2. PICK k, all : all = SetToSeq(S) /\ k \in Nat /\ k = Cardinality(S) /\ all \in [1..k -> S]
    BY <1>5, Listed
  <2>3. FlattenSeq([n \in 1..Len(all) |-> Page(all, n, per)]) = all
    <3>1. k \in Nat /\ all \in [1..k -> S]
      BY <2>2
    <3> QED BY <2>1, <3>1, PagesAreAll
  <2> QED BY <2>2, <2>3
<1> QED BY <1>1, <1>4, <1>8, <1>9

\* What the tools say of communities fits together, of every graph of every store and of
\* whatever communities were detected in it or before it changed (CommunityTools).
THEOREM CommunityToolsAgreeAlways == CommunitySpec => []CommunityToolsAgree
<1>1. GraphInit => GraphInv /\ CommunitiesInv
  BY GraphInvInit, CommunitiesInvInit
<1>2. GraphInv /\ CommunitiesInv /\ [CommunityNext]_graphVars => (GraphInv /\ CommunitiesInv)'
  BY GraphInvStep, CommunitiesInvStep
<1>3. GraphInv /\ CommunitiesInv => CommunityToolsAgree
  BY BridgesHold, IsolatedHolds, DetailHolds, MetricsHold, OverviewHolds, SurprisingHolds
     DEF CommunityToolsAgree, GraphInv
<1> QED BY <1>1, <1>2, <1>3, PTL DEF CommunitySpec

-----------------------------------------------------------------------------
(***************************************************************************)
(* What a diff changes and affects (ImpactTools).  parse_diff is a fold    *)
(* over lines; as a walk from state to state it can be cut at the ends of  *)
(* sections, and between two sections its state is known: what was read,   *)
(* and the file and the ranges of the section that is not yet closed.      *)
(***************************************************************************)
LEMMA LastIs ==
  ASSUME NEW k \in Nat, NEW s \in SUBSET (1..k), s # {}
  PROVE  Max(s) \in s /\ \A i \in s : i <= Max(s)
<1>1. IsFiniteSet(1..k)
  <2>1. 1 \in Int /\ k \in Int
    OBVIOUS
  <2> QED BY <2>1, FS_Interval
<1>2. IsFiniteSet(s)
  BY <1>1, FS_Subset
<1>3. s \subseteq Int
  OBVIOUS
<1> QED BY <1>2, <1>3, MaxIs

\* The fold over the first k lines, as the equation that defines it.
Folded(g, start, l, k) ==
    g = [s \in SUBSET (1..k) |-> IF s = {} THEN start ELSE ParseLine(g[s \ {Max(s)}], l[Max(s)])]

\* The state after the lines l, as a first-order operator.
After(start, l) == FoldLeft(ParseLine, start, l)

Walk(w, start, l, n) == w[0] = start /\ \A i \in 1..n : w[i] = ParseLine(w[i - 1], l[i])

LEMMA FoldedExists ==
  ASSUME NEW start, NEW l, NEW k \in Nat
  PROVE  \E g : Folded(g, start, l, k)
<1> DEFINE T == {n \in Nat : \E g : Folded(g, start, l, n)}
<1>1. 0 \in T
  <2> DEFINE g == [s \in SUBSET (1..0) |-> start]
  <2>1. \A s \in SUBSET (1..0) : s = {}
    OBVIOUS
  <2>2. \A s \in SUBSET (1..0) : g[s] = IF s = {} THEN start ELSE ParseLine(g[s \ {Max(s)}], l[Max(s)])
    BY <2>1
  <2>3. g = [s \in SUBSET (1..0) |-> g[s]]
    OBVIOUS
  <2> HIDE DEF g
  <2>4. Folded(g, start, l, 0)
    BY <2>2, <2>3, Zenon DEF Folded
  <2> QED BY <2>4
<1>2. ASSUME NEW n \in T PROVE n + 1 \in T
  <2>1. PICK g : Folded(g, start, l, n)
    OBVIOUS
  <2>2. \A s \in SUBSET (1..n) : g[s] = IF s = {} THEN start ELSE ParseLine(g[s \ {Max(s)}], l[Max(s)])
    BY <2>1, Zenon DEF Folded
  <2> DEFINE m == n + 1
             h == [s \in SUBSET (1..m) |-> IF m \in s THEN ParseLine(g[s \ {m}], l[m]) ELSE g[s]]
  <2>3. n \in Nat /\ m \in Nat /\ 1..m = (1..n) \cup {m} /\ m \notin 1..n
    OBVIOUS
  <2>4. ASSUME NEW s \in SUBSET (1..m)
        PROVE  h[s] = IF s = {} THEN start ELSE ParseLine(h[s \ {Max(s)}], l[Max(s)])
    <3>1. CASE m \in s
      <4>1. Max(s) = m
        <5>1. Max(s) \in s /\ m <= Max(s)
          BY <2>3, <3>1, LastIs
        <5>2. Max(s) \in 1..m
          BY <5>1
        <5> QED BY <2>3, <5>1, <5>2
      <4>2. s \ {m} \in SUBSET (1..m) /\ m \notin s \ {m}
        OBVIOUS
      <4>3. h[s \ {m}] = g[s \ {m}]
        BY <4>2
      <4>4. h[s] = ParseLine(g[s \ {m}], l[m])
        BY <3>1
      <4> HIDE DEF h
      <4> QED BY <3>1, <4>1, <4>3, <4>4
    <3>2. CASE m \notin s /\ s # {}
      <4>1. s \in SUBSET (1..n)
        BY <2>3, <3>2
      <4>2. PICK t : t = s \ {Max(s)}
        OBVIOUS
      <4>3. t \in SUBSET (1..m) /\ m \notin t
        BY <3>2, <4>2
      <4>4. h[t] = g[t] /\ h[s] = g[s]
        BY <3>2, <4>3
      <4> HIDE DEF h
      <4> QED BY <2>2, <3>2, <4>1, <4>2, <4>4
    <3>3. CASE s = {}
      <4>1. h[s] = g[s]
        BY <3>3
      <4>2. g[s] = start
        BY <2>2, <3>3
      <4> HIDE DEF h
      <4> QED BY <3>3, <4>1, <4>2
    <3> HIDE DEF h, m
    <3> QED BY <3>1, <3>2, <3>3
  <2>5. h = [s \in SUBSET (1..m) |-> h[s]]
    OBVIOUS
  <2>6. Folded(h, start, l, m)
    <3> HIDE DEF h, m
    <3> QED BY <2>4, <2>5, Zenon DEF Folded
  <2> HIDE DEF h
  <2> QED BY <2>3, <2>6
<1>3. \A n \in Nat : n \in T
  <2> HIDE DEF T
  <2>1. T \subseteq Nat
    BY DEF T
  <2> QED BY <1>1, <1>2, <2>1, Counting
<1> QED BY <1>3

\* The fold is a walk over the lines, one after another.
LEMMA FoldWalks ==
  ASSUME NEW start, NEW l, NEW n \in Nat, DOMAIN l = 1..n
  PROVE  \E w : Walk(w, start, l, n) /\ After(start, l) = w[n]
<1> DEFINE eqn(g, D) == g = [s \in SUBSET D |-> IF s = {} THEN start ELSE ParseLine(g[s \ {Max(s)}], l[Max(s)])]
<1>1. FoldLeft(ParseLine, start, l) = (CHOOSE g : eqn(g, DOMAIN l))[DOMAIN l]
  BY Zenon DEF FoldLeft, MapThenFoldSet
<1>2. PICK D : D = DOMAIN l
  OBVIOUS
<1>3. \E g : eqn(g, D)
  <2>1. PICK g : Folded(g, start, l, n)
    BY FoldedExists
  <2>2. D = 1..n
    BY <1>2
  <2> QED BY <2>1, <2>2, Zenon DEF Folded
<1>4. PICK g : eqn(g, D) /\ FoldLeft(ParseLine, start, l) = g[D]
  <2>1. FoldLeft(ParseLine, start, l) = (CHOOSE g : eqn(g, D))[D]
    BY <1>1, <1>2
  <2> HIDE DEF eqn
  <2> QED BY <1>3, <2>1
<1>5. D = 1..n
  <2> HIDE DEF eqn
  <2> QED BY <1>2
<1>6. \A s \in SUBSET (1..n) : g[s] = IF s = {} THEN start ELSE ParseLine(g[s \ {Max(s)}], l[Max(s)])
  <2>1. \A s \in SUBSET D : g[s] = IF s = {} THEN start ELSE ParseLine(g[s \ {Max(s)}], l[Max(s)])
    BY <1>4, Zenon
  <2> QED BY <1>5, <2>1
<1> DEFINE w == [i \in 0..n |-> g[1..i]]
<1>7. w[0] = start
  <2>1. 1..0 = {} /\ {} \in SUBSET (1..n) /\ 0 \in 0..n
    OBVIOUS
  <2>2. g[{}] = start
    BY <1>6, <2>1
  <2> QED BY <2>1, <2>2
<1>8. ASSUME NEW i \in 1..n PROVE w[i] = ParseLine(w[i - 1], l[i])
  <2>1. 1..i \in SUBSET (1..n) /\ 1..i # {} /\ i \in 1..i /\ (1..i) \ {i} = 1..(i - 1) /\ i \in Nat
    OBVIOUS
  <2>2. Max(1..i) = i
    <3>1. Max(1..i) \in 1..i /\ i <= Max(1..i)
      BY <2>1, LastIs
    <3> QED BY <3>1
  <2>3. g[1..i] = ParseLine(g[1..(i - 1)], l[i])
    BY <1>6, <2>1, <2>2
  <2>4. i \in 0..n /\ i - 1 \in 0..n
    OBVIOUS
  <2>5. w[i] = g[1..i] /\ w[i - 1] = g[1..(i - 1)]
    BY <2>4
  <2> HIDE DEF w
  <2> QED BY <2>3, <2>5
<1>9. w[n] = g[1..n]
  OBVIOUS
<1> HIDE DEF w
<1>10. Walk(w, start, l, n)
  BY <1>7, <1>8 DEF Walk
<1> QED BY <1>4, <1>5, <1>9, <1>10 DEF After

\* There is one walk.
LEMMA WalksAgree ==
  ASSUME NEW start, NEW l, NEW n \in Nat, NEW v, NEW w, Walk(v, start, l, n), Walk(w, start, l, n)
  PROVE  v[n] = w[n]
<1> DEFINE T == {i \in Nat : i <= n => v[i] = w[i]}
<1>1. 0 \in T
  BY DEF Walk
<1>2. ASSUME NEW i \in T PROVE i + 1 \in T
  <2> SUFFICES ASSUME i + 1 <= n PROVE v[i + 1] = w[i + 1]
    OBVIOUS
  <2>1. PICK j \in 1..n : j = i + 1 /\ j - 1 = i
    OBVIOUS
  <2>2. v[j] = ParseLine(v[i], l[j]) /\ w[j] = ParseLine(w[i], l[j]) /\ v[i] = w[i]
    BY <2>1 DEF Walk
  <2> QED BY <2>1, <2>2
<1>3. n \in T
  <2>1. T \subseteq Nat
    OBVIOUS
  <2> HIDE DEF T
  <2> QED BY <1>1, <1>2, <2>1, Counting
<1> QED BY <1>3

LEMMA FoldEnds ==
  ASSUME NEW start, NEW l, NEW n \in Nat, DOMAIN l = 1..n, NEW w, Walk(w, start, l, n)
  PROVE  After(start, l) = w[n]
<1>1. PICK v : Walk(v, start, l, n) /\ After(start, l) = v[n]
  BY FoldWalks
<1>2. v[n] = w[n]
  BY <1>1, WalksAgree
<1> QED BY <1>1, <1>2

\* One sequence of lines after another.
LEMMA FoldJoins ==
  ASSUME NEW X, NEW a \in Seq(X), NEW b \in Seq(X), NEW start
  PROVE  After(start, a \o b)
            = After(After(start, a), b)
<1>1. PICK m \in Nat, n \in Nat : m = Len(a) /\ n = Len(b)
  OBVIOUS
<1>2. PICK l : l = a \o b
  OBVIOUS
<1>3. /\ DOMAIN a = 1..m /\ DOMAIN b = 1..n /\ DOMAIN l = 1..(m + n) /\ m + n \in Nat
      /\ \A i \in 1..m : l[i] = a[i]
      /\ \A j \in 1..n : l[m + j] = b[j]
  BY <1>1, <1>2
<1>4. PICK w : Walk(w, start, l, m + n) /\ After(start, l) = w[m + n]
  BY <1>3, FoldWalks
<1>5. After(start, a) = w[m]
  <2>1. ASSUME NEW i \in 1..m PROVE w[i] = ParseLine(w[i - 1], a[i])
    <3>1. i \in 1..(m + n)
      OBVIOUS
    <3> QED BY <1>3, <1>4, <3>1 DEF Walk
  <2>2. Walk(w, start, a, m)
    BY <1>4, <2>1 DEF Walk
  <2> QED BY <1>3, <2>2, FoldEnds
<1>6. After(w[m], b) = w[m + n]
  <2> DEFINE v == [j \in 0..n |-> w[m + j]]
  <2>1. v[0] = w[m] /\ v[n] = w[m + n]
    OBVIOUS
  <2>2. ASSUME NEW j \in 1..n PROVE v[j] = ParseLine(v[j - 1], b[j])
    <3>1. m + j \in 1..(m + n) /\ j \in 0..n /\ j - 1 \in 0..n /\ (m + j) - 1 = m + (j - 1)
      OBVIOUS
    <3>2. w[m + j] = ParseLine(w[(m + j) - 1], l[m + j])
      BY <1>4, <3>1 DEF Walk
    <3>3. v[j] = w[m + j] /\ v[j - 1] = w[m + (j - 1)]
      BY <3>1
    <3> HIDE DEF v
    <3> QED BY <1>3, <3>1, <3>2, <3>3
  <2> HIDE DEF v
  <2>3. Walk(v, w[m], b, n)
    BY <2>1, <2>2 DEF Walk
  <2> QED BY <1>3, <2>1, <2>3, FoldEnds
<1> QED BY <1>2, <1>4, <1>5, <1>6

-----------------------------------------------------------------------------
\* The marks of a state, as terms.
Yes == TRUE
No  == FALSE

State(hs, f, r, n, x) == [hunks |-> hs, file |-> f, ranges |-> r, new |-> n, deleted |-> x]

Sections == [path : Range(DiffPaths), change : Changes, hunks : Hunks]

RangesOf(hunks) == {<<h.start, h.start + h.count - 1>> : h \in {y \in Range(hunks) : y.count > 0}}

\* What one line does.
LEMMA DiffRead ==
  ASSUME NEW hs, NEW f, NEW r, NEW n, NEW x, f = NoPath => r = {}
  PROVE  ParseLine(State(hs, f, r, n, x), [is |-> "diff"])
            = State(Flush(State(hs, f, r, n, x)), NoPath, {}, No, No)
BY DEF ParseLine, State, Yes, No

LEMMA OldRead ==
  ASSUME NEW hs, NEW f, NEW r, NEW n, NEW x, NEW p
  PROVE  ParseLine(State(hs, f, r, n, x), [is |-> "---", path |-> p])
            = IF p = NoPath THEN State(hs, f, r, Yes, x) ELSE State(hs, f, r, n, x)
<1> PICK line, st : line = [is |-> "---", path |-> p] /\ st = State(hs, f, r, n, x)
  OBVIOUS
<1>1. line.is = "---" /\ line.path = p
  OBVIOUS
<1>2. ParseLine(st, line) = IF p = NoPath THEN [st EXCEPT !.new = TRUE] ELSE st
  BY <1>1 DEF ParseLine
<1> QED BY <1>2 DEF State, Yes, No

LEMMA NewRead ==
  ASSUME NEW hs, NEW f, NEW r, NEW n, NEW x, NEW p
  PROVE  ParseLine(State(hs, f, r, n, x), [is |-> "+++", path |-> p])
            = IF p # NoPath THEN State(hs, p, r, n, x) ELSE State(hs, f, r, n, Yes)
<1> PICK line, st : line = [is |-> "+++", path |-> p] /\ st = State(hs, f, r, n, x)
  OBVIOUS
<1>1. line.is = "+++" /\ line.path = p
  OBVIOUS
<1>2. ParseLine(st, line) = IF p # NoPath THEN [st EXCEPT !.file = p] ELSE [st EXCEPT !.deleted = TRUE]
  BY <1>1 DEF ParseLine
<1> QED BY <1>2 DEF State, Yes, No

LEMMA HunkRead ==
  ASSUME NEW hs, NEW f, NEW r, NEW n, NEW x, NEW a \in Nat, NEW c \in Nat, NEW line, NEW q,
         line = [is |-> "@@", start |-> a, count |-> c],
         q = IF c = 0 THEN r ELSE r \cup {<<a, a + c - 1>>}
  PROVE  ParseLine(State(hs, f, r, n, x), line) = State(hs, f, q, n, x)
BY DEF ParseLine, State, Yes, No

\* The lines of a section.
OldLine(s) == IF s.change = "added" THEN [is |-> "---", path |-> NoPath]
              ELSE [is |-> "---", path |-> s.path]
NewLine(s) == IF s.change = "deleted" THEN [is |-> "+++", path |-> NoPath]
              ELSE [is |-> "+++", path |-> s.path]
HunkLines(s) ==
    [i \in DOMAIN s.hunks |-> [is |-> "@@", start |-> IF s.change = "deleted" THEN 0 ELSE s.hunks[i].start,
                               count |-> IF s.change = "deleted" THEN 0 ELSE s.hunks[i].count]]

\* The hunks of a section add their ranges.
LEMMA HunksRead ==
  ASSUME NEW s, s.hunks \in Seq([start : Nat, count : Nat]), NEW hs, NEW f, NEW n, NEW x
  PROVE  After(State(hs, f, {}, n, x), HunkLines(s))
            = State(hs, f, IF s.change = "deleted" THEN {} ELSE RangesOf(s.hunks), n, x)
<1> PICK hunks, lines : hunks = s.hunks /\ lines = HunkLines(s)
  OBVIOUS
<1> DEFINE zero == s.change = "deleted"
<1>0. lines = [i \in DOMAIN hunks |-> [is |-> "@@", start |-> IF zero THEN 0 ELSE hunks[i].start,
                                          count |-> IF zero THEN 0 ELSE hunks[i].count]]
  BY DEF HunkLines
<1>1. PICK m \in Nat : m = Len(hunks)
  OBVIOUS
<1>2. DOMAIN hunks = 1..m /\ \A i \in 1..m : hunks[i] \in [start : Nat, count : Nat]
  <2> PICK H : H = [start : Nat, count : Nat]
    OBVIOUS
  <2>1. hunks \in Seq(H)
    OBVIOUS
  <2>2. DOMAIN hunks = 1..m /\ \A i \in 1..m : hunks[i] \in H
    BY ONLY <1>1, <2>1
  <2> QED BY <2>2
<1>3. DOMAIN lines = 1..m
  BY <1>0, <1>2
<1> DEFINE span(h) == <<h.start, h.start + h.count - 1>>
           upTo(j) == IF zero THEN {} ELSE {span(hunks[i]) : i \in {k \in 1..j : hunks[k].count > 0}}
           w == [j \in 0..m |-> State(hs, f, upTo(j), n, x)]
<1>4. w[0] = State(hs, f, {}, n, x)
  <2>1. upTo(0) = {}
    OBVIOUS
  <2>2. 0 \in 0..m
    OBVIOUS
  <2> HIDE DEF upTo
  <2> QED BY <2>1, <2>2
<1>5. ASSUME NEW j \in 1..m PROVE w[j] = ParseLine(w[j - 1], lines[j])
  <2>1. PICK a, c : a = (IF zero THEN 0 ELSE hunks[j].start) /\ c = (IF zero THEN 0 ELSE hunks[j].count)
    OBVIOUS
  <2>2. lines[j] = [is |-> "@@", start |-> a, count |-> c]
    BY <1>0, <1>2, <2>1
  <2>3. j \in 0..m /\ j - 1 \in 0..m
    OBVIOUS
  <2>4. w[j] = State(hs, f, upTo(j), n, x) /\ w[j - 1] = State(hs, f, upTo(j - 1), n, x)
    <3> HIDE DEF upTo
    <3> QED BY <2>3
  <2>5. upTo(j) = IF c = 0 THEN upTo(j - 1) ELSE upTo(j - 1) \cup {<<a, a + c - 1>>}
    <3>1. CASE zero
      BY <2>1, <3>1
    <3>2. CASE ~zero
      <4>1. a = hunks[j].start /\ c = hunks[j].count /\ c \in Nat
        BY <1>2, <2>1, <3>2
      <4>2. \A k : k \in 1..j <=> k \in 1..(j - 1) \/ k = j
        OBVIOUS
      <4> DEFINE K(i) == {k \in 1..i : hunks[k].count > 0}
      <4>3. K(j) = IF c = 0 THEN K(j - 1) ELSE K(j - 1) \cup {j}
        BY <4>1, <4>2
      <4>4. upTo(j) = {span(hunks[i]) : i \in K(j)} /\ upTo(j - 1) = {span(hunks[i]) : i \in K(j - 1)}
        BY <3>2
      <4>5. span(hunks[j]) = <<a, a + c - 1>>
        BY <4>1
      <4> HIDE DEF upTo, K, span
      <4> QED BY <4>3, <4>4, <4>5
    <3> QED BY <3>1, <3>2
  <2>6. a \in Nat /\ c \in Nat
    BY <1>2, <2>1
  <2> PICK r, q : r = upTo(j - 1) /\ q = upTo(j)
    OBVIOUS
  <2>7. q = IF c = 0 THEN r ELSE r \cup {<<a, a + c - 1>>}
    <3> HIDE DEF upTo
    <3> QED BY <2>5
  <2>8. ParseLine(State(hs, f, r, n, x), lines[j]) = State(hs, f, q, n, x)
    <3> HIDE DEF upTo, w
    <3> QED BY ONLY <2>2, <2>6, <2>7, HunkRead
  <2> HIDE DEF upTo, w
  <2> QED BY <2>4, <2>8
<1>6. Walk(w, State(hs, f, {}, n, x), lines, m)
  <2> HIDE DEF w
  <2> QED BY <1>4, <1>5 DEF Walk
<1>7. After(State(hs, f, {}, n, x), lines) = w[m]
  <2> HIDE DEF w
  <2> QED BY <1>3, <1>6, FoldEnds
<1>8. w[m] = State(hs, f, upTo(m), n, x)
  <2> HIDE DEF upTo
  <2> QED OBVIOUS
<1>9. upTo(m) = IF zero THEN {} ELSE RangesOf(hunks)
  <2> SUFFICES ASSUME ~zero PROVE upTo(m) = RangesOf(hunks)
    OBVIOUS
  <2>1. Range(hunks) = {hunks[i] : i \in 1..m}
    BY <1>2 DEF Range
  <2>2. {y \in Range(hunks) : y.count > 0} = {hunks[i] : i \in {k \in 1..m : hunks[k].count > 0}}
    BY <2>1
  <2> DEFINE Y == {y \in Range(hunks) : y.count > 0}
             K == {k \in 1..m : hunks[k].count > 0}
  <2>3. RangesOf(hunks) = {span(h) : h \in Y}
    BY DEF RangesOf
  <2>4. upTo(m) = {span(hunks[i]) : i \in K}
    OBVIOUS
  <2>5. Y = {hunks[i] : i \in K}
    BY <2>2
  <2> HIDE DEF upTo, Y, K, span
  <2> QED BY <2>3, <2>4, <2>5
<1> HIDE DEF upTo, w
<1> QED BY <1>7, <1>8, <1>9

LEMMA SectionParts ==
  ASSUME ImpactOK, NEW s \in Sections
  PROVE  /\ s.change \in Changes /\ s.path # NoPath
         /\ s.hunks \in Seq([start : Nat, count : Nat])
         /\ \E Y : \E one \in Seq(Y), two \in Seq(Y), three \in Seq(Y) :
               /\ one = <<[is |-> "diff"]>> /\ two = <<OldLine(s), NewLine(s)>> /\ three = HunkLines(s)
               /\ SectionLines(s) = one \o (IF s.change = "mode" THEN <<>> ELSE two \o three)
<1>1. s.change \in Changes /\ s.path # NoPath /\ s.hunks \in Hunks
  BY DEF Sections, ImpactOK
<1>2. s.hunks \in Seq([start : Nat, count : Nat])
  BY <1>1 DEF ImpactOK
<1>3. SectionLines(s) = <<[is |-> "diff"]>> \o (IF s.change = "mode" THEN <<>>
                                                ELSE <<OldLine(s), NewLine(s)>> \o HunkLines(s))
  BY Zenon DEF SectionLines, OldLine, NewLine, HunkLines
<1>4. PICK m \in Nat : m = Len(s.hunks) /\ DOMAIN s.hunks = 1..m
  <2> PICK H : H = [start : Nat, count : Nat]
    OBVIOUS
  <2>1. s.hunks \in Seq(H)
    BY <1>2
  <2> QED BY <2>1
<1> PICK hs, a, b, d : hs = HunkLines(s) /\ a = OldLine(s) /\ b = NewLine(s) /\ d = [is |-> "diff"]
  OBVIOUS
<1> PICK Y : Y = {hs[i] : i \in 1..m} \cup {a, b, d}
  OBVIOUS
<1>5. hs \in [1..m -> Y]
  <2>1. DOMAIN hs = 1..m /\ hs = [i \in 1..m |-> hs[i]]
    BY <1>4 DEF HunkLines
  <2>2. \A i \in 1..m : hs[i] \in Y
    OBVIOUS
  <2> QED BY <2>1, <2>2
<1>6. hs \in Seq(Y)
  BY ONLY <1>5
<1>7. a \in Y /\ b \in Y /\ d \in Y
  OBVIOUS
<1>8. <<d>> \in Seq(Y) /\ <<a, b>> \in Seq(Y)
  BY ONLY <1>7
<1> QED BY <1>1, <1>2, <1>3, <1>6, <1>8

AnyLine == UNION {Range(SectionLines(s)) : s \in Sections}

LEMMA LinesOfSection ==
  ASSUME ImpactOK, NEW s \in Sections
  PROVE  SectionLines(s) \in Seq(AnyLine)
<1>1. PICK Y : \E one \in Seq(Y), two \in Seq(Y), three \in Seq(Y) :
               /\ one = <<[is |-> "diff"]>> /\ two = <<OldLine(s), NewLine(s)>> /\ three = HunkLines(s)
               /\ SectionLines(s) = one \o (IF s.change = "mode" THEN <<>> ELSE two \o three)
  BY SectionParts
<1>2. SectionLines(s) \in Seq(Y)
  <2>1. PICK one \in Seq(Y), two \in Seq(Y), three \in Seq(Y) :
           SectionLines(s) = one \o (IF s.change = "mode" THEN <<>> ELSE two \o three)
    BY <1>1
  <2> PICK rest : rest = IF s.change = "mode" THEN <<>> ELSE two \o three
    OBVIOUS
  <2>2. rest \in Seq(Y)
    OBVIOUS
  <2>3. one \o rest \in Seq(Y)
    BY ONLY <2>2, one \in Seq(Y)
  <2> QED BY <2>1, <2>3
<1>3. SectionLines(s) \in Seq(Range(SectionLines(s)))
  <2> PICK l : l = SectionLines(s)
    OBVIOUS
  <2>1. Len(l) \in Nat /\ l \in [1..Len(l) -> Y]
    BY <1>2
  <2> QED BY <2>1, SequenceOfRange
<1>4. Range(SectionLines(s)) \subseteq AnyLine
  BY DEF AnyLine
<1> PICK l, R : l = SectionLines(s) /\ R = Range(SectionLines(s))
  OBVIOUS
<1>5. l \in Seq(R) /\ R \subseteq AnyLine
  BY <1>3, <1>4
<1>6. l \in Seq(AnyLine)
  BY ONLY <1>5
<1> QED BY <1>6

\* What the walk makes of a section.
SectionRead(st, s) ==
    CASE s.change = "mode"    -> State(Flush(st), NoPath, {}, No, No)
      [] s.change = "deleted" -> State(Flush(st), NoPath, {}, No, Yes)
      [] s.change = "added"   -> State(Flush(st), s.path, RangesOf(s.hunks), Yes, No)
      [] s.change = "modified" -> State(Flush(st), s.path, RangesOf(s.hunks), No, No)

LEMMA ReadsSection ==
  ASSUME ImpactOK, NEW s \in Sections, NEW hs, NEW f, NEW r, NEW n, NEW x, f = NoPath => r = {}
  PROVE  After(State(hs, f, r, n, x), SectionLines(s))
            = SectionRead(State(hs, f, r, n, x), s)
<1>0. s.change \in Changes /\ s.path # NoPath /\ s.hunks \in Seq([start : Nat, count : Nat])
  BY SectionParts
<1> USE <1>0
<1> PICK st, k : st = State(hs, f, r, n, x) /\ k = Flush(State(hs, f, r, n, x))
  OBVIOUS
<1>1. PICK Y : \E one \in Seq(Y), two \in Seq(Y), three \in Seq(Y) :
               /\ one = <<[is |-> "diff"]>> /\ two = <<OldLine(s), NewLine(s)>> /\ three = HunkLines(s)
               /\ SectionLines(s) = one \o (IF s.change = "mode" THEN <<>> ELSE two \o three)
  BY SectionParts
<1>2. PICK one \in Seq(Y), two \in Seq(Y), three \in Seq(Y) :
               /\ one = <<[is |-> "diff"]>> /\ two = <<OldLine(s), NewLine(s)>> /\ three = HunkLines(s)
               /\ SectionLines(s) = one \o (IF s.change = "mode" THEN <<>> ELSE two \o three)
  BY <1>1
<1>3. After(st, one) = State(k, NoPath, {}, No, No)
  <2> DEFINE w == [i \in 0..1 |-> IF i = 0 THEN st ELSE State(k, NoPath, {}, No, No)]
  <2> PICK e \in Nat : e = 1
    OBVIOUS
  <2>1. DOMAIN one = 1..e /\ one[1] = [is |-> "diff"]
    BY <1>2
  <2>2. ParseLine(st, [is |-> "diff"]) = State(k, NoPath, {}, No, No)
    <3>1. ParseLine(State(hs, f, r, n, x), [is |-> "diff"])
            = State(Flush(State(hs, f, r, n, x)), NoPath, {}, No, No)
      BY ONLY f = NoPath => r = {}, DiffRead
    <3> QED BY <3>1
  <2>3. w[0] = st /\ w[1] = State(k, NoPath, {}, No, No)
    OBVIOUS
  <2>4. \A i \in 1..e : i = 1 /\ i - 1 = 0
    OBVIOUS
  <2> HIDE DEF w
  <2>5. Walk(w, st, one, e)
    BY <2>1, <2>2, <2>3, <2>4 DEF Walk
  <2>6. e \in Nat /\ DOMAIN one = 1..e
    BY <2>1
  <2>7. After(st, one) = w[e]
    BY ONLY <2>5, <2>6, FoldEnds
  <2> QED BY <2>3, <2>7
<1>4. CASE s.change = "mode"
  <2>1. SectionLines(s) = one
    BY <1>2, <1>4
  <2> QED BY <1>3, <1>4, <2>1 DEF SectionRead
<1>5. CASE s.change # "mode"
  <2> DEFINE a == State(k, NoPath, {}, No, No)
             b == IF s.change = "added" THEN State(k, NoPath, {}, Yes, No) ELSE a
             c == IF s.change = "deleted" THEN State(k, NoPath, {}, No, Yes)
                  ELSE IF s.change = "added" THEN State(k, s.path, {}, Yes, No)
                  ELSE State(k, s.path, {}, No, No)
  <2>1. ParseLine(a, OldLine(s)) = b
    <3>1. ParseLine(a, [is |-> "---", path |-> NoPath]) = State(k, NoPath, {}, Yes, No)
      BY OldRead
    <3>2. ParseLine(a, [is |-> "---", path |-> s.path]) = a
      BY ONLY s.path # NoPath, OldRead
    <3> HIDE DEF a
    <3> QED BY <3>1, <3>2 DEF OldLine
  <2>2. ParseLine(b, NewLine(s)) = c
    <3>1. ParseLine(a, [is |-> "+++", path |-> NoPath]) = State(k, NoPath, {}, No, Yes)
      BY NewRead
    <3>2. ParseLine(a, [is |-> "+++", path |-> s.path]) = State(k, s.path, {}, No, No)
      BY ONLY s.path # NoPath, NewRead
    <3>3. ParseLine(State(k, NoPath, {}, Yes, No), [is |-> "+++", path |-> s.path])
             = State(k, s.path, {}, Yes, No)
      BY ONLY s.path # NoPath, NewRead
    <3> HIDE DEF a
    <3> QED BY <3>1, <3>2, <3>3 DEF NewLine
  <2>3. After(a, two) = c
    <3> DEFINE w == [i \in 0..2 |-> IF i = 0 THEN a ELSE IF i = 1 THEN b ELSE c]
    <3> PICK e \in Nat : e = 2
      OBVIOUS
    <3>1. DOMAIN two = 1..e /\ two[1] = OldLine(s) /\ two[2] = NewLine(s)
      BY <1>2
    <3> HIDE DEF a, b, c
    <3>2. w[0] = a /\ w[1] = b /\ w[2] = c
      OBVIOUS
    <3>3. \A i \in 1..e : (i = 1 /\ i - 1 = 0) \/ (i = 2 /\ i - 1 = 1)
      OBVIOUS
    <3> HIDE DEF w
    <3>4. Walk(w, a, two, e)
      BY <2>1, <2>2, <3>1, <3>2, <3>3 DEF Walk
    <3>5. e \in Nat /\ DOMAIN two = 1..e
      BY <3>1
    <3>6. After(a, two) = w[e]
      BY ONLY <3>4, <3>5, FoldEnds
    <3> QED BY <3>2, <3>6
  <2>4. After(c, three) = SectionRead(st, s)
    <3> PICK q : q = RangesOf(s.hunks)
      OBVIOUS
    <3>1. ASSUME NEW ff, NEW nn, NEW xx
          PROVE  After(State(k, ff, {}, nn, xx), three)
                   = State(k, ff, IF s.change = "deleted" THEN {} ELSE q, nn, xx)
      BY <1>0, <1>2, HunksRead
    <3>2. CASE s.change = "deleted"
      <4>1. After(State(k, NoPath, {}, No, Yes), three) = State(k, NoPath, {}, No, Yes)
        BY <3>1, <3>2, Zenon
      <4> QED BY <3>2, <4>1 DEF SectionRead
    <3>3. CASE s.change = "added"
      <4>1. After(State(k, s.path, {}, Yes, No), three) = State(k, s.path, q, Yes, No)
        BY <3>1, <3>3, Zenon
      <4> QED BY <3>3, <4>1 DEF SectionRead
    <3>4. CASE s.change = "modified"
      <4>1. After(State(k, s.path, {}, No, No), three) = State(k, s.path, q, No, No)
        BY <3>1, <3>4, Zenon
      <4> QED BY <3>4, <4>1 DEF SectionRead
    <3> QED BY <1>0, <1>5, <3>2, <3>3, <3>4 DEF Changes
  <2> HIDE DEF a, c
  <2>5. After(a, two \o three) = SectionRead(st, s)
    <3>1. two \in Seq(Y) /\ three \in Seq(Y)
      BY <1>2
    <3>2. After(a, two \o three) = After(After(a, two), three)
      BY ONLY <3>1, FoldJoins
    <3> HIDE DEF b
    <3> QED BY <2>3, <2>4, <3>2
  <2> PICK more : more = two \o three
    OBVIOUS
  <2>6. more \in Seq(Y)
    BY <1>2
  <2>7. SectionLines(s) = one \o more
    BY <1>2, <1>5
  <2>8. After(st, one \o more) = After(After(st, one), more)
    <3>1. one \in Seq(Y) /\ more \in Seq(Y)
      BY <2>6
    <3> QED BY ONLY <3>1, FoldJoins
  <2> QED BY <1>3, <2>5, <2>7, <2>8 DEF a
<1> QED BY <1>4, <1>5

-----------------------------------------------------------------------------
\* Some sequences one after another, up to each of them.
Concatenating(g, parts, n) == g[0] = <<>> /\ \A i \in 1..n : g[i] = g[i - 1] \o parts[i]

LEMMA Concatenates ==
  ASSUME NEW L, NEW n \in Nat, NEW parts \in [1..n -> Seq(L)]
  PROVE  \E g \in [0..n -> Seq(L)] : Concatenating(g, parts, n) /\ FlattenSeq(parts) = g[n]
<1> DEFINE Q == Seq(L)
           G == [x \in Q \X (1..n) |-> x[1] \o parts[x[2]]]
<1>1. G \in StepMaps(Q, n)
  <2>1. \A x \in Q \X (1..n) : x[1] \o parts[x[2]] \in Q
    OBVIOUS
  <2> HIDE DEF Q
  <2> QED BY <2>1 DEF StepMaps
<1>2. <<>> \in Q
  OBVIOUS
<1>3. PICK g : GoesBySteps(g, Q, n, <<>>, G)
  <2> HIDE DEF Q, G
  <2> QED BY <1>1, <1>2, StepsExist
<1>4. g \in [0..n -> Q] /\ g[0] = <<>> /\ \A i \in 1..n : g[i] = G[<<g[i - 1], i>>]
  <2> HIDE DEF Q, G
  <2> QED BY <1>3 DEF GoesBySteps
<1>5. ASSUME NEW i \in 1..n PROVE g[i] = g[i - 1] \o parts[i]
  <2>1. i - 1 \in 0..n
    OBVIOUS
  <2>2. <<g[i - 1], i>> \in Q \X (1..n)
    <3> HIDE DEF Q, G
    <3> QED BY <1>4, <2>1
  <2>3. G[<<g[i - 1], i>>] = g[i - 1] \o parts[i]
    BY <2>2
  <2> HIDE DEF Q, G
  <2> QED BY <1>4, <2>3
<1>6. Concatenating(g, parts, n)
  <2> HIDE DEF Q, G
  <2> QED BY <1>4, <1>5 DEF Concatenating
<1>7. Len(parts) = n
  <2> PICK S : S = Seq(L)
    OBVIOUS
  <2>1. parts \in [1..n -> S]
    OBVIOUS
  <2> QED BY ONLY <2>1, n \in Nat
<1>8. CASE n = 0
  <2>1. FlattenSeq(parts) = parts
    BY <1>7, <1>8 DEF FlattenSeq
  <2>2. parts = <<>>
    BY <1>8
  <2> HIDE DEF Q, G
  <2> QED BY <1>4, <1>6, <1>8, <2>1, <2>2
<1>9. CASE n # 0
  <2> DEFINE joins(h) == h = [i \in 1..Len(parts) |-> IF i = 1 THEN parts[i] ELSE h[i - 1] \o parts[i]]
  <2>1. FlattenSeq(parts) = (CHOOSE h : joins(h))[n]
    <3>1. FlattenSeq(parts) = (CHOOSE h : joins(h))[Len(parts)]
      BY <1>7, <1>9, Zenon DEF FlattenSeq
    <3> HIDE DEF joins
    <3> QED BY <1>7, <3>1
  <2>2. \E h : joins(h)
    <3> DEFINE h == [i \in 1..n |-> g[i]]
    <3>1. ASSUME NEW i \in 1..n PROVE h[i] = IF i = 1 THEN parts[i] ELSE h[i - 1] \o parts[i]
      <4>1. CASE i = 1
        <5>1. parts[i] \in Seq(L)
          OBVIOUS
        <5>2. <<>> \o parts[i] = parts[i]
          BY ONLY <5>1
        <5>3. g[1] = <<>> \o parts[1]
          <6>1. 1 - 1 = 0
            OBVIOUS
          <6> HIDE DEF Q, G
          <6> QED BY <1>4, <1>5, <4>1, <6>1
        <5> HIDE DEF Q, G
        <5> QED BY <4>1, <5>2, <5>3
      <4>2. CASE i # 1
        <5>1. i - 1 \in 1..n
          BY <4>2
        <5>2. h[i] = g[i] /\ h[i - 1] = g[i - 1]
          BY <5>1
        <5> HIDE DEF h, Q, G
        <5> QED BY <1>5, <4>2, <5>2
      <4> HIDE DEF h
      <4> QED BY <4>1, <4>2
    <3>2. h = [i \in 1..n |-> h[i]]
      OBVIOUS
    <3>3. joins(h)
      <4>1. h = [i \in 1..n |-> IF i = 1 THEN parts[i] ELSE h[i - 1] \o parts[i]]
        <5> HIDE DEF h
        <5> QED BY <3>1, <3>2
      <4> HIDE DEF h
      <4> QED BY <1>7, <4>1
    <3> QED BY <3>3
  <2>3. PICK h : joins(h) /\ FlattenSeq(parts) = h[n]
    <3> HIDE DEF joins
    <3> QED BY <2>1, <2>2
  <2>4. ASSUME NEW i \in 1..n PROVE h[i] = IF i = 1 THEN parts[i] ELSE h[i - 1] \o parts[i]
    <3>1. i \in 1..Len(parts)
      BY <1>7
    <3> QED BY <2>3, <3>1, Zenon
  <2> DEFINE T == {i \in Nat : i + 1 \in 1..n => h[i + 1] = g[i + 1]}
  <2>5. 0 \in T
    <3>1. 1 \in 1..n /\ 0 + 1 = 1 /\ 1 - 1 = 0
      BY <1>9
    <3>2. parts[1] \in Seq(L)
      BY <3>1
    <3>3. <<>> \o parts[1] = parts[1]
      BY ONLY <3>2
    <3>4. g[1] = <<>> \o parts[1]
      <4> HIDE DEF Q, G
      <4> QED BY <1>4, <1>5, <3>1
    <3>5. h[1] = parts[1]
      BY <2>4, <3>1
    <3>6. h[0 + 1] = g[0 + 1]
      BY <3>1, <3>3, <3>4, <3>5
    <3> HIDE DEF Q, G
    <3> QED BY <3>6
  <2>6. ASSUME NEW i \in T PROVE i + 1 \in T
    <3> SUFFICES ASSUME (i + 1) + 1 \in 1..n PROVE h[(i + 1) + 1] = g[(i + 1) + 1]
      OBVIOUS
    <3>1. PICK j \in 1..n : j = (i + 1) + 1 /\ j - 1 = i + 1 /\ j # 1 /\ i + 1 \in 1..n
      OBVIOUS
    <3>2. h[i + 1] = g[i + 1]
      BY <3>1
    <3>3. h[j] = h[j - 1] \o parts[j]
      BY <2>4, <3>1
    <3> HIDE DEF Q, G, T
    <3> QED BY <1>5, <3>1, <3>2, <3>3
  <2>7. PICK m \in Nat : m + 1 = n
    <3>1. n - 1 \in Nat /\ (n - 1) + 1 = n
      BY <1>9
    <3> QED BY <3>1
  <2>8. m \in T
    <3>1. T \subseteq Nat
      OBVIOUS
    <3> HIDE DEF T
    <3> QED BY <2>5, <2>6, <3>1, Counting
  <2>9. h[n] = g[n]
    <3>1. m + 1 \in 1..n
      BY <2>7
    <3> QED BY <2>7, <2>8, <3>1
  <2> HIDE DEF Q, G
  <2> QED BY <1>4, <1>6, <2>3, <2>9 DEF Q
<1> QED BY <1>8, <1>9

\* What a section leaves in the list: an entry if it has a new side.
HasNewSide(s) == s.change \in {"modified", "added"}
Entry(s) == [file |-> s.path, ranges |-> RangesOf(s.hunks), new |-> IF s.change = "added" THEN Yes ELSE No,
             deleted |-> No]

\* Between sections no ranges are held for no file.
BetweenSections(st) == \E hs, f, r, n, x : st = State(hs, f, r, n, x) /\ (f = NoPath => r = {})

LEMMA SectionFlushes ==
  ASSUME ImpactOK, NEW s \in Sections, NEW st
  PROVE  /\ BetweenSections(SectionRead(st, s))
         /\ Flush(SectionRead(st, s)) = IF HasNewSide(s) THEN Append(Flush(st), Entry(s)) ELSE Flush(st)
<1>1. s.change \in Changes /\ s.path # NoPath
  BY SectionParts
<1> PICK k : k = Flush(st)
  OBVIOUS
<1>2. CASE s.change = "mode"
  <2>1. SectionRead(st, s) = State(k, NoPath, {}, No, No)
    BY <1>2 DEF SectionRead
  <2>2. Flush(State(k, NoPath, {}, No, No)) = k
    BY DEF Flush, State
  <2>3. BetweenSections(SectionRead(st, s))
    BY <2>1 DEF BetweenSections
  <2> QED BY <1>2, <2>1, <2>2, <2>3 DEF HasNewSide
<1>3. CASE s.change = "deleted"
  <2>1. SectionRead(st, s) = State(k, NoPath, {}, No, Yes)
    BY <1>3 DEF SectionRead
  <2>2. Flush(State(k, NoPath, {}, No, Yes)) = k
    BY DEF Flush, State
  <2>3. BetweenSections(SectionRead(st, s))
    BY <2>1 DEF BetweenSections
  <2> QED BY <1>3, <2>1, <2>2, <2>3 DEF HasNewSide
<1>4. CASE s.change \in {"added", "modified"}
  <2> PICK new, p, r : new = (IF s.change = "added" THEN Yes ELSE No) /\ p = s.path /\ r = RangesOf(s.hunks)
    OBVIOUS
  <2>1. SectionRead(st, s) = State(k, p, r, new, No)
    BY <1>4 DEF SectionRead
  <2>2. Flush(State(k, p, r, new, No)) = Append(k, [file |-> p, ranges |-> r, new |-> new, deleted |-> No])
    BY <1>1 DEF Flush, State
  <2>3. BetweenSections(SectionRead(st, s))
    BY <1>1, <2>1 DEF BetweenSections
  <2>4. Entry(s) = [file |-> p, ranges |-> r, new |-> new, deleted |-> No]
    BY DEF Entry
  <2> QED BY <1>4, <2>1, <2>2, <2>3, <2>4 DEF HasNewSide
<1> QED BY <1>1, <1>2, <1>3, <1>4 DEF Changes

-----------------------------------------------------------------------------
\* The walk over a whole diff: what it has read of the first i sections.
Unread == State(<<>>, NoPath, {}, No, No)

KeptTo(d, i) == {j \in 1..i : HasNewSide(d[j])}
Entries(d) == {Entry(d[j]) : j \in KeptTo(d, Len(d))}

ReadTo(list, d, i) ==
    /\ list \in Seq(Entries(d))
    /\ Len(list) = Cardinality(KeptTo(d, i))
    /\ \A j \in KeptTo(d, i) : list[Cardinality(KeptTo(d, j))] = Entry(d[j])

LEMMA KeptCounts ==
  ASSUME NEW d, NEW i \in Nat
  PROVE  /\ IsFiniteSet(KeptTo(d, i)) /\ Cardinality(KeptTo(d, i)) \in Nat
         /\ \A j \in KeptTo(d, i) : Cardinality(KeptTo(d, j)) \in 1..Cardinality(KeptTo(d, i))
<1>1. ASSUME NEW j \in Nat PROVE IsFiniteSet(KeptTo(d, j)) /\ Cardinality(KeptTo(d, j)) \in Nat
  <2>1. IsFiniteSet(1..j) /\ KeptTo(d, j) \subseteq 1..j
    BY FS_Interval DEF KeptTo
  <2> QED BY <2>1, FS_Subset, FS_CardinalityType
<1>2. ASSUME NEW j \in KeptTo(d, i) PROVE Cardinality(KeptTo(d, j)) \in 1..Cardinality(KeptTo(d, i))
  <2>1. j \in Nat /\ KeptTo(d, j) \subseteq KeptTo(d, i) /\ j \in KeptTo(d, j)
    BY DEF KeptTo
  <2>2. Cardinality(KeptTo(d, j)) <= Cardinality(KeptTo(d, i))
    BY <1>1, <2>1, FS_Subset
  <2>3. Cardinality(KeptTo(d, j)) # 0
    BY <1>1, <2>1, FS_EmptySet
  <2> QED BY <1>1, <2>1, <2>2, <2>3
<1> QED BY <1>1, <1>2

LEMMA ReadGoesOn ==
  ASSUME NEW d, NEW n \in Nat, Len(d) = n, NEW i \in 1..n, NEW list, ReadTo(list, d, i - 1)
  PROVE  ReadTo(IF HasNewSide(d[i]) THEN Append(list, Entry(d[i])) ELSE list, d, i)
<1>1. PICK E, K, L, m : /\ E = Entries(d) /\ K = KeptTo(d, i - 1) /\ L = KeptTo(d, i)
                        /\ m = Cardinality(KeptTo(d, i - 1))
  OBVIOUS
<1>2. /\ list \in Seq(E) /\ Len(list) = m
      /\ \A j \in K : list[Cardinality(KeptTo(d, j))] = Entry(d[j])
  BY <1>1 DEF ReadTo
<1>3. i - 1 \in Nat /\ i \in Nat
  OBVIOUS
<1>4. m \in Nat /\ IsFiniteSet(K) /\ \A j \in K : Cardinality(KeptTo(d, j)) \in 1..m
  BY <1>1, <1>3, KeptCounts
<1>5. CASE ~HasNewSide(d[i])
  <2>1. L = K
    <3>1. \A j : j \in 1..i <=> j \in 1..(i - 1) \/ j = i
      OBVIOUS
    <3> QED BY <1>1, <1>5, <3>1 DEF KeptTo
  <2> QED BY <1>1, <1>2, <1>5, <2>1 DEF ReadTo
<1>6. CASE HasNewSide(d[i])
  <2> PICK e, more : e = Entry(d[i]) /\ more = Append(list, e)
    OBVIOUS
  <2>1. L = K \cup {i} /\ i \notin K
    <3>1. \A j : j \in 1..i <=> j \in 1..(i - 1) \/ j = i
      OBVIOUS
    <3>2. i \notin 1..(i - 1)
      OBVIOUS
    <3> QED BY <1>1, <1>6, <3>1, <3>2 DEF KeptTo
  <2>2. Cardinality(L) = m + 1
    BY <1>1, <1>4, <2>1, FS_AddElement
  <2>3. e \in E
    <3>1. i \in KeptTo(d, Len(d))
      BY <1>6 DEF KeptTo
    <3> QED BY <1>1, <3>1 DEF Entries
  <2>4. /\ more \in Seq(E) /\ Len(more) = m + 1 /\ more[m + 1] = e
        /\ \A k \in 1..m : more[k] = list[k]
    BY ONLY <1>2, <1>4, <2>3, more = Append(list, e)
  <2>5. ASSUME NEW j \in L PROVE more[Cardinality(KeptTo(d, j))] = Entry(d[j])
    <3>1. CASE j = i
      BY <1>1, <2>2, <2>4, <3>1
    <3>2. CASE j \in K
      BY <1>2, <1>4, <2>4, <3>2
    <3> QED BY <2>1, <3>1, <3>2
  <2>6. ReadTo(more, d, i)
    BY <1>1, <2>2, <2>4, <2>5 DEF ReadTo
  <2> QED BY <1>6, <2>6
<1> QED BY <1>5, <1>6

LEMMA DiffIsRead ==
  ASSUME ImpactOK, NEW d \in Seq(Sections)
  PROVE  ReadTo(ParseDiff(d), d, Len(d))
<1>1. PICK n \in Nat : n = Len(d)
  OBVIOUS
<1>2. DOMAIN d = 1..n /\ \A i \in 1..n : d[i] \in Sections
  <2> PICK S : S = Sections
    OBVIOUS
  <2>1. d \in Seq(S)
    OBVIOUS
  <2> QED BY <1>1, <2>1
<1>3. PICK parts : parts = [i \in 1..n |-> SectionLines(d[i])]
  OBVIOUS
<1>4. parts \in [1..n -> Seq(AnyLine)]
  <2>1. \A i \in 1..n : SectionLines(d[i]) \in Seq(AnyLine)
    BY <1>2, LinesOfSection
  <2> PICK Q : Q = Seq(AnyLine)
    OBVIOUS
  <2> QED BY <1>3, <2>1
<1>5. PICK g \in [0..n -> Seq(AnyLine)] : Concatenating(g, parts, n) /\ FlattenSeq(parts) = g[n]
  BY <1>4, Concatenates
<1>6. Lines(d) = g[n]
  BY <1>2, <1>3, <1>5 DEF Lines
<1> DEFINE st(i) == After(Unread, g[i])
           T == {i \in Nat : i <= n => BetweenSections(st(i)) /\ ReadTo(Flush(st(i)), d, i)}
<1>7. 0 \in T
  <2>1. g[0] = <<>>
    BY <1>5 DEF Concatenating
  <2>2. st(0) = Unread
    <3> PICK z \in Nat : z = 0
      OBVIOUS
    <3> PICK e, w : e = <<>> /\ w = [i \in {0} |-> Unread]
      OBVIOUS
    <3>1. Walk(w, Unread, e, z) /\ DOMAIN e = 1..z
      BY DEF Walk
    <3>2. After(Unread, e) = w[z]
      BY ONLY z \in Nat, <3>1, FoldEnds
    <3> QED BY <2>1, <3>2
  <2>3. BetweenSections(Unread)
    BY DEF BetweenSections, Unread
  <2>4. Flush(Unread) = <<>>
    BY DEF Flush, Unread, State
  <2>5. KeptTo(d, 0) = {}
    BY DEF KeptTo
  <2>6. ReadTo(<<>>, d, 0)
    <3>1. Cardinality(KeptTo(d, 0)) = 0 /\ \A j : j \notin KeptTo(d, 0)
      BY <2>5, FS_EmptySet
    <3> PICK E : E = Entries(d)
      OBVIOUS
    <3> QED BY <3>1 DEF ReadTo
  <2> HIDE DEF st
  <2> QED BY <2>2, <2>3, <2>4, <2>6
<1>8. ASSUME NEW k \in T PROVE k + 1 \in T
  <2> SUFFICES ASSUME k + 1 <= n PROVE BetweenSections(st(k + 1)) /\ ReadTo(Flush(st(k + 1)), d, k + 1)
    OBVIOUS
  <2>1. PICK i \in 1..n : i = k + 1 /\ i - 1 = k /\ k \in 0..n
    OBVIOUS
  <2> PICK s, was : s = d[i] /\ was = st(k)
    OBVIOUS
  <2>2. BetweenSections(was) /\ ReadTo(Flush(was), d, i - 1)
    <3> HIDE DEF st
    <3> QED BY <2>1
  <2>3. s \in Sections
    BY <1>2
  <2>4. g[i] = g[k] \o SectionLines(s)
    BY <1>3, <1>5, <2>1 DEF Concatenating
  <2>5. g[k] \in Seq(AnyLine)
    BY <1>5, <2>1
  <2>6. SectionLines(s) \in Seq(AnyLine)
    BY <2>3, LinesOfSection
  <2>7. After(Unread, g[k] \o SectionLines(s)) = After(After(Unread, g[k]), SectionLines(s))
    BY ONLY <2>5, <2>6, FoldJoins
  <2>8. st(i) = After(was, SectionLines(s))
    BY <2>4, <2>7
  <2>9. After(was, SectionLines(s)) = SectionRead(was, s)
    <3>1. PICK hs, f, r, m, x : was = State(hs, f, r, m, x) /\ (f = NoPath => r = {})
      BY <2>2 DEF BetweenSections
    <3> QED BY <2>3, <3>1, ReadsSection
  <2>10. /\ BetweenSections(SectionRead(was, s))
         /\ Flush(SectionRead(was, s)) = IF HasNewSide(s) THEN Append(Flush(was), Entry(s)) ELSE Flush(was)
    BY <2>3, SectionFlushes
  <2>11. ReadTo(IF HasNewSide(s) THEN Append(Flush(was), Entry(s)) ELSE Flush(was), d, i)
    BY <1>1, <2>2, ReadGoesOn
  <2> HIDE DEF st
  <2> QED BY <2>1, <2>8, <2>9, <2>10, <2>11
<1>9. n \in T
  <2>1. T \subseteq Nat
    OBVIOUS
  <2> HIDE DEF T
  <2> QED BY <1>7, <1>8, <2>1, Counting
<1>10. ParseDiff(d) = Flush(st(n))
  BY <1>6 DEF ParseDiff, After, Unread, State, No
<1> QED BY <1>1, <1>9, <1>10

\* What is read is the entries of the sections with a new side.
LEMMA ReadIsEntries ==
  ASSUME ImpactOK, NEW d \in Seq(Sections)
  PROVE  /\ Range(ParseDiff(d)) = {Entry(x) : x \in {y \in Range(d) : HasNewSide(y)}}
         /\ Len(ParseDiff(d)) \in Nat /\ DOMAIN ParseDiff(d) = 1..Len(ParseDiff(d))
<1>1. PICK n \in Nat : n = Len(d)
  OBVIOUS
<1>2. PICK S : S = Sections
  OBVIOUS
<1>3. DOMAIN d = 1..n
  <2>1. d \in Seq(S)
    BY <1>2
  <2> QED BY ONLY <1>1, <2>1
<1>4. PICK list, E : list = ParseDiff(d) /\ E = Entries(d)
  OBVIOUS
<1>5. /\ list \in Seq(E) /\ Len(list) = Cardinality(KeptTo(d, n))
      /\ \A j \in KeptTo(d, n) : list[Cardinality(KeptTo(d, j))] = Entry(d[j])
  BY <1>1, <1>4, DiffIsRead DEF ReadTo
<1>6. DOMAIN list = 1..Len(list) /\ Len(list) \in Nat /\ \A k \in 1..Len(list) : list[k] \in E
  BY ONLY <1>5
<1>7. Range(list) \subseteq E
  BY <1>6 DEF Range
<1>8. ASSUME NEW j \in KeptTo(d, n) PROVE Entry(d[j]) \in Range(list)
  <2> PICK c, x, m : c = Cardinality(KeptTo(d, j)) /\ x = Entry(d[j]) /\ m = Len(list)
    OBVIOUS
  <2>1. Cardinality(KeptTo(d, j)) \in 1..Cardinality(KeptTo(d, n))
    BY KeptCounts
  <2>2. c \in 1..m
    BY <1>5, <2>1
  <2>3. list[c] = x
    BY <1>5
  <2>4. DOMAIN list = 1..m
    BY <1>6
  <2> QED BY ONLY <2>2, <2>3, <2>4, x = Entry(d[j]) DEF Range
<1>9. E = {Entry(d[j]) : j \in KeptTo(d, n)}
  BY <1>1, <1>4 DEF Entries
<1>10. {y \in Range(d) : HasNewSide(y)} = {d[j] : j \in KeptTo(d, n)}
  BY <1>3 DEF Range, KeptTo
<1>11. {Entry(x) : x \in {y \in Range(d) : HasNewSide(y)}} = E
  <2> PICK K, F : K = KeptTo(d, n) /\ F = {y \in Range(d) : HasNewSide(y)}
    OBVIOUS
  <2> QED BY <1>9, <1>10
<1>12. Range(list) = E
  BY <1>7, <1>8, <1>9
<1> QED BY <1>4, <1>6, <1>11, <1>12

-----------------------------------------------------------------------------
\* A diff is a sequence of sections.
ImpactInv == GraphInv /\ diff \in Seq(Sections)

LEMMA ImpactInvInit == ImpactInit => ImpactInv
<1> SUFFICES ASSUME ImpactInit PROVE ImpactInv
  OBVIOUS
<1> PICK S : S = Sections
  OBVIOUS
<1>1. <<>> \in Seq(S)
  OBVIOUS
<1> QED BY <1>1, GraphInvInit DEF ImpactInit, ImpactInv

LEMMA ImpactInvStep == ImpactOK /\ ImpactInv /\ [ImpactNext]_<<graphVars, diff>> => ImpactInv'
<1> SUFFICES ASSUME ImpactOK, ImpactInv, [ImpactNext]_<<graphVars, diff>> PROVE ImpactInv'
  OBVIOUS
<1> PICK S : S = Sections
  OBVIOUS
<1>1. diff \in Seq(S)
  BY DEF ImpactInv
<1>2. CASE AddSection
  <2>1. PICK i \in DOMAIN DiffPaths, change \in Changes, hunks \in Hunks :
           diff' = Append(diff, [path |-> DiffPaths[i], change |-> change, hunks |-> hunks])
    BY <1>2 DEF AddSection
  <2>2. PICK s : s = [path |-> DiffPaths[i], change |-> change, hunks |-> hunks]
    OBVIOUS
  <2>3. s \in S
    BY <2>2 DEF Sections, Range
  <2>4. diff' = Append(diff, s)
    BY <2>1, <2>2
  <2>5. diff' \in Seq(S)
    BY ONLY <1>1, <2>3, <2>4
  <2>6. UNCHANGED graphVars
    BY <1>2 DEF AddSection
  <2>7. GraphInv'
    BY <2>6, GraphInvStep DEF ImpactInv, CommunityNext
  <2> QED BY <2>5, <2>7 DEF ImpactInv, Sections
<1>3. CASE [Connect]_graphVars /\ UNCHANGED diff
  <2>1. GraphInv'
    BY <1>3, GraphInvStep DEF ImpactInv, CommunityNext
  <2> QED BY <1>1, <1>3, <2>1 DEF ImpactInv, Sections
<1> QED BY <1>2, <1>3 DEF ImpactNext

\* The rows of a table.
LEMMA RowsOfTable ==
  ASSUME ImpactOK, GraphInv
  PROVE  /\ \A s \in Table : s.uid # Gone /\ s.first \in Nat /\ s.last \in Nat
         /\ \A r, s \in Table : r.uid = s.uid => r = s
BY DEF ImpactOK, GraphInv, Table

LEMMA ParseHolds == ImpactOK /\ ImpactInv => ParseIsFaithful
<1> SUFFICES ASSUME ImpactOK, ImpactInv PROVE ParseIsFaithful
  OBVIOUS
<1>0. diff \in Seq(Sections)
  BY DEF ImpactInv
<1>1. PICK n \in Nat : n = Len(diff)
  BY <1>0
<1>2. DOMAIN diff = 1..n /\ \A i \in 1..n : diff[i] \in Sections
  <2> PICK S : S = Sections
    OBVIOUS
  <2>1. diff \in Seq(S)
    BY <1>0
  <2> QED BY <1>1, <2>1
<1> PICK list : list = ParseDiff(diff)
  OBVIOUS
<1>3. /\ Len(list) = Cardinality(KeptTo(diff, n))
      /\ \A i \in KeptTo(diff, n) : list[Cardinality(KeptTo(diff, i))] = Entry(diff[i])
  BY <1>0, <1>1, DiffIsRead DEF ReadTo
<1>4. DOMAIN list = 1..Cardinality(KeptTo(diff, n))
  BY <1>0, <1>3, ReadIsEntries
<1>5. PICK written : written = {i \in DOMAIN diff : diff[i].change \in {"modified", "added"}}
  OBVIOUS
<1>6. written = KeptTo(diff, n) /\ written \subseteq 1..n
  BY <1>2, <1>5 DEF KeptTo, HasNewSide
<1>7. PICK place : place = [i \in written |-> Cardinality(KeptTo(diff, i))]
  OBVIOUS
<1>8. place \in [written -> DOMAIN list]
  BY <1>4, <1>6, <1>7, KeptCounts
<1>9. ASSUME NEW i \in written, NEW j \in written, i < j PROVE place[i] < place[j]
  <2>1. i \in Nat /\ j \in Nat
    BY <1>6
  <2>2. PICK K, L : K = KeptTo(diff, i) /\ L = KeptTo(diff, j)
    OBVIOUS
  <2>3. K \subseteq L /\ j \in L /\ j \notin K
    BY <1>6, <1>9, <2>1, <2>2 DEF KeptTo
  <2>4. IsFiniteSet(K) /\ IsFiniteSet(L) /\ Cardinality(K) \in Nat /\ Cardinality(L) \in Nat
    BY <2>1, <2>2, KeptCounts
  <2>5. Cardinality(K) <= Cardinality(L) /\ Cardinality(K) # Cardinality(L)
    BY <2>3, <2>4, FS_Subset
  <2> QED BY <1>7, <2>2, <2>4, <2>5
<1>10. ASSUME NEW i \in written
       PROVE  /\ list[place[i]].file = diff[i].path
              /\ list[place[i]].new <=> diff[i].change = "added"
              /\ ~list[place[i]].deleted
              /\ list[place[i]].ranges = {<<h.start, h.start + h.count - 1>> :
                                             h \in {x \in Range(diff[i].hunks) : x.count > 0}}
  <2>1. PICK e : e = Entry(diff[i])
    OBVIOUS
  <2>2. list[place[i]] = e
    BY <1>3, <1>6, <1>7, <2>1
  <2>3. /\ e.file = diff[i].path /\ e.ranges = RangesOf(diff[i].hunks)
        /\ e.new = (IF diff[i].change = "added" THEN Yes ELSE No) /\ e.deleted = No
    BY <2>1 DEF Entry
  <2>4. (e.new <=> diff[i].change = "added") /\ ~e.deleted
    BY <2>3, Zenon DEF Yes, No
  <2>5. e.ranges = {<<h.start, h.start + h.count - 1>> : h \in {x \in Range(diff[i].hunks) : x.count > 0}}
    BY <2>3 DEF RangesOf
  <2> QED BY <2>2, <2>3, <2>4, <2>5
<1>11. ASSUME NEW h \in Range(list) PROVE \E x \in Range(diff) : x.path = h.file /\ x.change # "mode"
  <2>1. PICK x \in Range(diff) : HasNewSide(x) /\ h = Entry(x)
    BY <1>0, ReadIsEntries
  <2> QED BY <2>1 DEF Entry, HasNewSide
<1> QED BY <1>5, <1>8, <1>9, <1>10, <1>11, Zenon DEF ParseIsFaithful

-----------------------------------------------------------------------------
\* The symbols that a section with a new side touches.
LEMMA ChangedBy ==
  ASSUME ImpactOK, ImpactInv, NEW pick, NEW d \in Seq(Sections), NEW s
  PROVE  s \in DirectlyChanged(pick, d)
            <=> \E x \in Range(d) : HasNewSide(x) /\ s \in Touched(pick, Entry(x))
<1>1. Range(ParseDiff(d)) = {Entry(x) : x \in {y \in Range(d) : HasNewSide(y)}}
  BY ReadIsEntries
<1>2. s \in DirectlyChanged(pick, d) <=> \E h \in Range(ParseDiff(d)) : s \in Touched(pick, h)
  <2> PICK R : R = Range(ParseDiff(d))
    OBVIOUS
  <2>1. DirectlyChanged(pick, d) = UNION {Touched(pick, h) : h \in R}
    BY DEF DirectlyChanged
  <2> QED BY <2>1
<1> QED BY <1>1, <1>2

LEMMA TouchedBy ==
  ASSUME ImpactOK, ImpactInv, NEW pick, NEW x, NEW s
  PROVE  s \in Touched(pick, Entry(x))
            <=> /\ s \in Table /\ s.file = pick[x.path]
                /\ x.change = "added" \/ \E r \in RangesOf(x.hunks) : Overlaps(r, s)
<1>1. PICK e : e = Entry(x)
  OBVIOUS
<1>2. /\ e.file = x.path /\ e.ranges = RangesOf(x.hunks)
      /\ e.new = (IF x.change = "added" THEN Yes ELSE No) /\ e.deleted = No
  BY <1>1 DEF Entry
<1>3. (e.new <=> x.change = "added") /\ ~e.deleted
  BY <1>2, Zenon DEF Yes, No
<1>4. s \in Touched(pick, e)
         <=> /\ s \in Table /\ s.file = pick[e.file]
             /\ e.new \/ e.deleted \/ \E r \in e.ranges : Overlaps(r, s)
  BY Zenon DEF Touched
<1> QED BY <1>1, <1>2, <1>3, <1>4, Zenon

LEMMA TouchedHolds == ImpactOK /\ ImpactInv => ChangedAreTouched
<1> SUFFICES ASSUME ImpactOK, ImpactInv, NEW pick \in Picks
             PROVE  /\ \A s \in Table, x \in Range(diff) :
                          /\ x.path = s.file /\ x.change \in {"modified", "added"}
                          /\ x.change = "added" \/ \E h \in Range(x.hunks), line \in s.first..s.last :
                                                       line \in h.start..(h.start + h.count - 1)
                          => s \in DirectlyChanged(pick, diff)
                    /\ \A s \in DirectlyChanged(pick, diff) :
                          \E x \in Range(diff) :
                              x.path = s.file \/ (x.path \notin Paths /\ s.file \in Candidates(x.path))
  BY Zenon DEF ChangedAreTouched
<1>0. diff \in Seq(Sections)
  BY DEF ImpactInv
<1>1. ASSUME NEW x \in Range(diff)
      PROVE  x \in Sections /\ pick[x.path] \in Candidates(x.path)
  <2>1. x \in Sections
    <3> PICK S : S = Sections
      OBVIOUS
    <3>1. diff \in Seq(S)
      BY <1>0
    <3>2. x \in S
      BY ONLY <3>1, x \in Range(diff) DEF Range
    <3> QED BY <3>2
  <2> QED BY <2>1 DEF Sections, Picks
<1>2. ASSUME NEW s \in Table, NEW x \in Range(diff),
             x.path = s.file, x.change \in {"modified", "added"},
             x.change = "added" \/ \E h \in Range(x.hunks), line \in s.first..s.last :
                                       line \in h.start..(h.start + h.count - 1)
      PROVE  s \in DirectlyChanged(pick, diff)
  <2>1. pick[x.path] = s.file
    <3>1. x.path \in Paths
      BY <1>2 DEF Paths
    <3> QED BY <1>1, <1>2, <3>1 DEF Candidates
  <2>2. x.change = "added" \/ \E r \in RangesOf(x.hunks) : Overlaps(r, s)
    <3> SUFFICES ASSUME NEW h \in Range(x.hunks), NEW line \in s.first..s.last,
                        line \in h.start..(h.start + h.count - 1)
                 PROVE  \E r \in RangesOf(x.hunks) : Overlaps(r, s)
      BY <1>2
    <3>1. h.start \in Nat /\ h.count \in Nat
      <4> PICK H : H = [start : Nat, count : Nat]
        OBVIOUS
      <4>1. x.hunks \in Seq(H)
        BY <1>1 DEF Sections, ImpactOK
      <4>2. h \in H
        BY ONLY <4>1, h \in Range(x.hunks) DEF Range
      <4> QED BY <4>2
    <3>2. s.first \in Nat /\ s.last \in Nat
      BY RowsOfTable DEF ImpactInv
    <3>3. h.count > 0 /\ h.start <= s.last /\ h.start + h.count - 1 >= s.first
      BY <3>1, <3>2
    <3> PICK a, b : a = h.start /\ b = h.start + h.count - 1
      OBVIOUS
    <3>4. <<a, b>> \in RangesOf(x.hunks)
      BY <3>3 DEF RangesOf
    <3>5. Overlaps(<<a, b>>, s)
      BY <3>3 DEF Overlaps
    <3> QED BY <3>4, <3>5
  <2>3. HasNewSide(x)
    BY <1>2 DEF HasNewSide
  <2>4. s \in Touched(pick, Entry(x))
    BY <2>1, <2>2, TouchedBy
  <2> QED BY <1>0, <2>3, <2>4, ChangedBy
<1>3. ASSUME NEW s \in DirectlyChanged(pick, diff)
      PROVE  \E x \in Range(diff) :
                 x.path = s.file \/ (x.path \notin Paths /\ s.file \in Candidates(x.path))
  <2>1. PICK x \in Range(diff) : s \in Touched(pick, Entry(x))
    BY <1>0, ChangedBy
  <2>2. s.file = pick[x.path]
    BY <2>1, TouchedBy
  <2>3. s.file \in Candidates(x.path)
    BY <1>1, <2>2
  <2>4. CASE x.path \in Paths
    BY <2>3, <2>4 DEF Candidates
  <2>5. CASE x.path \notin Paths
    BY <2>3, <2>5
  <2> QED BY <2>4, <2>5
<1> QED BY <1>2, <1>3

-----------------------------------------------------------------------------
\* The first two layers around some uids.
LEMMA OneLayerOut ==
  ASSUME NEW N, NEW near \in [N -> SUBSET N], NEW start \in SUBSET N
  PROVE  Layers(near, start, 1)[1] = Beside(near, start) \ start
<1>0. PICK n \in Nat : n = 1
  OBVIOUS
<1>1. PICK seen \in [0..n -> SUBSET N] :
         seen[0] = start /\ NewAt(Layers(near, start, n), seen, n) /\ SeesNext(near, seen, n)
  BY LayersAre
<1>2. 0 \in 0..n /\ 1 \in 0..n /\ 1 = 0 + 1
  BY <1>0
<1>3. Layers(near, start, n)[1] = seen[1] \ seen[0] /\ seen[1] = seen[0] \cup Beside(near, seen[0])
  BY <1>1, <1>2 DEF NewAt, SeesNext
<1> PICK B : B = Beside(near, start)
  OBVIOUS
<1>4. Layers(near, start, n)[1] = (start \cup B) \ start
  BY <1>1, <1>3
<1> QED BY <1>0, <1>4

Out(near, S) == S \cup Beside(near, S)

LEMMA TwoLayersOut ==
  ASSUME NEW N, NEW near \in [N -> SUBSET N], NEW start \in SUBSET N
  PROVE  /\ Layers(near, start, 2)[1] = Out(near, start) \ start
         /\ Layers(near, start, 2)[2] = Out(near, Out(near, start)) \ Out(near, start)
<1> PICK once, twice : once = start \cup Beside(near, start) /\ twice = once \cup Beside(near, once)
  OBVIOUS
<1>0. PICK n \in Nat : n = 2
  OBVIOUS
<1>1. PICK seen \in [0..n -> SUBSET N] :
         seen[0] = start /\ NewAt(Layers(near, start, n), seen, n) /\ SeesNext(near, seen, n)
  BY LayersAre
<1>2. 0 \in 0..n /\ 1 \in 0..n /\ 2 \in 0..n /\ 1 = 0 + 1 /\ 2 = 1 + 1
  BY <1>0
<1>3. /\ Layers(near, start, n)[1] = seen[1] \ seen[0] /\ seen[1] = seen[0] \cup Beside(near, seen[0])
      /\ Layers(near, start, n)[2] = seen[2] \ seen[1] /\ seen[2] = seen[1] \cup Beside(near, seen[1])
  BY <1>1, <1>2 DEF NewAt, SeesNext
<1>4. seen[1] = once
  BY <1>1, <1>3
<1>5. seen[2] = twice
  BY <1>3, <1>4
<1> QED BY <1>0, <1>1, <1>3, <1>4, <1>5 DEF Out

-----------------------------------------------------------------------------
\* What the impact report searches along.
Nearby == [u \in Uids \cup {Gone} |-> Neighbours(u)]

LEMMA NearbyIs ==
  ASSUME ImpactOK, GraphInv
  PROVE  /\ Nearby \in [RowEnds -> SUBSET RowEnds] /\ Gone \notin Uids
         /\ \A u \in Uids : \A v :
               v \in Nearby[u] <=> \E e \in Rels({"Calls", "Imports"}) :
                                       \/ e.target = u /\ e.source = v
                                       \/ e.source = u /\ e.target = v
<1>1. Gone \notin Uids
  BY RowsOfTable DEF Uids
<1>2. PICK rows : rows = Rels({"Calls", "Imports"})
  OBVIOUS
<1>3. \A e \in rows : e.source \in RowEnds /\ e.target \in RowEnds
  <2>1. rows \subseteq Resolved
    BY <1>2 DEF Rels, Resolved
  <2> QED BY <2>1, RowsLead DEF GraphInv
<1>4. ASSUME NEW u \in RowEnds
      PROVE  Nearby[u] = IF u = Gone THEN {} ELSE Sources(To(rows, u)) \cup Targets(From(rows, u))
  BY <1>2 DEF Nearby, Neighbours, RowEnds
<1>5. ASSUME NEW u \in RowEnds PROVE Nearby[u] \subseteq RowEnds
  <2>1. Sources(To(rows, u)) \cup Targets(From(rows, u)) \subseteq RowEnds
    BY <1>3 DEF Sources, Targets, To, From
  <2> QED BY <1>4, <2>1
<1>6. Nearby = [u \in RowEnds |-> Nearby[u]]
  BY DEF Nearby, RowEnds
<1>7. Nearby \in [RowEnds -> SUBSET RowEnds]
  BY <1>5, <1>6
<1>8. ASSUME NEW u \in Uids, NEW v
      PROVE  v \in Nearby[u] <=> \E e \in rows : (e.target = u /\ e.source = v) \/ (e.source = u /\ e.target = v)
  <2>1. u \in RowEnds /\ u # Gone
    BY <1>1 DEF RowEnds
  <2>2. Nearby[u] = Sources(To(rows, u)) \cup Targets(From(rows, u))
    BY <1>4, <2>1
  <2> QED BY <2>2 DEF Sources, Targets, To, From
<1> QED BY <1>1, <1>2, <1>7, <1>8

\* The uids a diff changes, and those with what is at most one and two rows away.
ChangedUids(pick, d) == {s.uid : s \in DirectlyChanged(pick, d)}
OnceOut(pick, d)  == Out(Nearby, ChangedUids(pick, d))
TwiceOut(pick, d) == Out(Nearby, OnceOut(pick, d))

LEMMA ChangedAreUids ==
  ASSUME NEW pick, NEW d
  PROVE  /\ DirectlyChanged(pick, d) \subseteq Table
         /\ ChangedUids(pick, d) \subseteq Uids
         /\ ChangedUids(pick, d) \in SUBSET RowEnds
<1>1. DirectlyChanged(pick, d) \subseteq Table
  BY DEF DirectlyChanged, Touched
<1> QED BY <1>1 DEF ChangedUids, Uids, RowEnds

LEMMA AffectedOnce ==
  ASSUME ImpactOK, GraphInv, NEW pick, NEW d
  PROVE  \A u : <<u, 1>> \in Affected(pick, d, 1)
                    <=> u \in Uids /\ u \in Beside(Nearby, ChangedUids(pick, d)) \ ChangedUids(pick, d)
<1> PICK changed : changed = ChangedUids(pick, d)
  OBVIOUS
<1>1. changed \in SUBSET RowEnds
  BY ChangedAreUids
<1>2. Layers(Nearby, changed, 1)[1] = Beside(Nearby, changed) \ changed
  BY <1>1, NearbyIs, OneLayerOut
<1>3. PICK layers : layers = Layers(Nearby, changed, 1)
  OBVIOUS
<1>4. Affected(pick, d, 1) = {x \in Uids \X (1..1) : x[1] \in layers[x[2]]}
  BY <1>3, Zenon DEF Affected, Nearby, ChangedUids
<1>5. 1 \in 1..1
  OBVIOUS
<1> QED BY <1>2, <1>3, <1>4, <1>5

LEMMA AffectedTwice ==
  ASSUME ImpactOK, GraphInv, NEW pick, NEW d
  PROVE  /\ Affected(pick, d, 2) \subseteq Uids \X (1..2)
         /\ \A u \in Uids : /\ <<u, 1>> \in Affected(pick, d, 2) <=> u \in OnceOut(pick, d) \ ChangedUids(pick, d)
                            /\ <<u, 2>> \in Affected(pick, d, 2) <=> u \in TwiceOut(pick, d) \ OnceOut(pick, d)
<1> PICK changed, once, twice :
       changed = ChangedUids(pick, d) /\ once = OnceOut(pick, d) /\ twice = TwiceOut(pick, d)
  OBVIOUS
<1>1. changed \in SUBSET RowEnds
  BY ChangedAreUids
<1>2. /\ Layers(Nearby, changed, 2)[1] = once \ changed
      /\ Layers(Nearby, changed, 2)[2] = twice \ once
  BY <1>1, NearbyIs, TwoLayersOut DEF OnceOut, TwiceOut
<1>3. PICK layers : layers = Layers(Nearby, changed, 2)
  OBVIOUS
<1>4. Affected(pick, d, 2) = {x \in Uids \X (1..2) : x[1] \in layers[x[2]]}
  BY <1>3, Zenon DEF Affected, Nearby, ChangedUids
<1>5. 1 \in 1..2 /\ 2 \in 1..2
  OBVIOUS
<1> PICK K : K = 1..2
  OBVIOUS
<1>6. ASSUME NEW u \in Uids, NEW k \in K PROVE <<u, k>> \in Affected(pick, d, 2) <=> u \in layers[k]
  BY <1>4
<1>7. Affected(pick, d, 2) \subseteq Uids \X (1..2)
  BY <1>4
<1> QED BY <1>2, <1>3, <1>5, <1>6, <1>7

LEMMA NearHolds == ImpactOK /\ ImpactInv => AffectedAreNear
<1> SUFFICES ASSUME ImpactOK, ImpactInv, NEW pick \in Picks, NEW changed, NEW affected,
                    changed = {s.uid : s \in DirectlyChanged(pick, diff)},
                    affected = Affected(pick, diff, 2)
             PROVE  /\ {x[1] : x \in affected} \cap changed = {}
                    /\ \A e \in Rels({"Calls", "Imports"}) :
                          /\ e.source \in changed /\ e.target \in Uids \ changed
                                => <<e.target, 1>> \in affected
                          /\ e.target \in changed /\ e.source \in Uids \ changed
                                => <<e.source, 1>> \in affected
                    /\ \A x \in affected : FileOf(x[1]) \in AffectedFiles(pick, diff, 2)
  BY ZenonT(60) DEF AffectedAreNear
<1>0. GraphInv /\ changed = ChangedUids(pick, diff) /\ changed \subseteq Uids
  BY ChangedAreUids DEF ImpactInv, ChangedUids
<1> PICK once, twice : once = OnceOut(pick, diff) /\ twice = TwiceOut(pick, diff)
  OBVIOUS
<1>1. /\ affected \subseteq Uids \X (1..2)
      /\ \A u \in Uids : /\ <<u, 1>> \in affected <=> u \in once \ changed
                         /\ <<u, 2>> \in affected <=> u \in twice \ once
  <2>1. GraphInv /\ ImpactOK /\ changed = ChangedUids(pick, diff)
    BY <1>0
  <2> QED BY <2>1, AffectedTwice
<1>2. {x[1] : x \in affected} \cap changed = {}
  <2> SUFFICES ASSUME NEW x \in affected PROVE x[1] \notin changed
    OBVIOUS
  <2>1. PICK u \in Uids, k \in 1..2 : x = <<u, k>>
    BY <1>1
  <2>2. k = 1 \/ k = 2
    OBVIOUS
  <2>3. u \notin changed
    BY <1>0, <1>1, <2>1, <2>2 DEF Out, OnceOut
  <2> QED BY <2>1, <2>3
<1>3. \A w : w \in Beside(Nearby, changed) <=> \E v \in changed : w \in Nearby[v]
  BY BesideIs
<1>4. ASSUME NEW u \in changed, NEW v \in Uids \ changed, v \in Nearby[u]
      PROVE  <<v, 1>> \in affected
  <2>1. v \in once \ changed
    BY <1>0, <1>3, <1>4 DEF Out, OnceOut
  <2> QED BY <1>1, <2>1
<1>5. ASSUME NEW e \in Rels({"Calls", "Imports"})
      PROVE  /\ e.source \in changed /\ e.target \in Uids \ changed => <<e.target, 1>> \in affected
             /\ e.target \in changed /\ e.source \in Uids \ changed => <<e.source, 1>> \in affected
  BY <1>0, <1>4, NearbyIs
<1>6. \A x \in affected : FileOf(x[1]) \in AffectedFiles(pick, diff, 2)
  BY DEF AffectedFiles
<1> QED BY <1>2, <1>5, <1>6

-----------------------------------------------------------------------------
\* Counting what is lost of a set.
LEMMA LostAreFew ==
  ASSUME NEW S, NEW T, NEW N, IsFiniteSet(S), IsFiniteSet(T), IsFiniteSet(N),
         NEW f, \A x \in S \ T : \E y \in N : x = f[y]
  PROVE  Cardinality(S) <= Cardinality(T) + Cardinality(N)
<1>1. PICK L : L = S \ T
  OBVIOUS
<1>2. IsFiniteSet(L) /\ Cardinality(L) = Cardinality(S) - Cardinality(S \cap T)
  BY <1>1, FS_Difference
<1>3. IsFiniteSet(S \cap T) /\ Cardinality(S \cap T) <= Cardinality(T)
  BY FS_Intersection
<1> DEFINE M == {y \in N : f[y] \in L}
           g == [y \in M |-> f[y]]
<1>4. IsFiniteSet(M) /\ Cardinality(M) <= Cardinality(N)
  BY FS_Subset
<1>5. g \in Surjection(M, L)
  BY <1>1 DEF Surjection
<1>6. Cardinality(L) <= Cardinality(M)
  <2> HIDE DEF M, g
  <2> QED BY <1>4, <1>5, FS_Surjection
<1>7. /\ Cardinality(S) \in Nat /\ Cardinality(T) \in Nat /\ Cardinality(N) \in Nat
      /\ Cardinality(L) \in Nat /\ Cardinality(M) \in Nat /\ Cardinality(S \cap T) \in Nat
  <2> HIDE DEF M
  <2> QED BY <1>2, <1>3, <1>4, FS_CardinalityType
<1> HIDE DEF M
<1> QED BY <1>2, <1>3, <1>4, <1>6, <1>7

\* What is affected, without the distance.
AffectedUids(pick, d) == (TwiceOut(pick, d) \ ChangedUids(pick, d)) \cap Uids

LEMMA AffectedCount ==
  ASSUME ImpactOK, GraphInv, NEW pick, NEW d
  PROVE  /\ IsFiniteSet(Affected(pick, d, 2)) /\ IsFiniteSet(AffectedUids(pick, d))
         /\ Cardinality(Affected(pick, d, 2)) = Cardinality(AffectedUids(pick, d))
         /\ \A u : u \in AffectedUids(pick, d) <=> \E x \in Affected(pick, d, 2) : u = x[1]
<1> PICK A, U, changed, once, twice :
       /\ A = Affected(pick, d, 2) /\ U = AffectedUids(pick, d)
       /\ changed = ChangedUids(pick, d) /\ once = OnceOut(pick, d) /\ twice = TwiceOut(pick, d)
  OBVIOUS
<1>1. /\ A \subseteq Uids \X (1..2)
      /\ \A u \in Uids : (<<u, 1>> \in A <=> u \in once \ changed) /\ (<<u, 2>> \in A <=> u \in twice \ once)
  BY AffectedTwice
<1>2. changed \subseteq once /\ once \subseteq twice
  BY DEF OnceOut, TwiceOut, Out
<1>3. U = (twice \ changed) \cap Uids
  BY DEF AffectedUids
<1>4. ASSUME NEW x \in A 
      PROVE  /\ x[1] \in U
             /\ (x = <<x[1], 1>> /\ x[1] \in once) \/ (x = <<x[1], 2>> /\ x[1] \notin once)
  <2>1. PICK u \in Uids, k \in 1..2 : x = <<u, k>>
    BY <1>1
  <2>2. k = 1 \/ k = 2
    OBVIOUS
  <2>3. CASE k = 1
    <3>1. x = <<u, 1>> /\ x[1] = u
      BY <2>1, <2>3
    <3>2. u \in once /\ u \notin changed
      BY <1>1, <3>1
    <3>3. u \in U
      BY <1>2, <1>3, <3>2
    <3> QED BY <3>1, <3>2, <3>3
  <2>4. CASE k = 2
    <3>1. x = <<u, 2>> /\ x[1] = u
      BY <2>1, <2>4
    <3>2. u \in twice /\ u \notin once
      BY <1>1, <3>1
    <3>3. u \in U
      BY <1>2, <1>3, <3>2
    <3> QED BY <3>1, <3>2, <3>3
  <2> QED BY <2>2, <2>3, <2>4
<1>5. ASSUME NEW u \in U PROVE \E x \in A : u = x[1]
  <2>1. u \in Uids /\ u \in twice /\ u \notin changed
    BY <1>3
  <2>2. CASE u \in once
    <3>1. <<u, 1>> \in A
      BY <1>1, <2>1, <2>2
    <3>2. u = <<u, 1>>[1]
      OBVIOUS
    <3> QED BY <3>1, <3>2
  <2>3. CASE u \notin once
    <3>1. <<u, 2>> \in A
      BY <1>1, <2>1, <2>3
    <3>2. u = <<u, 2>>[1]
      OBVIOUS
    <3> QED BY <3>1, <3>2
  <2> QED BY <2>2, <2>3
<1>6. IsFiniteSet(A)
  <2>1. IsFiniteSet(Uids) /\ IsFiniteSet(1..2)
    <3>1. 1 \in Int /\ 2 \in Int
      OBVIOUS
    <3> QED BY <3>1, FewSymbols, FS_Interval
  <2>2. IsFiniteSet(Uids \X (1..2))
    BY <2>1, FS_Product
  <2> QED BY <1>1, <2>2, FS_Subset
<1> DEFINE f == [x \in A |-> x[1]]
<1>7. f \in Surjection(A, U)
  BY <1>4, <1>5 DEF Surjection
<1>8. f \in Injection(A, U)
  <2>1. f \in [A -> U]
    BY <1>4
  <2>2. ASSUME NEW x \in A, NEW y \in A, f[x] = f[y] PROVE x = y
    <3>1. x[1] = y[1]
      BY <2>2
    <3> HIDE DEF f
    <3> QED BY <1>4, <3>1
  <2> HIDE DEF f
  <2> QED BY <2>1, <2>2 DEF Injection, IsInjective
<1>9. IsFiniteSet(U) /\ Cardinality(U) = Cardinality(A)
  <2> HIDE DEF f
  <2> QED BY <1>6, <1>7, <1>8, FS_Surjection
<1> QED BY <1>4, <1>5, <1>6, <1>9

-----------------------------------------------------------------------------
\* A longer diff changes no less and reaches no less.
LEMMA DiffGrows ==
  ASSUME ImpactOK, ImpactInv, NEW pick, NEW c \in Seq(Sections), NEW d \in Seq(Sections), Range(c) \subseteq Range(d)
  PROVE  /\ Range(ParseDiff(c)) \subseteq Range(ParseDiff(d))
         /\ DirectlyChanged(pick, c) \subseteq DirectlyChanged(pick, d)
         /\ ChangedUids(pick, c) \subseteq ChangedUids(pick, d)
         /\ TwiceOut(pick, c) \subseteq TwiceOut(pick, d)
<1>1. Range(ParseDiff(c)) \subseteq Range(ParseDiff(d))
  <2> PICK C, D : C = {y \in Range(c) : HasNewSide(y)} /\ D = {y \in Range(d) : HasNewSide(y)}
    OBVIOUS
  <2>1. C \subseteq D
    OBVIOUS
  <2>2. Range(ParseDiff(c)) = {Entry(x) : x \in C} /\ Range(ParseDiff(d)) = {Entry(x) : x \in D}
    BY ReadIsEntries
  <2> QED BY <2>1, <2>2
<1>2. DirectlyChanged(pick, c) \subseteq DirectlyChanged(pick, d)
  BY ChangedBy
<1>3. ChangedUids(pick, c) \subseteq ChangedUids(pick, d)
  BY <1>2 DEF ChangedUids
<1>4. ASSUME NEW S, NEW T, S \subseteq T PROVE Out(Nearby, S) \subseteq Out(Nearby, T)
  <2>1. \A w : w \in Beside(Nearby, S) <=> \E v \in S : w \in Nearby[v]
    BY BesideIs
  <2>2. \A w : w \in Beside(Nearby, T) <=> \E v \in T : w \in Nearby[v]
    BY BesideIs
  <2> QED BY <1>4, <2>1, <2>2 DEF Out
<1>5. OnceOut(pick, c) \subseteq OnceOut(pick, d)
  BY <1>3, <1>4 DEF OnceOut
<1>6. TwiceOut(pick, c) \subseteq TwiceOut(pick, d)
  BY <1>4, <1>5 DEF TwiceOut
<1> QED BY <1>1, <1>2, <1>3, <1>6

-----------------------------------------------------------------------------
\* Rows that lead to what is changed.
Incoming(pick, d) == {e \in Rels({"Calls", "Imports"}) : e.target \in {s.uid : s \in DirectlyChanged(pick, d)}}

Raw(pick, d) ==
    10 * Cardinality(DirectlyChanged(pick, d)) + 5 * Cardinality(Affected(pick, d, 2))
    + 3 * Cardinality(Incoming(pick, d)) + 2 * Cardinality(AffectedFiles(pick, d, 2))

LEMMA RiskIs ==
  ASSUME NEW pick, NEW d
  PROVE  RiskScore(pick, d, 2) = IF ParseDiff(d) = <<>> THEN 0 ELSE 2 * Min({Raw(pick, d), 500})
BY Zenon DEF RiskScore, Raw, Incoming

LEMMA FewParts ==
  ASSUME ImpactOK, ImpactInv, NEW pick, NEW d \in Seq(Sections)
  PROVE  /\ IsFiniteSet(DirectlyChanged(pick, d)) /\ IsFiniteSet(Affected(pick, d, 2))
         /\ IsFiniteSet(Incoming(pick, d)) /\ IsFiniteSet(AffectedFiles(pick, d, 2))
<1>1. IsFiniteSet(DirectlyChanged(pick, d))
  <2>1. IsFiniteSet(Uids)
    BY FewSymbols DEF ImpactInv
  <2> PICK S : S = {s \in Table : TRUE}
    OBVIOUS
  <2> DEFINE row == [u \in Uids |-> SymbolOf(u)]
  <2>2. row \in Surjection(Uids, Table)
    <3>1. \A u \in Uids : SymbolOf(u) \in Table
      BY DEF SymbolOf, Uids
    <3>2. \A s \in Table : s.uid \in Uids /\ SymbolOf(s.uid) = s
      BY RowsOfTable DEF SymbolOf, Uids, ImpactInv
    <3> QED BY <3>1, <3>2 DEF Surjection
  <2>3. IsFiniteSet(Table)
    <3> HIDE DEF row
    <3> QED BY <2>1, <2>2, FS_Surjection
  <2> QED BY <2>3, ChangedAreUids, FS_Subset
<1>2. IsFiniteSet(Affected(pick, d, 2))
  BY AffectedCount DEF ImpactInv
<1>3. IsFiniteSet(Incoming(pick, d))
  <2>1. IsFiniteSet(edges) /\ Incoming(pick, d) \subseteq edges
    BY DEF Incoming, Rels, ImpactInv, GraphInv, EdgesInv
  <2> QED BY <2>1, FS_Subset
<1>4. IsFiniteSet(AffectedFiles(pick, d, 2))
  <2> PICK R, A : R = Range(ParseDiff(d)) /\ A = Affected(pick, d, 2)
    OBVIOUS
  <2>1. IsFiniteSet(R)
    <3>1. PICK list, n : list = ParseDiff(d) /\ n = Len(ParseDiff(d))
      OBVIOUS
    <3>2. n \in Nat /\ DOMAIN list = 1..n
      BY <3>1, ReadIsEntries
    <3>3. IsFiniteSet(1..n)
      <4>1. 1 \in Int /\ n \in Int
        BY <3>2
      <4> QED BY <4>1, FS_Interval
    <3> PICK K : K = 1..n
      OBVIOUS
    <3>4. R = {list[i] : i \in K}
      BY <3>1, <3>2 DEF Range
    <3>5. IsFiniteSet(K)
      BY <3>3
    <3> QED BY ONLY <3>4, <3>5, FiniteImage
  <2> DEFINE file == [h \in R |-> h.file]
             home == [x \in A |-> FileOf(x[1])]
  <2>2. IsFiniteSet({file[h] : h \in R}) /\ IsFiniteSet({home[x] : x \in A})
    <3> HIDE DEF file, home
    <3> QED BY <1>2, <2>1, FiniteImage
  <2>3. AffectedFiles(pick, d, 2) = {file[h] : h \in R} \cup {home[x] : x \in A}
    BY DEF AffectedFiles
  <2> PICK X, Y : X = {file[h] : h \in R} /\ Y = {home[x] : x \in A}
    OBVIOUS
  <2> HIDE DEF file, home
  <2>4. IsFiniteSet(X) /\ IsFiniteSet(Y) /\ AffectedFiles(pick, d, 2) = X \cup Y
    BY <2>2, <2>3
  <2>5. IsFiniteSet(X \cup Y)
    BY ONLY <2>4, FS_Union
  <2> QED BY <2>4, <2>5
<1> QED BY <1>1, <1>2, <1>3, <1>4

LEMMA RawGrows ==
  ASSUME ImpactOK, ImpactInv, NEW pick, NEW c \in Seq(Sections), NEW d \in Seq(Sections), Range(c) \subseteq Range(d)
  PROVE  Raw(pick, c) \in Nat /\ Raw(pick, d) \in Nat /\ Raw(pick, c) <= Raw(pick, d)
<1> PICK C, D, N : /\ C = DirectlyChanged(pick, c) /\ D = DirectlyChanged(pick, d)
                   /\ N = DirectlyChanged(pick, d) \ DirectlyChanged(pick, c)
  OBVIOUS
<1> PICK A, B, U, V : /\ A = Affected(pick, c, 2) /\ B = Affected(pick, d, 2)
                      /\ U = AffectedUids(pick, c) /\ V = AffectedUids(pick, d)
  OBVIOUS
<1> PICK E, F, G, H : /\ E = Incoming(pick, c) /\ F = Incoming(pick, d)
                      /\ G = AffectedFiles(pick, c, 2) /\ H = AffectedFiles(pick, d, 2)
  OBVIOUS
<1>1. GraphInv
  BY DEF ImpactInv
<1>2. /\ IsFiniteSet(C) /\ IsFiniteSet(D) /\ IsFiniteSet(A) /\ IsFiniteSet(B) /\ IsFiniteSet(E)
      /\ IsFiniteSet(F) /\ IsFiniteSet(G) /\ IsFiniteSet(H)
  BY FewParts
<1>3. /\ C \subseteq D /\ Range(ParseDiff(c)) \subseteq Range(ParseDiff(d))
      /\ ChangedUids(pick, c) \subseteq ChangedUids(pick, d) /\ TwiceOut(pick, c) \subseteq TwiceOut(pick, d)
  BY DiffGrows
<1>4. IsFiniteSet(N) /\ Cardinality(D) = Cardinality(C) + Cardinality(N)
  <2>1. N = D \ C /\ D \cap C = C
    BY <1>3
  <2>2. IsFiniteSet(D \ C) /\ Cardinality(D \ C) = Cardinality(D) - Cardinality(D \cap C)
    BY <1>2, FS_Difference
  <2>3. Cardinality(D) \in Nat /\ Cardinality(C) \in Nat
    BY <1>2, FS_CardinalityType
  <2>4. IsFiniteSet(N) /\ Cardinality(N) = Cardinality(D) - Cardinality(C)
    BY <2>1, <2>2
  <2> PICK x \in Nat : x = Cardinality(D)
    BY <2>3
  <2> PICK y \in Nat : y = Cardinality(C)
    BY <2>3
  <2>5. x = y + Cardinality(N)
    BY <2>4
  <2> QED BY <2>4, <2>5
<1>5. ASSUME NEW u \in U \ V PROVE \E s \in N : u = s.uid
  <2>1. u \in Uids /\ u \in TwiceOut(pick, c) /\ u \notin ChangedUids(pick, c)
    BY DEF AffectedUids
  <2>2. u \in ChangedUids(pick, d)
    BY <1>3, <2>1 DEF AffectedUids
  <2>3. PICK s \in D : u = s.uid
    BY <2>2 DEF ChangedUids
  <2>4. s \notin C
    BY <2>1, <2>3 DEF ChangedUids
  <2> QED BY <2>3, <2>4
<1>6. Cardinality(A) <= Cardinality(B) + Cardinality(N)
  <2> DEFINE f == [s \in N |-> s.uid]
  <2>1. \A u \in U \ V : \E s \in N : u = f[s]
    BY <1>5
  <2>2. /\ IsFiniteSet(U) /\ IsFiniteSet(V) /\ Cardinality(U) = Cardinality(A)
        /\ Cardinality(V) = Cardinality(B)
    BY <1>1, AffectedCount
  <2>3. Cardinality(U) <= Cardinality(V) + Cardinality(N)
    <3> HIDE DEF f
    <3> QED BY ONLY <1>4, <2>1, <2>2, LostAreFew
  <2> QED BY <2>2, <2>3
<1>7. Cardinality(G) <= Cardinality(H) + Cardinality(N)
  <2> DEFINE f == [s \in N |-> FileOf(s.uid)]
  <2>1. ASSUME NEW p \in G \ H PROVE \E s \in N : p = f[s]
    <3>1. p \notin {h.file : h \in Range(ParseDiff(c))}
      BY <1>3 DEF AffectedFiles
    <3>2. PICK x \in A : p = FileOf(x[1])
      BY <3>1 DEF AffectedFiles
    <3>3. x[1] \in U
      BY <1>1, AffectedCount
    <3>4. x[1] \notin V
      <4> SUFFICES ASSUME x[1] \in V PROVE FALSE
        OBVIOUS
      <4>1. PICK y \in B : x[1] = y[1]
        BY <1>1, AffectedCount
      <4>2. p \in H
        BY <3>2, <4>1 DEF AffectedFiles
      <4> QED BY <4>2
    <3>5. PICK s \in N : x[1] = s.uid
      BY <1>5, <3>3, <3>4
    <3> QED BY <3>2, <3>5
  <2> HIDE DEF f
  <2> QED BY ONLY <1>2, <1>4, <2>1, LostAreFew
<1>8. Cardinality(E) <= Cardinality(F)
  <2>1. E \subseteq F
    BY <1>3 DEF Incoming
  <2> QED BY <1>2, <2>1, FS_Subset
<1>9. /\ Cardinality(C) \in Nat /\ Cardinality(D) \in Nat /\ Cardinality(A) \in Nat /\ Cardinality(B) \in Nat
      /\ Cardinality(E) \in Nat /\ Cardinality(F) \in Nat /\ Cardinality(G) \in Nat /\ Cardinality(H) \in Nat
      /\ Cardinality(N) \in Nat
  BY <1>2, <1>4, FS_CardinalityType
<1>10. /\ Raw(pick, c) = 10 * Cardinality(C) + 5 * Cardinality(A) + 3 * Cardinality(E) + 2 * Cardinality(G)
       /\ Raw(pick, d) = 10 * Cardinality(D) + 5 * Cardinality(B) + 3 * Cardinality(F) + 2 * Cardinality(H)
  BY DEF Raw
<1> PICK x, y : x = Raw(pick, c) /\ y = Raw(pick, d)
  OBVIOUS
<1> PICK c1, c2, c3, c4, d1, d2, d3, d4, n :
       /\ c1 = Cardinality(C) /\ c2 = Cardinality(A) /\ c3 = Cardinality(E) /\ c4 = Cardinality(G)
       /\ d1 = Cardinality(D) /\ d2 = Cardinality(B) /\ d3 = Cardinality(F) /\ d4 = Cardinality(H)
       /\ n = Cardinality(N)
  OBVIOUS
<1>11. /\ c1 \in Nat /\ c2 \in Nat /\ c3 \in Nat /\ c4 \in Nat /\ d1 \in Nat /\ d2 \in Nat /\ d3 \in Nat
       /\ d4 \in Nat /\ n \in Nat
       /\ d1 = c1 + n /\ c2 <= d2 + n /\ c4 <= d4 + n /\ c3 <= d3
  BY <1>4, <1>6, <1>7, <1>8, <1>9
<1>12. x = 10 * c1 + 5 * c2 + 3 * c3 + 2 * c4 /\ y = 10 * d1 + 5 * d2 + 3 * d3 + 2 * d4
  BY <1>10
<1>13. x \in Nat /\ y \in Nat /\ x <= y
  BY ONLY <1>11, <1>12
<1> QED BY <1>13

LEMMA RiskHolds == ImpactOK /\ ImpactInv => RiskGrows
<1> SUFFICES ASSUME ImpactOK, ImpactInv, diff # <<>>, NEW pick \in Picks
             PROVE  RiskScore(pick, Front(diff), 2) <= RiskScore(pick, diff, 2)
  BY DEF RiskGrows
<1> PICK c : c = Front(diff)
  OBVIOUS
<1>1. diff \in Seq(Sections) /\ c \in Seq(Sections) /\ Range(c) \subseteq Range(diff)
  <2> PICK S, d : S = Sections /\ d = diff
    OBVIOUS
  <2>1. d \in Seq(S) /\ d # <<>>
    BY DEF ImpactInv
  <2>2. PICK n \in Nat : Len(d) = n + 1
    <3>1. Len(d) \in Nat /\ Len(d) # 0
      BY ONLY <2>1
    <3>2. Len(d) - 1 \in Nat /\ Len(d) = (Len(d) - 1) + 1
      BY <3>1
    <3> QED BY <3>2
  <2>3. c = SubSeq(d, 1, n)
    <3>1. Len(d) - 1 = n
      BY <2>2
    <3> QED BY <3>1 DEF Front
  <2>4. c \in Seq(S) /\ DOMAIN c = 1..n /\ DOMAIN d = 1..(n + 1) /\ \A i \in 1..n : c[i] = d[i]
    BY ONLY <2>1, <2>2, <2>3
  <2>5. 1..n \subseteq 1..(n + 1)
    OBVIOUS
  <2>6. Range(c) \subseteq Range(d)
    BY ONLY <2>4, <2>5 DEF Range
  <2> QED BY <2>1, <2>4, <2>6
<1>2. Raw(pick, c) \in Nat /\ Raw(pick, diff) \in Nat /\ Raw(pick, c) <= Raw(pick, diff)
  BY <1>1, RawGrows
<1>3. ParseDiff(c) # <<>> => ParseDiff(diff) # <<>>
  <2>1. Range(ParseDiff(c)) \subseteq Range(ParseDiff(diff))
    BY <1>1, DiffGrows
  <2>2. Len(ParseDiff(c)) \in Nat /\ DOMAIN ParseDiff(c) = 1..Len(ParseDiff(c))
    BY <1>1, ReadIsEntries
  <2>3. ASSUME ParseDiff(diff) = <<>> PROVE ParseDiff(c) = <<>>
    <3>1. Range(ParseDiff(c)) = {}
      BY <2>1, <2>3 DEF Range
    <3>2. DOMAIN ParseDiff(c) = {}
      BY <3>1 DEF Range
    <3>3. ReadTo(ParseDiff(c), c, Len(c))
      BY <1>1, DiffIsRead
    <3> PICK list, E, n : list = ParseDiff(c) /\ E = Entries(c) /\ n = Len(ParseDiff(c))
      OBVIOUS
    <3>4. list \in Seq(E) /\ DOMAIN list = {}
      BY <3>2, <3>3 DEF ReadTo
    <3>5. list = <<>>
      BY ONLY <3>4
    <3> QED BY <3>5
  <2> QED BY <2>3
<1>4. ASSUME NEW x \in Nat, NEW y \in Nat, x <= y
      PROVE  0 <= 2 * Min({y, 500}) /\ 2 * Min({x, 500}) <= 2 * Min({y, 500})
  <2>1. Min({x, 500}) = (IF x <= 500 THEN x ELSE 500) /\ Min({y, 500}) = IF y <= 500 THEN y ELSE 500
    BY MinOfTwo
  <2> QED BY <1>4, <2>1
<1>5. /\ 0 <= 2 * Min({Raw(pick, diff), 500})
      /\ 2 * Min({Raw(pick, c), 500}) <= 2 * Min({Raw(pick, diff), 500})
  BY <1>2, <1>4
<1> PICK x, y : x = 2 * Min({Raw(pick, c), 500}) /\ y = 2 * Min({Raw(pick, diff), 500})
  OBVIOUS
<1>6. /\ RiskScore(pick, c, 2) = (IF ParseDiff(c) = <<>> THEN 0 ELSE x)
      /\ RiskScore(pick, diff, 2) = (IF ParseDiff(diff) = <<>> THEN 0 ELSE y)
  BY RiskIs
<1> QED BY <1>3, <1>5, <1>6

-----------------------------------------------------------------------------
\* A symbol that is looked up by its qualified name is found if no other has it.
NamesAreUnique == \A s, t \in Table : s.qual = t.qual => s = t

FoundBy(s) == symbols[SelectInSeq(symbols, LAMBDA t : t.qual = s.qual)]

LEMMA FoundByName ==
  ASSUME GraphInv, NamesAreUnique, NEW s \in Table
  PROVE  FoundBy(s) = s
<1> DEFINE I == {i \in 1..Len(symbols) : symbols[i].qual = s.qual}
<1>1. DOMAIN symbols = 1..Len(symbols) /\ Len(symbols) \in Nat
  <2>1. symbols \in Seq(Range(symbols))
    BY TablesAssumption DEF GraphInv
  <2> PICK R : R = Range(symbols)
    OBVIOUS
  <2>2. symbols \in Seq(R)
    BY <2>1
  <2> QED BY <2>2
<1>2. I # {} /\ I \subseteq Nat
  BY <1>1 DEF Table, Range
<1>3. PICK x \in I : \A y \in I : x <= y
  <2> HIDE DEF I
  <2> QED BY <1>2, LeastNumber
<1>4. Min(I) \in I
  <2> HIDE DEF I
  <2> QED BY <1>3 DEF Min
<1>5. FoundBy(s) = symbols[Min(I)]
  BY <1>2 DEF FoundBy, SelectInSeq
<1> PICK i : i = Min(I)
  OBVIOUS
<1>6. i \in 1..Len(symbols) /\ symbols[i].qual = s.qual
  BY <1>4
<1>7. symbols[i] \in Table
  BY <1>1, <1>6 DEF Table, Range
<1>8. symbols[i] = s
  BY <1>6, <1>7 DEF NamesAreUnique
<1> HIDE DEF I
<1> QED BY <1>5, <1>8

LEMMA ReviewHolds == ImpactOK /\ ImpactInv => ReviewIsImpact
<1> SUFFICES ASSUME ImpactOK, ImpactInv, NamesAreUnique, NEW pick \in Picks
             PROVE  /\ ReviewChanged(pick, diff) = {s.uid : s \in DirectlyChanged(pick, diff)}
                    /\ \A u \in ReviewCallers(pick, diff) \cup ReviewCallees(pick, diff) :
                          <<u, 1>> \in Affected(pick, diff, 1)
  BY Zenon DEF ReviewIsImpact, NamesAreUnique
<1>0. GraphInv
  BY DEF ImpactInv
<1> PICK D, changed : D = DirectlyChanged(pick, diff) /\ changed = ChangedUids(pick, diff)
  OBVIOUS
<1>1. ReviewChanged(pick, diff) = changed
  <2>1. D \subseteq Table
    BY ChangedAreUids
  <2>2. \A s \in D : FoundBy(s) = s
    BY <1>0, <2>1, FoundByName
  <2>3. ReviewChanged(pick, diff) = {FoundBy(s).uid : s \in D}
    BY Zenon DEF ReviewChanged, FoundBy
  <2> QED BY <2>2, <2>3 DEF ChangedUids
<1>2. \A w : w \in Beside(Nearby, changed) <=> \E v \in changed : w \in Nearby[v]
  BY BesideIs
<1>3. changed \subseteq Uids
  BY ChangedAreUids
<1>4. ASSUME NEW v \in changed, NEW u \in Uids \ changed,
             u \in Sources(To(CallRows, v)) \cup Targets(From(CallRows, v))
      PROVE  <<u, 1>> \in Affected(pick, diff, 1)
  <2>1. PICK e \in Rels({"Calls", "Imports"}) :
           (e.target = v /\ e.source = u) \/ (e.source = v /\ e.target = u)
    BY <1>4 DEF Sources, Targets, To, From, CallRows, Rels
  <2>2. u \in Nearby[v]
    BY <1>0, <1>3, <2>1, NearbyIs
  <2> QED BY <1>0, <1>2, <2>2, AffectedOnce
<1>5. ASSUME NEW u \in ReviewCallers(pick, diff) \cup ReviewCallees(pick, diff)
      PROVE  <<u, 1>> \in Affected(pick, diff, 1)
  <2>1. /\ u \in Uids \ changed
        /\ \E v \in changed : u \in Sources(To(CallRows, v)) \cup Targets(From(CallRows, v))
    BY <1>1, Zenon DEF ReviewCallers, ReviewCallees
  <2> QED BY <1>4, <2>1
<1> QED BY <1>1, <1>5 DEF ChangedUids

-----------------------------------------------------------------------------
\* Impact and review follow from the diff, whatever the paths, the hunks, the table and the
\* rows: what parse_diff reads is what git wrote, what its hunks overlap is changed, what is
\* next to it is affected, and no further section lowers the risk.
THEOREM ImpactFollowsDiffAlways == ASSUME ImpactOK PROVE ImpactSpec => []ImpactFollowsDiff
<1>1. ImpactInit => ImpactInv
  BY ImpactInvInit
<1>2. ImpactInv /\ [ImpactNext]_<<graphVars, diff>> => ImpactInv'
  BY ImpactInvStep
<1>3. ImpactInv => ImpactFollowsDiff
  BY ParseHolds, TouchedHolds, NearHolds, RiskHolds, ReviewHolds DEF ImpactFollowsDiff
<1> QED BY <1>1, <1>2, <1>3, PTL DEF ImpactSpec
=============================================================================
