--------------------------- MODULE Server_proofs ---------------------------
(***************************************************************************)
(* Proofs about what the calls of a server share.                          *)
(*                                                                         *)
(* StoreHandles: every handle is that of its repository however it was     *)
(* opened, and calls that go through open_store share one handle per       *)
(* repository, which is what HandleOnce promises, whatever the calls that  *)
(* open the store themselves do.                                           *)
(*                                                                         *)
(* QueryCache: the cache outgrows its capacity, and holds what is out of   *)
(* date, only by the two races it is known to have.                        *)
(*                                                                         *)
(* BatchWriter: a row that is pushed is in exactly one place, and the      *)
(* counters of the task tell what it stored.                               *)
(***************************************************************************)
EXTENDS StoreHandles, QueryCache, BatchWriter, FiniteSetTheorems, TLAPS

\* The types of StoreHandles are invariant for every set of callers.
THEOREM TypeCorrect == HandlesSpec => []HandlesTypeOK
<1>1. HandlesInit => HandlesTypeOK
  BY HandleAssumption DEF HandlesInit, HandlesTypeOK
<1>2. HandlesTypeOK /\ [HandlesNext]_handleVars => HandlesTypeOK'
  <2> SUFFICES ASSUME HandlesTypeOK, [HandlesNext]_handleVars PROVE HandlesTypeOK'
    OBVIOUS
  <2> USE HandleAssumption DEF HandlesTypeOK, GoOn
  <2>1. ASSUME NEW c \in Callers, NEW r \in Repos, Call(c, r) \/ Bypass(c, r)
        PROVE  HandlesTypeOK'
    BY <2>1 DEF Call, Bypass, Ask
  <2>2. ASSUME NEW c \in Callers, Get(c) PROVE HandlesTypeOK'
    <3>1. CASE stores[repo[c]] # None
      BY <2>2, <3>1 DEF Get
    <3>2. CASE stores[repo[c]] = None
      BY <2>2, <3>2 DEF Get
    <3> QED BY <3>1, <3>2
  <2>3. ASSUME NEW c \in Callers, Insert(c) PROVE HandlesTypeOK'
    BY <2>3 DEF Insert
  <2>4. ASSUME NEW c \in Callers, Finish(c) PROVE HandlesTypeOK'
    BY <2>4 DEF Finish
  <2>5. ASSUME NEW c \in Callers, NEW h \in Handles, Open(c, h) PROVE HandlesTypeOK'
    <3>1. CASE phase[c] = "open"
      BY <2>5, <3>1 DEF Open
    <3>2. CASE phase[c] = "bypass"
      BY <2>5, <3>2 DEF Open
    <3> QED BY <2>5, <3>1, <3>2 DEF Open
  <2>6. CASE UNCHANGED handleVars
    BY <2>6 DEF handleVars
  <2> QED BY <2>1, <2>2, <2>3, <2>4, <2>5, <2>6 DEF HandlesNext
<1> QED BY <1>1, <1>2, PTL DEF HandlesSpec

-----------------------------------------------------------------------------
\* A handle that is published, answered or waiting to be published was opened,
\* for the repository it stands for.
Owned ==
    /\ \A r \in Repos : stores[r] # None => stores[r] \in used /\ owner[stores[r]] = r
    /\ \A c \in Callers : mine[c] # None => mine[c] \in used /\ owner[mine[c]] = repo[c]
    /\ \A c \in Callers : answer[c] # None => answer[c] \in used /\ owner[answer[c]] = repo[c]

LEMMA OwnedStep == HandlesTypeOK /\ Owned /\ [HandlesNext]_handleVars => Owned'
<1> SUFFICES ASSUME HandlesTypeOK, Owned, [HandlesNext]_handleVars PROVE Owned'
  OBVIOUS
<1> USE HandleAssumption DEF HandlesTypeOK, Owned, GoOn
<1>1. ASSUME NEW c \in Callers, NEW r \in Repos, Call(c, r) \/ Bypass(c, r)
      PROVE  Owned'
  BY <1>1 DEF Call, Bypass, Ask
<1>2. ASSUME NEW c \in Callers, Get(c) PROVE Owned'
  <2>1. CASE stores[repo[c]] # None
    BY <1>2, <2>1 DEF Get
  <2>2. CASE stores[repo[c]] = None
    BY <1>2, <2>2 DEF Get
  <2> QED BY <2>1, <2>2
<1>3. ASSUME NEW c \in Callers, Insert(c) PROVE Owned'
  <2>1. repo[c] \in Repos /\ mine[c] \in Handles
    BY <1>3 DEF Insert
  <2> QED BY <1>3, <2>1 DEF Insert
<1>4. ASSUME NEW c \in Callers, Finish(c) PROVE Owned'
  BY <1>4 DEF Finish
<1>5. ASSUME NEW c \in Callers, NEW h \in Handles, Open(c, h) PROVE Owned'
  <2>1. CASE phase[c] = "open"
    BY <1>5, <2>1 DEF Open
  <2>2. CASE phase[c] = "bypass"
    BY <1>5, <2>2 DEF Open
  <2> QED BY <1>5, <2>1, <2>2 DEF Open
<1>6. CASE UNCHANGED handleVars
  BY <1>6 DEF handleVars
<1> QED BY <1>1, <1>2, <1>3, <1>4, <1>5, <1>6 DEF HandlesNext

\* No call works with a handle of another repository, also when calls open the
\* store themselves.
THEOREM HandlesMatch == HandlesSpec => []HandleOfItsRepo
<1>1. HandlesInit => Owned
  BY DEF HandlesInit, Owned
<1>2. HandlesTypeOK /\ Owned => HandleOfItsRepo
  BY DEF HandlesTypeOK, Owned, HandleOfItsRepo
<1> QED BY <1>1, <1>2, OwnedStep, TypeCorrect, PTL DEF HandlesSpec

-----------------------------------------------------------------------------
\* Every call that got its handle from open_store holds the published one.
Published == \A c \in Callers : phase[c] = "working" => answer[c] = stores[repo[c]]

LEMMA PublishedStep == HandlesTypeOK /\ Published /\ [HandlesNext]_handleVars => Published'
<1> SUFFICES ASSUME HandlesTypeOK, Published, [HandlesNext]_handleVars PROVE Published'
  OBVIOUS
<1> USE HandleAssumption DEF HandlesTypeOK, Published, GoOn
<1>1. ASSUME NEW c \in Callers, NEW r \in Repos, Call(c, r) \/ Bypass(c, r)
      PROVE  Published'
  BY <1>1 DEF Call, Bypass, Ask
<1>2. ASSUME NEW c \in Callers, Get(c) PROVE Published'
  <2>1. CASE stores[repo[c]] # None
    BY <1>2, <2>1 DEF Get
  <2>2. CASE stores[repo[c]] = None
    BY <1>2, <2>2 DEF Get
  <2> QED BY <2>1, <2>2
<1>3. ASSUME NEW c \in Callers, Insert(c) PROVE Published'
  <2>1. repo[c] \in Repos /\ mine[c] \in Handles
    BY <1>3 DEF Insert
  <2> QED BY <1>3, <2>1 DEF Insert
<1>4. ASSUME NEW c \in Callers, Finish(c) PROVE Published'
  BY <1>4 DEF Finish
<1>5. ASSUME NEW c \in Callers, NEW h \in Handles, Open(c, h) PROVE Published'
  <2>1. CASE phase[c] = "open"
    BY <1>5, <2>1 DEF Open
  <2>2. CASE phase[c] = "bypass"
    BY <1>5, <2>2 DEF Open
  <2> QED BY <1>5, <2>1, <2>2 DEF Open
<1>6. CASE UNCHANGED handleVars
  BY <1>6 DEF handleVars
<1> QED BY <1>1, <1>2, <1>3, <1>4, <1>5, <1>6 DEF HandlesNext

\* Calls that go through open_store share one handle per repository.
THEOREM OneHandle == HandlesSpec => []SharedByAllCallers
<1>1. HandlesInit => Published
  BY DEF HandlesInit, Published
<1>2. Published => SharedByAllCallers
  BY DEF Published, SharedByAllCallers
<1> QED BY <1>1, <1>2, PublishedStep, TypeCorrect, PTL DEF HandlesSpec

\* The mapped answer changes with the answer of one call.
LEMMA AnsweredStep ==
    ASSUME HandlesTypeOK, NEW c \in Callers, NEW h, phase' = [phase EXCEPT ![c] = "working"],
           answer' = [answer EXCEPT ![c] = h]
    PROVE  answered' = [answered EXCEPT ![c] = h]
  BY DEF HandlesTypeOK, answered

\* open_store implements HandleOnce: each of its steps is an answer that agrees
\* with the published handle, the end of a call, or no step of HandleOnce.
THEOREM Refinement == HandlesSpec => ImplementsOnce
<1>1. HandlesInit => Once!Init
  BY DEF HandlesInit, Once!Init, answered
<1>2. HandlesTypeOK /\ HandlesTypeOK' /\ Published /\ [HandlesNext]_handleVars => [Once!Next]_(Once!vars)
  <2> SUFFICES ASSUME HandlesTypeOK, HandlesTypeOK', Published, [HandlesNext]_handleVars
               PROVE  [Once!Next]_(Once!vars)
    OBVIOUS
  <2> USE HandleAssumption DEF HandlesTypeOK, GoOn
  <2>1. ASSUME NEW c \in Callers, NEW r \in Repos, Call(c, r) \/ Bypass(c, r)
        PROVE  UNCHANGED Once!vars
    BY <2>1 DEF Call, Bypass, Ask, Once!vars, answered
  <2>2. ASSUME NEW c \in Callers, Get(c) PROVE [Once!Next]_(Once!vars)
    <3>1. CASE stores[repo[c]] # None
      <4> DEFINE h == stores[repo[c]]
      <4>1. repo[c] \in Repos /\ h \in Handles
        BY <2>2, <3>1 DEF Get
      <4>2. /\ stores' = [stores EXCEPT ![repo[c]] = h] /\ stores[repo[c]] \in {None, h}
            /\ answer' = [answer EXCEPT ![c] = h] /\ phase' = [phase EXCEPT ![c] = "working"]
        BY <2>2, <3>1 DEF Get
      <4> HIDE DEF h, HandlesTypeOK
      <4>3. answered' = [answered EXCEPT ![c] = h]
        BY <4>2, AnsweredStep
      <4>4. Once!Answer(c, repo[c], h)
        BY <4>2, <4>3 DEF Once!Answer
      <4> QED BY <4>1, <4>4 DEF Once!Next
    <3>2. CASE stores[repo[c]] = None
      BY <2>2, <3>2 DEF Get, Once!vars, answered
    <3> QED BY <3>1, <3>2
  <2>3. ASSUME NEW c \in Callers, Insert(c) PROVE [Once!Next]_(Once!vars)
    <3> DEFINE h == IF stores[repo[c]] = None THEN mine[c] ELSE stores[repo[c]]
    <3>1. repo[c] \in Repos /\ h \in Handles
      BY <2>3 DEF Insert
    <3>2. /\ stores' = [stores EXCEPT ![repo[c]] = h] /\ stores[repo[c]] \in {None, h}
          /\ answer' = [answer EXCEPT ![c] = h] /\ phase' = [phase EXCEPT ![c] = "working"]
      BY <2>3 DEF Insert
    <3> HIDE DEF h, HandlesTypeOK
    <3>3. answered' = [answered EXCEPT ![c] = h]
      BY <3>2, AnsweredStep
    <3>4. Once!Answer(c, repo[c], h)
      BY <3>2, <3>3 DEF Once!Answer
    <3> QED BY <3>1, <3>4 DEF Once!Next
  <2>4. ASSUME NEW c \in Callers, Finish(c) PROVE [Once!Next]_(Once!vars)
    <3>1. Once!Ask(c)
      <4>1. answered' = [answered EXCEPT ![c] = None]
        BY <2>4 DEF Finish, answered
      <4> QED BY <2>4, <4>1 DEF Finish, Once!Ask
    <3> QED BY <3>1 DEF Once!Next
  <2>5. ASSUME NEW c \in Callers, NEW h \in Handles, Open(c, h)
        PROVE  UNCHANGED Once!vars
    BY <2>5 DEF Open, Published, Once!vars, answered
  <2>6. CASE UNCHANGED handleVars
    BY <2>6 DEF handleVars, Once!vars, answered
  <2> QED BY <2>1, <2>2, <2>3, <2>4, <2>5, <2>6 DEF HandlesNext
<1>3. HandlesInit => Published
  BY DEF HandlesInit, Published
<1> QED BY <1>1, <1>2, <1>3, PublishedStep, TypeCorrect, PTL DEF HandlesSpec, Once!Spec, ImplementsOnce

-----------------------------------------------------------------------------
(***************************************************************************)
(* The result cache.                                                       *)
(***************************************************************************)
Result == [of : Nat, fresh : BOOLEAN, late : BOOLEAN]

CacheTypeOK ==
    /\ entries \in [Slots -> Result \cup {<<>>}]
    /\ analyses \in Nat /\ toClear \subseteq Slots
    /\ at \in [Threads -> {"idle", "remove", "compute", "insert", "evict", "put"}]
    /\ slot \in [Threads -> Slots]
    /\ result \in [Threads -> Nat]
    /\ victim \in [Threads -> SUBSET Slots]
    /\ raced \in BOOLEAN

\* What the clearing of the map has passed by is of the last analysis, or late.
ClearedIsCurrent ==
    \A s \in Used \ toClear : entries[s].of = analyses \/ entries[s].late

Room == IF MaxEntries = 0 THEN 1 ELSE MaxEntries
Fits(set, n) == IsFiniteSet(set) /\ Cardinality(set) <= n

\* A single thread is past its look at the capacity, and there is a place for what it
\* puts in, at the latest when its victim is gone.
OneInserts ==
    \A t, u \in Threads : at[t] \in {"evict", "put"} /\ at[u] \in {"evict", "put"} => t = u
PlaceKept ==
    \A t \in Threads : /\ at[t] = "evict" => Fits(Used \ victim[t], Room - 1)
                       /\ at[t] = "put" => Fits(Used, Room - 1)
WithinCapacity == Fits(Used, Room) /\ OneInserts /\ PlaceKept

LEMMA FewerFit ==
  ASSUME NEW S, NEW T, T \subseteq S, NEW n \in Int, Fits(S, n)
  PROVE  Fits(T, n)
<1>1. IsFiniteSet(T) /\ Cardinality(T) <= Cardinality(S)
  BY FS_Subset DEF Fits
<1>2. Cardinality(S) \in Nat /\ Cardinality(T) \in Nat
  BY <1>1, FS_CardinalityType DEF Fits
<1> QED BY <1>1, <1>2 DEF Fits

LEMMA OneMoreFits ==
  ASSUME NEW S, NEW x, NEW n \in Int, Fits(S, n - 1)
  PROVE  Fits(S \cup {x}, n)
<1>1. /\ IsFiniteSet(S \cup {x})
      /\ Cardinality(S \cup {x}) = IF x \in S THEN Cardinality(S) ELSE Cardinality(S) + 1
  BY FS_AddElement DEF Fits
<1>2. Cardinality(S) \in Nat
  BY FS_CardinalityType DEF Fits
<1> QED BY <1>1, <1>2 DEF Fits

LEMMA OneLessFits ==
  ASSUME NEW S, NEW x \in S, NEW n \in Int, Fits(S, n)
  PROVE  Fits(S \ {x}, n - 1)
<1>1. /\ IsFiniteSet(S \ {x})
      /\ Cardinality(S \ {x}) = IF x \in S THEN Cardinality(S) - 1 ELSE Cardinality(S)
  BY FS_RemoveElement DEF Fits
<1>2. Cardinality(S) \in Nat
  BY FS_CardinalityType DEF Fits
<1> QED BY <1>1, <1>2 DEF Fits

\* The types of QueryCache are preserved by every step.
LEMMA CacheTypes == CacheTypeOK /\ [CacheNext]_cacheVars => CacheTypeOK'
<1> SUFFICES ASSUME CacheTypeOK, [CacheNext]_cacheVars PROVE CacheTypeOK'
  OBVIOUS
<1> USE DEF CacheTypeOK, Go, threadVars
<1>1. ASSUME NEW s \in Slots, Expire(s) PROVE CacheTypeOK'
  BY <1>1 DEF Expire, Used, Expired, Result
<1>2. ASSUME NEW s \in Slots, Clear(s) PROVE CacheTypeOK'
  BY <1>2 DEF Clear, Drop
<1>3. ASSUME NEW t \in Threads, NEW s \in Slots, LookUp(t, s) PROVE CacheTypeOK'
  <2>1. at' \in [Threads -> {"idle", "remove", "compute", "insert", "evict", "put"}]
    BY <1>3 DEF LookUp
  <2> QED BY <1>3, <2>1 DEF LookUp
<1>4. ASSUME NEW t \in Threads, RemoveExpired(t) PROVE CacheTypeOK'
  BY <1>4 DEF RemoveExpired, Drop
<1>5. ASSUME NEW t \in Threads, Compute(t) PROVE CacheTypeOK'
  BY <1>5 DEF Compute
<1>6. ASSUME NEW t \in Threads, Choose(t) PROVE CacheTypeOK'
  <2>1. victim' \in [Threads -> SUBSET Slots]
    <3>1. \E S \in SUBSET Slots : victim' = [victim EXCEPT ![t] = S]
      <4>1. CASE Cardinality(Used) >= MaxEntries /\ Used # {}
        <5>1. PICK v \in (IF Expired # {} THEN Expired ELSE Used) :
                 victim' = [victim EXCEPT ![t] = {v}]
          BY <1>6, <4>1 DEF Choose
        <5>2. v \in Slots
          BY DEF Used, Expired
        <5> QED BY <5>1, <5>2
      <4>2. CASE ~(Cardinality(Used) >= MaxEntries /\ Used # {})
        BY <1>6, <4>2 DEF Choose
      <4> QED BY <4>1, <4>2
    <3> QED BY <3>1
  <2>2. raced' \in BOOLEAN
    BY <1>6 DEF Choose
  <2> QED BY <1>6, <2>1, <2>2 DEF Choose
<1>7. ASSUME NEW t \in Threads, Evict(t) PROVE CacheTypeOK'
  BY <1>7 DEF Evict, Drop
<1>8. ASSUME NEW t \in Threads, Put(t) PROVE CacheTypeOK'
  BY <1>8 DEF Put, Result
<1>9. CASE Analyze
  BY <1>9 DEF Analyze
<1>10. CASE UNCHANGED cacheVars
  BY <1>10 DEF cacheVars
<1> QED BY <1>1, <1>2, <1>3, <1>4, <1>5, <1>6, <1>7, <1>8, <1>9, <1>10 DEF CacheNext

\* Which slots are used after each step that changes an entry.
LEMMA UsedAfter ==
  ASSUME CacheTypeOK
  PROVE  /\ \A s \in Slots : Expire(s) => Used' = Used
         /\ \A S : Drop(S) => Used' = Used \ S
         /\ \A t \in Threads : Put(t) => Used' = Used \cup {slot[t]}
         /\ entries' = entries => Used' = Used
<1> USE DEF CacheTypeOK, Used
<1>1. ASSUME NEW s \in Slots, Expire(s) PROVE Used' = Used
  <2>1. entries[s] \in Result /\ s \in Used
    BY <1>1 DEF Expire, Expired
  <2>2. [entries[s] EXCEPT !.fresh = FALSE] \in Result
    BY <2>1 DEF Result
  <2>3. entries' = [entries EXCEPT ![s] = [@ EXCEPT !.fresh = FALSE]]
    BY <1>1 DEF Expire
  <2>4. entries'[s] # <<>> /\ \A r \in Slots : r # s => entries'[r] = entries[r]
    BY <2>2, <2>3 DEF Result
  <2> QED BY <2>1, <2>4
<1>2. ASSUME NEW S, Drop(S) PROVE Used' = Used \ S
  BY <1>2 DEF Drop
<1>3. ASSUME NEW t \in Threads, Put(t) PROVE Used' = Used \cup {slot[t]}
  BY <1>3 DEF Put
<1> QED BY <1>1, <1>2, <1>3

LEMMA ClearedStep ==
  CacheTypeOK /\ ClearedIsCurrent /\ [CacheNext]_cacheVars => ClearedIsCurrent'
<1> SUFFICES ASSUME CacheTypeOK, ClearedIsCurrent, [CacheNext]_cacheVars PROVE ClearedIsCurrent'
  OBVIOUS
<1> USE UsedAfter DEF ClearedIsCurrent, Go, threadVars
<1>0. ASSUME entries' = entries, analyses' = analyses, toClear' = toClear
      PROVE  ClearedIsCurrent'
  BY <1>0
<1>1. ASSUME NEW s \in Slots, Expire(s) PROVE ClearedIsCurrent'
  <2>1. /\ Used' = Used /\ analyses' = analyses /\ toClear' = toClear
    BY <1>1 DEF Expire
  <2>2. \A r \in Slots : entries'[r].of = entries[r].of /\ entries'[r].late = entries[r].late
    BY <1>1 DEF Expire, CacheTypeOK, Used, Expired, Result
  <2> QED BY <2>1, <2>2 DEF Used
<1>2. ASSUME NEW S, Drop(S), analyses' = analyses, toClear \ S \subseteq toClear'
      PROVE  ClearedIsCurrent'
  <2>1. Used' = Used \ S
    BY <1>2
  <2>2. \A r \in Slots \ S : entries'[r] = entries[r]
    BY <1>2 DEF Drop
  <2> QED BY <1>2, <2>1, <2>2 DEF Used
<1>3. ASSUME NEW s \in Slots, Clear(s) PROVE ClearedIsCurrent'
  BY <1>2, <1>3 DEF Clear
<1>4. ASSUME NEW t \in Threads, RemoveExpired(t) \/ Evict(t) PROVE ClearedIsCurrent'
  BY <1>2, <1>4 DEF RemoveExpired, Evict
<1>5. ASSUME NEW t \in Threads, Put(t) PROVE ClearedIsCurrent'
  <2>1. Used' = Used \cup {slot[t]} /\ analyses' = analyses /\ toClear' = toClear
    BY <1>5 DEF Put
  <2>2. entries'[slot[t]].of = analyses \/ entries'[slot[t]].late
    BY <1>5 DEF Put, CacheTypeOK
  <2>3. \A r \in Slots : r # slot[t] => entries'[r] = entries[r]
    BY <1>5 DEF Put, CacheTypeOK
  <2> QED BY <2>1, <2>2, <2>3 DEF Used
<1>6. CASE Analyze
  BY <1>6 DEF Analyze, Used
<1> QED BY <1>0, <1>1, <1>3, <1>4, <1>5, <1>6
        DEF CacheNext, LookUp, Compute, Choose, cacheVars

LEMMA CapacityStep ==
  CacheTypeOK /\ (raced \/ WithinCapacity) /\ [CacheNext]_cacheVars => (raced \/ WithinCapacity)'
<1> SUFFICES ASSUME CacheTypeOK, raced \/ WithinCapacity, [CacheNext]_cacheVars, ~raced'
             PROVE  WithinCapacity'
  OBVIOUS
<1>0. Room \in Nat \ {0} /\ MaxEntries <= Room
  BY CacheAssumption DEF Room
<1>a. ~raced
  BY DEF CacheNext, Expire, Clear, LookUp, RemoveExpired, Compute, Choose, Evict, Put, Analyze, cacheVars
<1>b. Fits(Used, Room) /\ OneInserts /\ PlaceKept
  BY <1>a DEF WithinCapacity
<1>1. ASSUME Used' \subseteq Used, victim' = victim,
             \A t \in Threads : at'[t] \in {"evict", "put"} => at'[t] = at[t]
      PROVE  WithinCapacity'
  <2>1. Fits(Used, Room)'
    BY <1>0, <1>1, <1>b, FewerFit DEF Room
  <2>2. OneInserts'
    BY <1>1, <1>b DEF OneInserts
  <2>3. ASSUME NEW t \in Threads, at'[t] = "evict" PROVE Fits(Used' \ victim'[t], Room - 1)
    <3>1. Fits(Used \ victim[t], Room - 1)
      BY <1>1, <1>b, <2>3 DEF PlaceKept
    <3> QED BY <1>0, <1>1, <3>1, FewerFit
  <2>4. ASSUME NEW t \in Threads, at'[t] = "put" PROVE Fits(Used', Room - 1)
    <3>1. Fits(Used, Room - 1)
      BY <1>1, <1>b, <2>4 DEF PlaceKept
    <3> QED BY <1>0, <1>1, <3>1, FewerFit
  <2> QED BY <2>1, <2>2, <2>3, <2>4 DEF WithinCapacity, PlaceKept, Room
<1>2. ASSUME NEW s \in Slots, Expire(s) \/ Clear(s) PROVE WithinCapacity'
  BY <1>1, <1>2, UsedAfter DEF Expire, Clear, threadVars
<1>3. ASSUME NEW t \in Threads, NEW s \in Slots, LookUp(t, s) PROVE WithinCapacity'
  BY <1>1, <1>3, UsedAfter DEF LookUp, Go, CacheTypeOK
<1>4. ASSUME NEW t \in Threads, RemoveExpired(t) \/ Compute(t) PROVE WithinCapacity'
  BY <1>1, <1>4, UsedAfter DEF RemoveExpired, Compute, Go, CacheTypeOK
<1>5. ASSUME NEW t \in Threads, Choose(t) PROVE WithinCapacity'
  <2>1. Used' = Used /\ at' = [at EXCEPT ![t] = "evict"]
    BY <1>5, UsedAfter DEF Choose, Go
  <2>2. \A u \in Threads : at[u] \notin {"evict", "put"}
    BY <1>5 DEF Choose
  <2>3. Fits(Used \ victim'[t], Room - 1)
    <3>1. CASE Cardinality(Used) >= MaxEntries /\ Used # {}
      <4>1. PICK v \in Used : victim'[t] = {v}
        BY <1>5, <3>1 DEF Choose, CacheTypeOK, Expired
      <4> QED BY <1>0, <1>b, <4>1, OneLessFits
    <3>2. CASE Used = {}
      BY <1>0, <3>2, FS_EmptySet DEF Fits
    <3>3. CASE Cardinality(Used) < MaxEntries
      <4>1. Fits(Used, Room - 1)
        BY <1>0, <1>b, <3>3, CacheAssumption, FS_CardinalityType DEF Fits
      <4> QED BY <1>0, <4>1, FewerFit
    <3> QED BY <1>b, <3>1, <3>2, <3>3, CacheAssumption, FS_CardinalityType DEF Fits
  <2>4. \A u \in Threads : at'[u] \in {"evict", "put"} => u = t /\ at'[u] = "evict"
    BY <2>1, <2>2 DEF CacheTypeOK
  <2> QED BY <1>b, <2>1, <2>3, <2>4 DEF WithinCapacity, OneInserts, PlaceKept, Room
<1>6. ASSUME NEW t \in Threads, Evict(t) PROVE WithinCapacity'
  <2>1. Used' = Used \ victim[t] /\ at[t] = "evict" /\ at' = [at EXCEPT ![t] = "put"]
    BY <1>6, UsedAfter DEF Evict, Go
  <2>2. \A u \in Threads : at'[u] \in {"evict", "put"} => u = t /\ at'[u] = "put"
    BY <1>b, <2>1 DEF CacheTypeOK, OneInserts
  <2>3. Fits(Used', Room - 1)
    BY <1>b, <2>1 DEF PlaceKept
  <2>4. Fits(Used', Room)
    BY <1>0, <1>b, <2>1, FewerFit
  <2> QED BY <2>2, <2>3, <2>4 DEF WithinCapacity, OneInserts, PlaceKept, Room
<1>7. ASSUME NEW t \in Threads, Put(t) PROVE WithinCapacity'
  <2>1. Used' = Used \cup {slot[t]} /\ at[t] = "put" /\ at' = [at EXCEPT ![t] = "idle"]
    BY <1>7, UsedAfter DEF Put, Go
  <2>2. \A u \in Threads : at'[u] \notin {"evict", "put"}
    BY <1>b, <2>1 DEF CacheTypeOK, OneInserts
  <2>3. Fits(Used, Room - 1)
    BY <1>b, <2>1 DEF PlaceKept
  <2>4. Fits(Used \cup {slot[t]}, Room)
    <3>1. Room \in Int
      BY <1>0
    <3> QED BY <2>3, <3>1, OneMoreFits, Zenon
  <2>5. Fits(Used', Room)
    BY <2>1, <2>4
  <2> QED BY <2>2, <2>5 DEF WithinCapacity, OneInserts, PlaceKept, Room
<1>8. CASE Analyze
  BY <1>1, <1>8, UsedAfter DEF Analyze, threadVars
<1>9. CASE UNCHANGED cacheVars
  BY <1>1, <1>9, UsedAfter DEF cacheVars, threadVars
<1> QED BY <1>2, <1>3, <1>4, <1>5, <1>6, <1>7, <1>8, <1>9 DEF CacheNext

\* The cache holds more than its capacity only after two inserts overlapped, and what is
\* out of date once an invalidation is through only when it was computed before it.
THEOREM FaultsAreRacesAlways == CacheSpec => []FaultsAreRaces
<1> DEFINE CacheInv == CacheTypeOK /\ ClearedIsCurrent /\ (raced \/ WithinCapacity)
<1>1. CacheInit => CacheInv
  <2> SUFFICES ASSUME CacheInit PROVE CacheInv
    OBVIOUS
  <2>1. CacheTypeOK
    BY CacheAssumption DEF CacheInit, CacheTypeOK
  <2>2. Used = {}
    BY DEF CacheInit, Used
  <2>3. Fits(Used, Room)
    BY <2>2, FS_EmptySet, CacheAssumption DEF Fits, Room
  <2> QED BY <2>1, <2>2, <2>3
          DEF CacheInit, ClearedIsCurrent, WithinCapacity, OneInserts, PlaceKept
<1>2. CacheInv /\ [CacheNext]_cacheVars => CacheInv'
  BY CacheTypes, ClearedStep, CapacityStep
<1>3. CacheInv => FaultsAreRaces
  BY DEF FaultsAreRaces, CapacityUnlessRaced, OnlyLateIsStale, ClearedIsCurrent,
         WithinCapacity, Fits, Room
<1> QED BY <1>1, <1>2, <1>3, PTL DEF CacheSpec

-----------------------------------------------------------------------------
(***************************************************************************)
(* The batch writer.                                                       *)
(***************************************************************************)
Proper == {m \in Message : m.lo <= m.hi}

\* A send holds a batch of its own kind, the task a message while it stores, and no
\* buffer gives away more than was pushed.
InOrder ==
    /\ channel \in Seq(Proper)
    /\ hand \in Proper \cup {<<>>}
    /\ writer = "store" <=> hand # <<>>
    /\ \A k \in Kinds : /\ batch[k] \in {m \in Proper : m.kind = k} \cup {<<>>}
                        /\ acc[k] \in {"send", "flush"} <=> batch[k] # <<>>
                        /\ taken[k] <= pushed[k]

\* The rows of a kind in a sequence of messages; no row is in two of them.
InMessages(ch, k) == UNION {Rows(ch[i]) : i \in {j \in 1..Len(ch) : ch[j].kind = k}}
Apart(ch) ==
    \A i, j \in 1..Len(ch) :
        i # j /\ ch[i].kind = ch[j].kind => Rows(ch[i]) \cap Rows(ch[j]) = {}
RowsIf(m, k) == IF m # <<>> /\ m.kind = k THEN Rows(m) ELSE {}

\* U is divided among six sets.
Divided(A, B, C, D, E, F, U) ==
    /\ A \cup B \cup C \cup D \cup E \cup F = U
    /\ A \cap B = {} /\ A \cap C = {} /\ A \cap D = {} /\ A \cap E = {} /\ A \cap F = {}
    /\ B \cap C = {} /\ B \cap D = {} /\ B \cap E = {} /\ B \cap F = {}
    /\ C \cap D = {} /\ C \cap E = {} /\ C \cap F = {}
    /\ D \cap E = {} /\ D \cap F = {} /\ E \cap F = {}

OnePlace(k) ==
    Divided(rows[k], lost[k], InHand(k), InChannel(k), Rows(batch[k]), Buffer(k), 1..pushed[k])
Counted(k) == writer # "aborted" => count[k] = Cardinality(rows[k])

LEMMA SixPlaces ==
  ASSUME NEW A, NEW B, NEW C, NEW D, NEW E, NEW F, NEW U
  PROVE  LET p == <<A, B, C, D, E, F>>
         IN  Divided(A, B, C, D, E, F, U) <=>
                /\ UNION {p[i] : i \in 1..6} = U
                /\ \A i, j \in 1..6 : i < j => p[i] \cap p[j] = {}
<1> DEFINE p == <<A, B, C, D, E, F>>
<1>1. UNION {p[i] : i \in 1..6} = A \cup B \cup C \cup D \cup E \cup F
  <2>1. 1..6 = {1, 2, 3, 4, 5, 6}
    OBVIOUS
  <2>2. {p[i] : i \in {1, 2, 3, 4, 5, 6}} = {A, B, C, D, E, F}
    OBVIOUS
  <2> QED BY <2>1, <2>2
<1>2. ASSUME \A i, j \in 1..6 : i < j => p[i] \cap p[j] = {}
      PROVE  /\ A \cap B = {} /\ A \cap C = {} /\ A \cap D = {} /\ A \cap E = {} /\ A \cap F = {}
             /\ B \cap C = {} /\ B \cap D = {} /\ B \cap E = {} /\ B \cap F = {}
             /\ C \cap D = {} /\ C \cap E = {} /\ C \cap F = {}
             /\ D \cap E = {} /\ D \cap F = {} /\ E \cap F = {}
  <2>1. p[1] \cap p[2] = {} /\ p[1] \cap p[3] = {} /\ p[1] \cap p[4] = {}
        /\ p[1] \cap p[5] = {} /\ p[1] \cap p[6] = {}
    BY <1>2
  <2>2. p[2] \cap p[3] = {} /\ p[2] \cap p[4] = {} /\ p[2] \cap p[5] = {} /\ p[2] \cap p[6] = {}
    BY <1>2
  <2>3. p[3] \cap p[4] = {} /\ p[3] \cap p[5] = {} /\ p[3] \cap p[6] = {}
        /\ p[4] \cap p[5] = {} /\ p[4] \cap p[6] = {} /\ p[5] \cap p[6] = {}
    BY <1>2
  <2> QED BY <2>1, <2>2, <2>3
<1>3. ASSUME Divided(A, B, C, D, E, F, U), NEW i \in 1..6, NEW j \in 1..6, i < j
      PROVE  p[i] \cap p[j] = {}
  <2>1. CASE i = 1
    BY <1>3, <2>1 DEF Divided
  <2>2. CASE i = 2
    BY <1>3, <2>2 DEF Divided
  <2>3. CASE i = 3
    BY <1>3, <2>3 DEF Divided
  <2>4. CASE i \in {4, 5, 6}
    BY <1>3, <2>4 DEF Divided
  <2> QED BY <2>1, <2>2, <2>3, <2>4
<1> QED BY <1>1, <1>2, <1>3 DEF Divided

LEMMA AccountedIs == Accounted <=> \A k \in Kinds : OnePlace(k) /\ Counted(k)
  BY SixPlaces DEF Accounted, Places, OnePlace, Counted

\* Rows that move from one place to another stay in one place.
LEMMA RowsCome ==
  ASSUME NEW A, NEW B, NEW C, NEW D, NEW E, NEW F, NEW U, Divided(A, B, C, D, E, F, U),
         NEW N, N \cap U = {}
  PROVE  Divided(A, B, C, D, E, F \cup N, U \cup N)
BY DEF Divided

LEMMA RowsLeaveBuffer ==
  ASSUME NEW A, NEW B, NEW C, NEW D, NEW E, NEW F, NEW U, Divided(A, B, C, D, E, F, U),
         NEW G, NEW H, E = {}, F = G \cup H, G \cap H = {}
  PROVE  Divided(A, B, C, D, G, H, U)
BY DEF Divided

LEMMA RowsAreSent ==
  ASSUME NEW A, NEW B, NEW C, NEW D, NEW E, NEW F, NEW U, Divided(A, B, C, D, E, F, U)
  PROVE  Divided(A, B, C, D \cup E, {}, F, U)
BY DEF Divided

LEMMA SendIsLost ==
  ASSUME NEW A, NEW B, NEW C, NEW D, NEW E, NEW F, NEW U, Divided(A, B, C, D, E, F, U)
  PROVE  Divided(A, B \cup E, C, D, {}, F, U)
BY DEF Divided

LEMMA BufferIsLost ==
  ASSUME NEW A, NEW B, NEW C, NEW D, NEW E, NEW F, NEW U, Divided(A, B, C, D, E, F, U)
  PROVE  Divided(A, B \cup F, C, D, E, {}, U)
BY DEF Divided

LEMMA RowsAreTaken ==
  ASSUME NEW A, NEW B, NEW C, NEW D, NEW E, NEW F, NEW U, Divided(A, B, C, D, E, F, U),
         NEW G, NEW H, C = {}, D = G \cup H, G \cap H = {}
  PROVE  Divided(A, B, G, H, E, F, U)
BY DEF Divided

LEMMA RowsAreStored ==
  ASSUME NEW A, NEW B, NEW C, NEW D, NEW E, NEW F, NEW U, Divided(A, B, C, D, E, F, U)
  PROVE  Divided(A \cup C, B, {}, D, E, F, U)
BY DEF Divided

LEMMA HandIsLost ==
  ASSUME NEW A, NEW B, NEW C, NEW D, NEW E, NEW F, NEW U, Divided(A, B, C, D, E, F, U)
  PROVE  Divided(A, B \cup C, {}, D, E, F, U)
BY DEF Divided

LEMMA AllIsLost ==
  ASSUME NEW A, NEW B, NEW C, NEW D, NEW E, NEW F, NEW U, Divided(A, B, C, D, E, F, U),
         NEW S \in SUBSET C
  PROVE  Divided(A \cup S, B \cup D \cup (C \ S), {}, {}, E, F, U)
BY DEF Divided

LEMMA ProperIsMessage == \A m \in Proper : m # <<>> /\ m \in Message
  BY DEF Proper, Message

LEMMA AppendRows ==
  ASSUME NEW ch \in Seq(Proper), NEW m \in Proper, NEW k
  PROVE  InMessages(Append(ch, m), k) = InMessages(ch, k) \cup RowsIf(m, k)
<1> DEFINE new == Append(ch, m)
<1>1. /\ Len(new) = Len(ch) + 1 /\ Len(ch) \in Nat /\ new[Len(ch) + 1] = m
      /\ \A i \in 1..Len(ch) : new[i] = ch[i]
  OBVIOUS
<1> HIDE DEF new
<1>2. ASSUME NEW x \in InMessages(new, k) PROVE x \in InMessages(ch, k) \cup RowsIf(m, k)
  <2>1. PICK i \in 1..Len(new) : new[i].kind = k /\ x \in Rows(new[i])
    BY <1>2 DEF InMessages
  <2>2. CASE i = Len(ch) + 1
    BY <1>1, <2>1, <2>2, ProperIsMessage DEF RowsIf
  <2>3. CASE i \in 1..Len(ch)
    BY <1>1, <2>1, <2>3 DEF InMessages
  <2> QED BY <1>1, <2>1, <2>2, <2>3
<1>3. ASSUME NEW x \in InMessages(ch, k) PROVE x \in InMessages(new, k)
  <2>1. PICK i \in 1..Len(ch) : ch[i].kind = k /\ x \in Rows(ch[i])
    BY <1>3 DEF InMessages
  <2> QED BY <1>1, <2>1 DEF InMessages
<1>4. ASSUME NEW x \in RowsIf(m, k) PROVE x \in InMessages(new, k)
  BY <1>1, <1>4 DEF RowsIf, InMessages
<1> QED BY <1>2, <1>3, <1>4 DEF new

LEMMA TailRows ==
  ASSUME NEW ch \in Seq(Proper), ch # <<>>, NEW k
  PROVE  /\ InMessages(ch, k) = RowsIf(Head(ch), k) \cup InMessages(Tail(ch), k)
         /\ Apart(ch) => /\ RowsIf(Head(ch), k) \cap InMessages(Tail(ch), k) = {}
                         /\ Apart(Tail(ch))
<1> DEFINE old == Tail(ch)
<1>1. /\ Len(ch) = Len(old) + 1 /\ Len(old) \in Nat /\ ch[1] = Head(ch) /\ Head(ch) \in Proper
      /\ \A i \in 1..Len(old) : old[i] = ch[i + 1]
  OBVIOUS
<1> HIDE DEF old
<1>2. ASSUME NEW x \in InMessages(ch, k)
      PROVE  x \in RowsIf(Head(ch), k) \cup InMessages(old, k)
  <2>1. PICK i \in 1..Len(ch) : ch[i].kind = k /\ x \in Rows(ch[i])
    BY <1>2 DEF InMessages
  <2>2. CASE i = 1
    BY <1>1, <2>1, <2>2, ProperIsMessage DEF RowsIf
  <2>3. CASE i # 1
    <3>1. i - 1 \in 1..Len(old) /\ old[i - 1] = ch[i]
      BY <1>1, <2>3
    <3> QED BY <2>1, <3>1 DEF InMessages
  <2> QED BY <2>2, <2>3
<1>3. ASSUME NEW x \in InMessages(old, k)
      PROVE  \E i \in 2..Len(ch) : ch[i].kind = k /\ x \in Rows(ch[i])
  <2>1. PICK i \in 1..Len(old) : old[i].kind = k /\ x \in Rows(old[i])
    BY <1>3 DEF InMessages
  <2>2. i + 1 \in 2..Len(ch)
    BY <1>1
  <2> QED BY <1>1, <2>1, <2>2
<1>4. ASSUME NEW x \in RowsIf(Head(ch), k) PROVE ch[1].kind = k /\ x \in Rows(ch[1])
  BY <1>1, <1>4 DEF RowsIf
<1>5. InMessages(ch, k) = RowsIf(Head(ch), k) \cup InMessages(old, k)
  <2>1. InMessages(old, k) \subseteq InMessages(ch, k)
    BY <1>1, <1>3 DEF InMessages
  <2>2. RowsIf(Head(ch), k) \subseteq InMessages(ch, k)
    BY <1>1, <1>4 DEF InMessages
  <2> QED BY <1>2, <2>1, <2>2
<1>6. ASSUME Apart(ch)
      PROVE  RowsIf(Head(ch), k) \cap InMessages(old, k) = {} /\ Apart(old)
  <2>1. ASSUME NEW x \in RowsIf(Head(ch), k), x \in InMessages(old, k) PROVE FALSE
    <3>1. ch[1].kind = k /\ x \in Rows(ch[1])
      BY <1>4, <2>1
    <3>2. PICK i \in 2..Len(ch) : ch[i].kind = k /\ x \in Rows(ch[i])
      BY <1>3, <2>1
    <3>3. 1 \in 1..Len(ch) /\ i \in 1..Len(ch) /\ i # 1
      BY <1>1
    <3>4. Rows(ch[i]) \cap Rows(ch[1]) = {}
      BY <1>6, <3>1, <3>2, <3>3 DEF Apart
    <3> QED BY <3>1, <3>2, <3>4
  <2>2. ASSUME NEW i \in 1..Len(old), NEW j \in 1..Len(old), i # j, old[i].kind = old[j].kind
        PROVE  Rows(old[i]) \cap Rows(old[j]) = {}
    <3>1. i + 1 \in 1..Len(ch) /\ j + 1 \in 1..Len(ch) /\ i + 1 # j + 1
      BY <1>1, <2>2
    <3> QED BY <1>1, <1>6, <2>2, <3>1 DEF Apart
  <2> QED BY <2>1, <2>2 DEF Apart
<1> QED BY <1>5, <1>6 DEF old

LEMMA AppendApart ==
  ASSUME NEW ch \in Seq(Proper), NEW m \in Proper, Apart(ch),
         InMessages(ch, m.kind) \cap Rows(m) = {}
  PROVE  Apart(Append(ch, m))
<1> DEFINE new == Append(ch, m)
<1>1. /\ Len(new) = Len(ch) + 1 /\ Len(ch) \in Nat /\ new[Len(ch) + 1] = m
      /\ \A i \in 1..Len(ch) : new[i] = ch[i]
  OBVIOUS
<1> HIDE DEF new
<1>2. ASSUME NEW i \in 1..Len(ch), ch[i].kind = m.kind
      PROVE  Rows(ch[i]) \cap Rows(m) = {}
  BY <1>2 DEF InMessages
<1>3. ASSUME NEW i \in 1..Len(new), NEW j \in 1..Len(new), i # j, new[i].kind = new[j].kind
      PROVE  Rows(new[i]) \cap Rows(new[j]) = {}
  <2>1. CASE i \in 1..Len(ch) /\ j \in 1..Len(ch)
    BY <1>1, <1>3, <2>1 DEF Apart
  <2>2. CASE i = Len(ch) + 1 /\ j \in 1..Len(ch)
    BY <1>1, <1>2, <1>3, <2>2
  <2>3. CASE i \in 1..Len(ch) /\ j = Len(ch) + 1
    BY <1>1, <1>2, <1>3, <2>3
  <2> QED BY <1>1, <1>3, <2>1, <2>2, <2>3
<1> QED BY <1>3 DEF Apart, new

LEMMA RowsAreNumbers == \A m \in Message \cup {<<>>} : Rows(m) \subseteq Nat
<1> SUFFICES ASSUME NEW m \in Message, m # <<>> PROVE Rows(m) \subseteq Nat
  BY DEF Rows
<1>1. m.lo \in Nat /\ m.hi \in Nat
  BY DEF Message
<1> QED BY <1>1 DEF Rows

LEMMA CutInOrder ==
  ASSUME BatchTypeOK, InOrder, NEW k \in Kinds, NEW n \in Nat \ {0}, NEW step \in {"send", "flush"},
         taken[k] + n <= pushed[k], Cut(k, n, step),
         UNCHANGED <<pushed, channel, writerVars, lost>>
  PROVE  BatchTypeOK' /\ InOrder'
<1>1. [kind |-> k, lo |-> taken[k] + 1, hi |-> taken[k] + n] \in {m \in Proper : m.kind = k}
  BY DEF BatchTypeOK, Proper, Message
<1>2. BatchTypeOK'
  BY <1>1 DEF BatchTypeOK, Cut, Proceed, writerVars, Proper
<1>3. InOrder'
  BY <1>1, ProperIsMessage DEF BatchTypeOK, InOrder, Cut, Proceed, writerVars
<1> QED BY <1>2, <1>3

LEMMA InOrderStep == BatchTypeOK /\ InOrder /\ [BatchNext]_batchVars => BatchTypeOK' /\ InOrder'
<1> SUFFICES ASSUME BatchTypeOK, InOrder, [BatchNext]_batchVars PROVE BatchTypeOK' /\ InOrder'
  OBVIOUS
<1> USE DEF BatchTypeOK, InOrder, Proceed, Lose, accVars, writerVars
<1>1. ASSUME NEW k \in Kinds, NEW n \in 1..MaxRows, Push(k, n) PROVE BatchTypeOK' /\ InOrder'
  <2>1. n \in Nat
    BY BatchAssumption
  <2> QED BY <1>1, <2>1 DEF Push
<1>2. ASSUME NEW k \in Kinds, Split(k) PROVE BatchTypeOK' /\ InOrder'
  BY <1>2, CutInOrder, BatchAssumption DEF Split
<1>3. ASSUME NEW k \in Kinds, PushReturns(k) PROVE BatchTypeOK' /\ InOrder'
  BY <1>3 DEF PushReturns
<1>4. ASSUME NEW k \in Kinds, Flush(k) PROVE BatchTypeOK' /\ InOrder'
  <2>1. CASE Buffer(k) = {}
    BY <1>4, <2>1 DEF Flush
  <2>2. CASE Buffer(k) # {}
    <3>1. pushed[k] - taken[k] \in Nat \ {0}
      BY <2>2 DEF Buffer
    <3> QED BY <1>4, <2>2, <3>1, CutInOrder DEF Flush
  <2> QED BY <2>1, <2>2
<1>5. ASSUME NEW k \in Kinds, Send(k) PROVE BatchTypeOK' /\ InOrder'
  <2>1. batch[k] \in Proper /\ AfterSend(k) \in {"push", "closed"}
    BY <1>5 DEF Send, AfterSend
  <2>2. channel' \in Seq(Proper) /\ channel' \in Seq(Message)
    BY <1>5, <2>1, ProperIsMessage DEF Send
  <2> QED BY <1>5, <2>1, <2>2 DEF Send
<1>6. ASSUME NEW k \in Kinds, SendFails(k) PROVE BatchTypeOK' /\ InOrder'
  <2>1. Rows(batch[k]) \subseteq Nat
    BY RowsAreNumbers
  <2> QED BY <1>6, <2>1 DEF SendFails
<1>7. ASSUME NEW k \in Kinds, DropAcc(k) PROVE BatchTypeOK' /\ InOrder'
  <2>1. Buffer(k) \subseteq Nat
    BY DEF Buffer
  <2> QED BY <1>7, <2>1 DEF DropAcc
<1>8. CASE Recv
  <2>1. Head(channel) \in Proper /\ Tail(channel) \in Seq(Proper)
    BY <1>8 DEF Recv
  <2> QED BY <1>8, <2>1, ProperIsMessage DEF Recv
<1>9. CASE StoreBatch \/ StoreFails
  <2>1. hand \in Proper /\ hand.kind \in Kinds
    BY <1>9 DEF StoreBatch, StoreFails, Proper, Message
  <2>2. Rows(hand) \subseteq Nat
    BY <2>1, ProperIsMessage, RowsAreNumbers
  <2>3. count[hand.kind] + (hand.hi - hand.lo + 1) \in Nat
    BY <2>1 DEF Proper, Message
  <2>4. CASE StoreBatch
    BY <2>1, <2>2, <2>3, <2>4 DEF StoreBatch
  <2>5. CASE StoreFails
    BY <2>1, <2>2, <2>5 DEF StoreFails
  <2> QED BY <1>9, <2>4, <2>5
<1>10. CASE End
  BY <1>10 DEF End
<1>11. CASE Abort
  <2>1. rows' \in [Kinds -> SUBSET Nat] /\ lost' \in [Kinds -> SUBSET Nat]
    <3>1. \A m \in Message \cup {<<>>} : Rows(m) \subseteq Nat
      BY RowsAreNumbers
    <3>2. \A k \in Kinds : InHand(k) \subseteq Nat
      BY <3>1 DEF InHand
    <3>3. \A k \in Kinds : InChannel(k) \subseteq Nat
      BY <3>1 DEF InChannel, OfKind
    <3>4. PICK stored \in {{}, Rows(hand)} :
             /\ rows' = [k \in Kinds |-> rows[k] \cup (InHand(k) \cap stored)]
             /\ lost' = [k \in Kinds |-> lost[k] \cup InChannel(k) \cup (InHand(k) \ stored)]
      BY <1>11 DEF Abort
    <3> QED BY <3>2, <3>3, <3>4
  <2>2. <<>> \in Seq(Proper) /\ <<>> \in Seq(Message)
    OBVIOUS
  <2> QED BY <1>11, <2>1, <2>2 DEF Abort
<1>12. CASE UNCHANGED batchVars
  BY <1>12 DEF batchVars
<1> QED BY <1>1, <1>2, <1>3, <1>4, <1>5, <1>6, <1>7, <1>8, <1>9, <1>10, <1>11, <1>12
        DEF BatchNext, Writer

AllPlaced == \A k \in Kinds : OnePlace(k)
AllCounted == \A k \in Kinds : Counted(k)

LEMMA ChannelIs ==
  /\ \A k : InChannel(k) = InMessages(channel, k)
  /\ \A k : InHand(k) = RowsIf(hand, k)
BY DEF InChannel, OfKind, InMessages, InHand, RowsIf

LEMMA CutPlaces ==
  ASSUME BatchTypeOK, InOrder, AllPlaced, NEW k \in Kinds, NEW n \in Nat \ {0}, NEW step,
         acc[k] \in {"open", "push"}, taken[k] + n <= pushed[k], Cut(k, n, step),
         UNCHANGED <<pushed, channel, writerVars, lost>>
  PROVE  AllPlaced'
<1> SUFFICES ASSUME NEW q \in Kinds PROVE OnePlace(q)'
  BY DEF AllPlaced
<1>1. /\ rows' = rows /\ lost' = lost /\ pushed' = pushed /\ hand' = hand /\ channel' = channel
  BY DEF writerVars
<1>2. InHand(q)' = InHand(q) /\ InChannel(q)' = InChannel(q)
  BY <1>1 DEF InHand, InChannel, OfKind
<1>3. OnePlace(q)
  BY DEF AllPlaced
<1>4. CASE q = k
  <2>1. Rows(batch[k]) = {}
    BY DEF InOrder, Rows
  <2>2. Rows(batch'[k]) = (taken[k] + 1)..(taken[k] + n)
    <3> DEFINE m == [kind |-> k, lo |-> taken[k] + 1, hi |-> taken[k] + n]
    <3>1. batch'[k] = m
      BY DEF Cut, BatchTypeOK
    <3>2. m # <<>> /\ m.lo = taken[k] + 1 /\ m.hi = taken[k] + n
      OBVIOUS
    <3> QED BY <3>1, <3>2 DEF Rows
  <2>3. Buffer(k)' = (taken[k] + n + 1)..pushed[k]
    BY <1>1 DEF Buffer, Cut, BatchTypeOK
  <2>4. /\ Buffer(k) = Rows(batch'[k]) \cup Buffer(k)'
        /\ Rows(batch'[k]) \cap Buffer(k)' = {}
    <3>1. taken[k] \in Nat /\ pushed[k] \in Nat
      BY DEF BatchTypeOK
    <3>2. Buffer(k) = (taken[k] + 1)..pushed[k]
      BY DEF Buffer
    <3> QED BY <2>2, <2>3, <3>1, <3>2
  <2>5. Divided(rows[k], lost[k], InHand(k), InChannel(k), Rows(batch'[k]), Buffer(k)',
                1..pushed[k])
    BY <1>3, <1>4, <2>1, <2>4, RowsLeaveBuffer DEF OnePlace
  <2> QED BY <1>1, <1>2, <1>4, <2>5 DEF OnePlace
<1>5. CASE q # k
  BY <1>1, <1>2, <1>3, <1>5 DEF OnePlace, Buffer, Cut, BatchTypeOK
<1> QED BY <1>4, <1>5

LEMMA PlacesStep ==
  BatchTypeOK /\ InOrder /\ Apart(channel) /\ AllPlaced /\ [BatchNext]_batchVars
    => AllPlaced' /\ Apart(channel')
<1> SUFFICES ASSUME BatchTypeOK, InOrder, Apart(channel), AllPlaced, [BatchNext]_batchVars
             PROVE  AllPlaced' /\ Apart(channel')
  OBVIOUS
<1>0. ASSUME NEW q \in Kinds, rows'[q] = rows[q], lost'[q] = lost[q], InHand(q)' = InHand(q),
             InChannel(q)' = InChannel(q), batch'[q] = batch[q], taken'[q] = taken[q],
             pushed'[q] = pushed[q]
      PROVE  OnePlace(q)'
  BY <1>0 DEF AllPlaced, OnePlace, Buffer
<1>a. ASSUME hand' = hand PROVE \A q \in Kinds : InHand(q)' = InHand(q)
  BY <1>a DEF InHand
<1>b. ASSUME channel' = channel PROVE \A q \in Kinds : InChannel(q)' = InChannel(q)
  BY <1>b DEF InChannel, OfKind
<1>1. ASSUME NEW k \in Kinds, NEW n \in 1..MaxRows, Push(k, n) PROVE AllPlaced' /\ Apart(channel')
  <2>1. /\ rows' = rows /\ lost' = lost /\ taken' = taken /\ batch' = batch
        /\ hand' = hand /\ channel' = channel
    BY <1>1 DEF Push, writerVars
  <2>2. ASSUME NEW q \in Kinds PROVE OnePlace(q)'
    <3>1. CASE q = k
      <4> DEFINE N == (pushed[k] + 1)..(pushed[k] + n)
      <4>1. pushed'[k] = pushed[k] + n
        BY <1>1 DEF Push, BatchTypeOK
      <4>2. 1..pushed'[k] = (1..pushed[k]) \cup N /\ N \cap (1..pushed[k]) = {}
        BY <4>1 DEF BatchTypeOK
      <4>3. Buffer(k)' = Buffer(k) \cup N
        BY <2>1, <4>1 DEF Buffer, BatchTypeOK, InOrder
      <4> HIDE DEF N
      <4>4. OnePlace(k)
        BY DEF AllPlaced
      <4>5. Divided(rows[k], lost[k], InHand(k), InChannel(k), Rows(batch[k]), Buffer(k) \cup N,
                    (1..pushed[k]) \cup N)
        BY <4>2, <4>4, RowsCome DEF OnePlace
      <4> QED BY <1>a, <1>b, <2>1, <3>1, <4>2, <4>3, <4>5 DEF OnePlace
    <3>2. CASE q # k
      BY <1>0, <1>1, <1>a, <1>b, <2>1, <3>2 DEF Push, BatchTypeOK
    <3> QED BY <3>1, <3>2
  <2> QED BY <2>1, <2>2 DEF AllPlaced
<1>2. ASSUME NEW k \in Kinds, Split(k) PROVE AllPlaced' /\ Apart(channel')
  <2>1. taken[k] + BatchSize <= pushed[k]
    BY <1>2, BatchAssumption DEF Split, BatchTypeOK
  <2> QED BY <1>2, <2>1, CutPlaces, BatchAssumption DEF Split
<1>3. ASSUME NEW k \in Kinds, PushReturns(k) PROVE AllPlaced' /\ Apart(channel')
  BY <1>0, <1>3, <1>a, <1>b DEF PushReturns, AllPlaced, writerVars
<1>4. ASSUME NEW k \in Kinds, Flush(k) PROVE AllPlaced' /\ Apart(channel')
  <2>1. CASE Buffer(k) = {}
    BY <1>0, <1>4, <1>a, <1>b, <2>1 DEF Flush, AllPlaced, writerVars
  <2>2. CASE Buffer(k) # {}
    <3>1. /\ pushed[k] - taken[k] \in Nat \ {0}
          /\ taken[k] + (pushed[k] - taken[k]) <= pushed[k]
      BY <2>2 DEF Buffer, BatchTypeOK
    <3>2. AllPlaced'
      BY <1>4, <2>2, <3>1, CutPlaces DEF Flush
    <3> QED BY <1>4, <3>2 DEF Flush
  <2> QED BY <2>1, <2>2
<1>5. ASSUME NEW k \in Kinds, Send(k) PROVE AllPlaced' /\ Apart(channel')
  <2>1. batch[k] \in Proper /\ batch[k].kind = k /\ batch[k] # <<>> /\ channel \in Seq(Proper)
    BY <1>5 DEF Send, InOrder
  <2>2. /\ rows' = rows /\ lost' = lost /\ taken' = taken /\ pushed' = pushed /\ hand' = hand
        /\ channel' = Append(channel, batch[k]) /\ batch' = [batch EXCEPT ![k] = <<>>]
    BY <1>5 DEF Send, writerVars
  <2>3. \A q : InChannel(q)' = InChannel(q) \cup RowsIf(batch[k], q)
    BY <2>1, <2>2, AppendRows, ChannelIs DEF InChannel, OfKind, InMessages
  <2>4. InChannel(k) \cap Rows(batch[k]) = {}
    BY DEF AllPlaced, OnePlace, Divided
  <2>5. Apart(channel')
    BY <2>1, <2>2, <2>4, AppendApart, ChannelIs
  <2>6. ASSUME NEW q \in Kinds PROVE OnePlace(q)'
    <3>1. CASE q = k
      <4>1. InChannel(k)' = InChannel(k) \cup Rows(batch[k])
        BY <2>1, <2>3 DEF RowsIf
      <4>2. Rows(batch'[k]) = {}
        BY <2>2 DEF BatchTypeOK, Rows
      <4>3. OnePlace(k)
        BY DEF AllPlaced
      <4>4. Buffer(k)' = Buffer(k)
        BY <2>2 DEF Buffer
      <4>5. Divided(rows[k], lost[k], InHand(k), InChannel(k) \cup Rows(batch[k]), {}, Buffer(k),
                    1..pushed[k])
        BY <4>3, RowsAreSent DEF OnePlace
      <4> QED BY <1>a, <2>2, <3>1, <4>1, <4>2, <4>4, <4>5 DEF OnePlace
    <3>2. CASE q # k
      <4>1. InChannel(q)' = InChannel(q)
        BY <2>1, <2>3, <3>2 DEF RowsIf
      <4> QED BY <1>0, <1>a, <2>2, <3>2, <4>1 DEF BatchTypeOK
    <3> QED BY <3>1, <3>2
  <2> QED BY <2>5, <2>6 DEF AllPlaced
<1>6. ASSUME NEW k \in Kinds, SendFails(k) PROVE AllPlaced' /\ Apart(channel')
  <2>1. /\ rows' = rows /\ taken' = taken /\ pushed' = pushed /\ hand' = hand
        /\ channel' = channel /\ batch' = [batch EXCEPT ![k] = <<>>]
        /\ lost' = [lost EXCEPT ![k] = @ \cup Rows(batch[k])]
    BY <1>6 DEF SendFails, Lose, writerVars
  <2>2. ASSUME NEW q \in Kinds PROVE OnePlace(q)'
    <3>1. CASE q = k
      <4>1. lost'[k] = lost[k] \cup Rows(batch[k]) /\ Rows(batch'[k]) = {}
        BY <2>1 DEF BatchTypeOK, Rows
      <4>2. OnePlace(k) /\ Buffer(k)' = Buffer(k)
        BY <2>1 DEF AllPlaced, Buffer
      <4>3. Divided(rows[k], lost[k] \cup Rows(batch[k]), InHand(k), InChannel(k), {}, Buffer(k),
                    1..pushed[k])
        BY <4>2, SendIsLost DEF OnePlace
      <4> QED BY <1>a, <1>b, <2>1, <3>1, <4>1, <4>2, <4>3 DEF OnePlace
    <3>2. CASE q # k
      BY <1>0, <1>a, <1>b, <2>1, <3>2 DEF BatchTypeOK
    <3> QED BY <3>1, <3>2
  <2> QED BY <2>1, <2>2 DEF AllPlaced
<1>7. ASSUME NEW k \in Kinds, DropAcc(k) PROVE AllPlaced' /\ Apart(channel')
  <2>1. /\ rows' = rows /\ batch' = batch /\ pushed' = pushed /\ hand' = hand
        /\ channel' = channel /\ taken' = [taken EXCEPT ![k] = pushed[k]]
        /\ lost' = [lost EXCEPT ![k] = @ \cup Buffer(k)]
    BY <1>7 DEF DropAcc, Lose, writerVars
  <2>2. ASSUME NEW q \in Kinds PROVE OnePlace(q)'
    <3>1. CASE q = k
      <4>1. lost'[k] = lost[k] \cup Buffer(k)
        BY <2>1 DEF BatchTypeOK
      <4>2. Buffer(k)' = {}
        BY <2>1 DEF BatchTypeOK, Buffer
      <4>3. OnePlace(k)
        BY DEF AllPlaced
      <4>4. Divided(rows[k], lost[k] \cup Buffer(k), InHand(k), InChannel(k), Rows(batch[k]), {},
                    1..pushed[k])
        BY <4>3, BufferIsLost DEF OnePlace
      <4> QED BY <1>a, <1>b, <2>1, <3>1, <4>1, <4>2, <4>4 DEF OnePlace
    <3>2. CASE q # k
      BY <1>0, <1>a, <1>b, <2>1, <3>2 DEF BatchTypeOK
    <3> QED BY <3>1, <3>2
  <2> QED BY <2>1, <2>2 DEF AllPlaced
<1>8. CASE Recv
  <2>1. /\ rows' = rows /\ lost' = lost /\ taken' = taken /\ pushed' = pushed /\ batch' = batch
        /\ hand = <<>> /\ hand' = Head(channel) /\ channel' = Tail(channel) /\ channel # <<>>
    BY <1>8 DEF Recv, accVars, InOrder
  <2>2. ASSUME NEW q \in Kinds PROVE OnePlace(q)'
    <3>1. InHand(q) = {} /\ InHand(q)' = RowsIf(Head(channel), q)
      BY <2>1 DEF InHand, RowsIf
    <3>2. InChannel(q)' = InMessages(Tail(channel), q)
      BY <2>1 DEF InChannel, OfKind, InMessages
    <3>3. InChannel(q) = InHand(q)' \cup InChannel(q)' /\ InHand(q)' \cap InChannel(q)' = {}
      BY <2>1, <3>1, <3>2, TailRows, ChannelIs DEF InOrder
    <3>4. OnePlace(q) /\ Buffer(q)' = Buffer(q)
      BY <2>1 DEF AllPlaced, Buffer
    <3>5. Divided(rows[q], lost[q], InHand(q)', InChannel(q)', Rows(batch[q]), Buffer(q),
                  1..pushed[q])
      BY <3>1, <3>3, <3>4, RowsAreTaken DEF OnePlace
    <3> QED BY <2>1, <3>4, <3>5 DEF OnePlace
  <2>3. Apart(channel')
    BY <2>1, TailRows DEF InOrder
  <2> QED BY <2>2, <2>3 DEF AllPlaced
<1>9. CASE StoreBatch \/ StoreFails
  <2>1. /\ taken' = taken /\ pushed' = pushed /\ batch' = batch /\ channel' = channel
        /\ hand # <<>> /\ hand \in Proper /\ hand.kind \in Kinds /\ hand' = <<>>
    BY <1>9 DEF StoreBatch, StoreFails, accVars, InOrder, Proper, Message
  <2>2. ASSUME NEW q \in Kinds PROVE OnePlace(q)'
    <3>1. OnePlace(q) /\ Buffer(q)' = Buffer(q) /\ InHand(q)' = {}
      BY <2>1 DEF AllPlaced, Buffer, InHand
    <3>2. CASE StoreBatch
      <4>1. rows'[q] = rows[q] \cup InHand(q) /\ lost' = lost
        BY <2>1, <3>2 DEF StoreBatch, BatchTypeOK, InHand
      <4>2. Divided(rows[q] \cup InHand(q), lost[q], {}, InChannel(q), Rows(batch[q]), Buffer(q),
                    1..pushed[q])
        BY <3>1, RowsAreStored DEF OnePlace
      <4> QED BY <1>b, <2>1, <3>1, <4>1, <4>2 DEF OnePlace
    <3>3. CASE StoreFails
      <4>1. lost'[q] = lost[q] \cup InHand(q) /\ rows' = rows
        BY <2>1, <3>3 DEF StoreFails, Lose, BatchTypeOK, InHand
      <4>2. Divided(rows[q], lost[q] \cup InHand(q), {}, InChannel(q), Rows(batch[q]), Buffer(q),
                    1..pushed[q])
        BY <3>1, HandIsLost DEF OnePlace
      <4> QED BY <1>b, <2>1, <3>1, <4>1, <4>2 DEF OnePlace
    <3> QED BY <1>9, <3>2, <3>3
  <2> QED BY <2>1, <2>2 DEF AllPlaced
<1>10. CASE End
  BY <1>0, <1>10, <1>a, <1>b DEF End, AllPlaced, accVars
<1>11. CASE Abort
  <2>1. PICK stored \in {{}, Rows(hand)} :
           /\ rows' = [k \in Kinds |-> rows[k] \cup (InHand(k) \cap stored)]
           /\ lost' = [k \in Kinds |-> lost[k] \cup InChannel(k) \cup (InHand(k) \ stored)]
    BY <1>11 DEF Abort
  <2>2. /\ taken' = taken /\ pushed' = pushed /\ batch' = batch /\ channel' = <<>> /\ hand' = <<>>
    BY <1>11 DEF Abort, accVars
  <2>3. ASSUME NEW q \in Kinds PROVE OnePlace(q)'
    <3> DEFINE S == InHand(q) \cap stored
    <3>1. OnePlace(q) /\ Buffer(q)' = Buffer(q) /\ InHand(q)' = {} /\ InChannel(q)' = {}
      BY <2>2 DEF AllPlaced, Buffer, InHand, InChannel, OfKind
    <3>2. /\ S \in SUBSET InHand(q) /\ InHand(q) \ stored = InHand(q) \ S
      OBVIOUS
    <3>3. rows'[q] = rows[q] \cup S /\ lost'[q] = lost[q] \cup InChannel(q) \cup (InHand(q) \ S)
      BY <2>1, <3>2
    <3> HIDE DEF S
    <3>4. Divided(rows[q] \cup S, lost[q] \cup InChannel(q) \cup (InHand(q) \ S), {}, {},
                  Rows(batch[q]), Buffer(q), 1..pushed[q])
      BY <3>1, <3>2, AllIsLost DEF OnePlace
    <3> QED BY <2>2, <3>1, <3>3, <3>4 DEF OnePlace
  <2>4. Apart(channel')
    BY <2>2 DEF Apart
  <2> QED BY <2>3, <2>4 DEF AllPlaced
<1>12. CASE UNCHANGED batchVars
  BY <1>0, <1>12, <1>a, <1>b DEF batchVars, accVars, writerVars, AllPlaced
<1> QED BY <1>1, <1>2, <1>3, <1>4, <1>5, <1>6, <1>7, <1>8, <1>9, <1>10, <1>11, <1>12
        DEF BatchNext, Writer

LEMMA CountedStep ==
  BatchTypeOK /\ InOrder /\ AllPlaced /\ AllCounted /\ [BatchNext]_batchVars => AllCounted'
<1> SUFFICES ASSUME BatchTypeOK, InOrder, AllPlaced, AllCounted, [BatchNext]_batchVars,
                    NEW q \in Kinds, writer' # "aborted"
             PROVE  count'[q] = Cardinality(rows'[q])
  BY DEF AllCounted, Counted
<1>0. writer # "aborted"
  BY DEF BatchNext, Push, Split, PushReturns, Flush, Send, SendFails, DropAcc, Writer, Recv,
         StoreBatch, StoreFails, End, Abort, Receiving, batchVars, writerVars
<1>1. count[q] = Cardinality(rows[q])
  BY <1>0 DEF AllCounted, Counted
<1>2. CASE StoreBatch
  <2>1. hand # <<>> /\ hand \in Proper /\ hand.kind \in Kinds
    BY <1>2 DEF StoreBatch, InOrder, Proper, Message
  <2>2. CASE q = hand.kind
    <3>1. /\ rows'[q] = rows[q] \cup Rows(hand)
          /\ count'[q] = count[q] + (hand.hi - hand.lo + 1)
      BY <1>2, <2>1, <2>2 DEF StoreBatch, BatchTypeOK
    <3>2. hand.lo \in Nat /\ hand.hi \in Nat /\ hand.lo <= hand.hi /\ Rows(hand) = hand.lo..hand.hi
      BY <2>1 DEF Proper, Message, Rows
    <3>3. IsFiniteSet(Rows(hand)) /\ Cardinality(Rows(hand)) = hand.hi - hand.lo + 1
      <4>1. /\ IsFiniteSet(hand.lo..hand.hi)
            /\ Cardinality(hand.lo..hand.hi)
                  = IF hand.lo > hand.hi THEN 0 ELSE hand.hi - hand.lo + 1
        <5>1. hand.lo \in Int /\ hand.hi \in Int
          BY <3>2
        <5> QED BY <5>1, FS_Interval, Zenon
      <4> QED BY <3>2, <4>1
    <3>4. rows[q] \subseteq 1..pushed[q] /\ rows[q] \cap Rows(hand) = {}
      BY <2>1, <2>2 DEF AllPlaced, OnePlace, Divided, InHand
    <3>5. IsFiniteSet(rows[q])
      <4>1. 1 \in Int /\ pushed[q] \in Int
        BY DEF BatchTypeOK
      <4>2. IsFiniteSet(1..pushed[q])
        BY <4>1, FS_Interval, Zenon
      <4> QED BY <3>4, <4>2, FS_Subset
    <3>6. Cardinality(rows[q] \cup Rows(hand)) = Cardinality(rows[q]) + Cardinality(Rows(hand))
      <4>1. Cardinality(rows[q] \cup Rows(hand))
              = Cardinality(rows[q]) + Cardinality(Rows(hand)) - Cardinality({})
        BY <3>3, <3>4, <3>5, FS_Union
      <4>2. Cardinality({}) = 0 /\ Cardinality(rows[q]) \in Nat /\ Cardinality(Rows(hand)) \in Nat
        BY <3>3, <3>5, FS_EmptySet, FS_CardinalityType
      <4> QED BY <4>1, <4>2
    <3> QED BY <1>1, <3>1, <3>3, <3>6
  <2>3. CASE q # hand.kind
    BY <1>1, <1>2, <2>1, <2>3 DEF StoreBatch, BatchTypeOK
  <2> QED BY <2>2, <2>3
<1>3. CASE rows' = rows /\ count' = count
  BY <1>1, <1>3
<1> QED BY <1>2, <1>3
        DEF BatchNext, Push, Split, PushReturns, Flush, Send, SendFails, DropAcc, Writer, Recv,
            StoreFails, End, Abort, batchVars, writerVars

\* Whatever is pushed, cut, sent, dropped, refused or aborted, a row is in exactly one
\* place, and the counters the task returns are the rows it stored.
THEOREM AccountedAlways == BatchSpec => []Accounted
<1> DEFINE BatchInv == BatchTypeOK /\ InOrder /\ Apart(channel) /\ AllPlaced /\ AllCounted
<1>1. BatchInit => BatchInv
  <2> SUFFICES ASSUME BatchInit PROVE BatchInv
    OBVIOUS
  <2>1. BatchTypeOK
    BY DEF BatchInit, BatchTypeOK
  <2>2. InOrder /\ Apart(channel)
    BY DEF BatchInit, InOrder, Apart
  <2>3. ASSUME NEW k \in Kinds PROVE OnePlace(k) /\ Counted(k)
    <3>1. /\ rows[k] = {} /\ lost[k] = {} /\ Rows(batch[k]) = {} /\ 1..pushed[k] = {}
          /\ Buffer(k) = {} /\ count[k] = 0
      BY DEF BatchInit, Rows, Buffer
    <3>2. InHand(k) = {} /\ InChannel(k) = {}
      BY DEF BatchInit, InHand, InChannel, OfKind
    <3>3. Divided({}, {}, {}, {}, {}, {}, {})
      BY DEF Divided
    <3> QED BY <3>1, <3>2, <3>3, FS_EmptySet DEF OnePlace, Counted
  <2> QED BY <2>1, <2>2, <2>3 DEF AllPlaced, AllCounted
<1>2. BatchInv /\ [BatchNext]_batchVars => BatchInv'
  <2> SUFFICES ASSUME BatchInv, [BatchNext]_batchVars PROVE BatchInv'
    OBVIOUS
  <2>1. BatchTypeOK' /\ InOrder'
    BY InOrderStep
  <2>2. AllPlaced' /\ Apart(channel')
    BY PlacesStep
  <2>3. AllCounted'
    BY CountedStep
  <2>4. Apart(channel)'
    BY <2>2 DEF Apart
  <2> QED BY <2>1, <2>2, <2>3, <2>4
<1>3. BatchInv => Accounted
  BY AccountedIs DEF AllPlaced, AllCounted
<1> QED BY <1>1, <1>2, <1>3, PTL DEF BatchSpec
=============================================================================
