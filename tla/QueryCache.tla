------------------------------ MODULE QueryCache ------------------------------
(***************************************************************************)
(* The result cache of core/cache.rs: a concurrent map from the hash of a  *)
(* query, repository and commit to a result, with a capacity and a time to *)
(* live.  None of its operations is atomic: get looks an entry up and      *)
(* removes it in two steps, insert makes room before it inserts, and       *)
(* clearing the map goes from shard to shard.                              *)
(*                                                                         *)
(* A slot is a hash and a result the number of analyses it was computed    *)
(* after; a thread computes a result after a miss and inserts it, another  *)
(* one invalidates the cache when an analysis is done.                     *)
(***************************************************************************)
EXTENDS Naturals, FiniteSets

CONSTANTS
    Threads,
    Slots,          \* hashes make_key returns; each in a shard of its own
    MaxEntries,
    MaxAnalyses     \* bound

ASSUME CacheAssumption == MaxEntries \in Nat /\ Slots # {}

VARIABLES
    entries,    \* entries[s]: <<>>, or the cached result: of how many analyses, whether
                \* within its time to live, and (history) whether late: put in after the
                \* invalidation it should have fallen to had begun
    analyses,   \* number of analyses so far
    toClear,    \* shards invalidate_repo has still to clear
    at,         \* what each thread does
    slot,       \* the hash it works on
    result,     \* the number of analyses when it computed its result
    victim,     \* the hash insert chose to evict
    raced       \* history: two threads were in insert at once

threadVars == <<at, slot, result, victim>>
cacheVars  == <<entries, analyses, toClear, threadVars, raced>>

CacheInit ==
    /\ entries = [s \in Slots |-> <<>>] /\ analyses = 0 /\ toClear = {}
    /\ at = [t \in Threads |-> "idle"] /\ slot = [t \in Threads |-> CHOOSE s \in Slots : TRUE]
    /\ result = [t \in Threads |-> 0] /\ victim = [t \in Threads |-> {}]
    /\ raced = FALSE

-----------------------------------------------------------------------------
Used    == {s \in Slots : entries[s] # <<>>}
Expired == {s \in Used : ~entries[s].fresh}
Drop(S) == entries' = [s \in Slots |-> IF s \in S THEN <<>> ELSE entries[s]]
Go(t, step) == at' = [at EXCEPT ![t] = step]

\* created_at.elapsed() reaches the ttl.
Expire(s) ==
    /\ s \in Used \ Expired
    /\ entries' = [entries EXCEPT ![s].fresh = FALSE]
    /\ UNCHANGED <<analyses, toClear, threadVars, raced>>

\* get: a hit, or a miss after which the caller computes the result itself
LookUp(t, s) ==
    /\ at[t] = "idle"
    /\ s \in Used => s \in Expired
    /\ Go(t, IF s \in Used THEN "remove" ELSE "compute")
    /\ slot' = [slot EXCEPT ![t] = s]
    /\ UNCHANGED <<entries, analyses, toClear, result, victim, raced>>

\* get: drop(entry), remove: whatever the slot holds by now
RemoveExpired(t) ==
    /\ at[t] = "remove"
    /\ Drop({slot[t]})
    /\ Go(t, "compute")
    /\ UNCHANGED <<analyses, toClear, slot, result, victim, raced>>

\* The query is run on the index.
Compute(t) ==
    /\ at[t] = "compute"
    /\ result' = [result EXCEPT ![t] = analyses]
    /\ Go(t, "insert")
    /\ UNCHANGED <<entries, analyses, toClear, slot, victim, raced>>

\* insert: at capacity an expired entry is chosen, or the first one seen, which the code
\* calls the oldest and which need not be it.  The count and the two scans are separate looks
\* at a map others change.  One step stands for them: an entry that goes or expires between
\* them only makes a victim more or less, and an insert between them is what raced records.
Choose(t) ==
    /\ at[t] = "insert"
    /\ IF Cardinality(Used) >= MaxEntries /\ Used # {}
       THEN \E v \in (IF Expired # {} THEN Expired ELSE Used) : victim' = [victim EXCEPT ![t] = {v}]
       ELSE victim' = [victim EXCEPT ![t] = {}]
    /\ raced' = (raced \/ \E u \in Threads : at[u] \in {"evict", "put"})
    /\ Go(t, "evict")
    /\ UNCHANGED <<entries, analyses, toClear, slot, result>>

\* ... removed ...
Evict(t) ==
    /\ at[t] = "evict"
    /\ Drop(victim[t])
    /\ Go(t, "put")
    /\ victim' = [victim EXCEPT ![t] = {}]
    /\ UNCHANGED <<analyses, toClear, slot, result, raced>>

\* ... and the result inserted, over what another thread put there.
Put(t) ==
    /\ at[t] = "put"
    /\ entries' = [entries EXCEPT ![slot[t]] =
                       [of |-> result[t], fresh |-> TRUE, late |-> result[t] # analyses]]
    /\ Go(t, "idle")
    /\ UNCHANGED <<analyses, toClear, slot, result, victim, raced>>

\* An analysis is done and its caller invalidates the cache.
Analyze ==
    /\ toClear = {} /\ analyses < MaxAnalyses
    /\ analyses' = analyses + 1
    /\ toClear' = Slots
    /\ UNCHANGED <<entries, threadVars, raced>>

\* Mutant of Clear: only expired entries go.
ClearExpired(s) ==
    /\ s \in toClear
    /\ Drop({s} \cap Expired)
    /\ toClear' = toClear \ {s}
    /\ UNCHANGED <<analyses, threadVars, raced>>

\* invalidate_repo: entries.clear() takes the shards one by one.
Clear(s) ==
    /\ s \in toClear
    /\ Drop({s})
    /\ toClear' = toClear \ {s}
    /\ UNCHANGED <<analyses, threadVars, raced>>

CacheNext ==
    \/ \E s \in Slots : Expire(s) \/ Clear(s)
    \/ \E t \in Threads, s \in Slots : LookUp(t, s)
    \/ \E t \in Threads : RemoveExpired(t) \/ Compute(t) \/ Choose(t) \/ Evict(t) \/ Put(t)
    \/ Analyze

CacheSpec == CacheInit /\ [][CacheNext]_cacheVars

-----------------------------------------------------------------------------
\* The cache never holds more entries than its capacity (a single one when that is
\* zero), unless two inserts overlapped: both may then evict the same entry, and one
\* more stays for good each time.
CapacityUnlessRaced ==
    raced \/ Cardinality(Used) <= (IF MaxEntries = 0 THEN 1 ELSE MaxEntries)

\* Once an invalidation is through, an entry of an earlier analysis is one that was
\* computed before and inserted while, or after, the map was cleared.
OnlyLateIsStale ==
    toClear = {} => \A s \in Used : entries[s].of = analyses \/ entries[s].late

\* The cache holds too much, or what is out of date, only when calls overlapped in the two
\* ways that can bring it about.
FaultsAreRaces == CapacityUnlessRaced /\ OnlyLateIsStale
=============================================================================
