---------------------------- MODULE Search_proofs ----------------------------
(***************************************************************************)
(* Proofs about the searches over the graph and about the tracer of        *)
(* execution flows, for any graph, any question and any limit.             *)
(*                                                                         *)
(* A search keeps its queue in the order of the depths, of which there are *)
(* two at most, so a node is marked at its least depth: what is marked     *)
(* follows from something marked one level above it, and what is marked    *)
(* and not in the queue has all its neighbours marked.  When the queue is  *)
(* empty, the marks are a ball of the reference, by induction on its       *)
(* radius.  The tracer's tree is closed under calls but for the callees    *)
(* its frames have left, unless its topmost frame is full; each frame      *)
(* below that one is short of full, which bounds the size level by level.  *)
(***************************************************************************)
EXTENDS GraphSearch, ProcessTree, FiniteSetTheorems, WellFoundedInduction, TLAPS

-----------------------------------------------------------------------------
(***************************************************************************)
(* Numbers: a least element, induction, and functions defined by steps.    *)
(***************************************************************************)
\* Every set of numbers that is not empty has a least one.
LEMMA LeastNumber ==
  ASSUME NEW T, T \subseteq Nat, T # {}
  PROVE  \E m \in T : \A n \in T : m <= n
<1> DEFINE R == {ss \in Nat \X Nat : ss[1] < ss[2]}
<1>1. IsWellFoundedOn(R, Nat)
  BY NatLessThanWellFounded DEF OpToRel
<1>2. \E m \in T : \A n \in T : ~(<<n, m>> \in R)
  <2> HIDE DEF R
  <2> QED BY <1>1, WFMin
<1>3. PICK m \in T : \A n \in T : ~(<<n, m>> \in R)
  BY <1>2
<1>4. ASSUME NEW n \in T PROVE m <= n
  <2>1. n \in Nat /\ m \in Nat /\ ~(<<n, m>> \in R)
    BY <1>3
  <2>2. ~(n < m)
    BY <2>1
  <2> QED BY <2>1, <2>2
<1> QED BY <1>4

\* A set of numbers that has 0 and the successor of each of its own has all of them.
LEMMA Counting ==
  ASSUME NEW T, T \subseteq Nat, 0 \in T, \A n \in T : n + 1 \in T
  PROVE  \A n \in Nat : n \in T
<1> SUFFICES ASSUME NEW k \in Nat, k \notin T PROVE FALSE
  OBVIOUS
<1>1. PICK m \in Nat \ T : \A n \in Nat \ T : m <= n
  BY LeastNumber
<1>2. m # 0 /\ m - 1 \in Nat
  BY <1>1
<1>3. m - 1 \in T
  BY <1>1, <1>2
<1> QED BY <1>1, <1>2, <1>3

\* f is the sequence of iterates up to n.
Run(f, n, start, step) == f = [i \in 0..n |-> IF i = 0 THEN start ELSE step[f[i - 1]]]

LEMMA RunValues ==
  ASSUME NEW f, NEW n \in Nat, NEW start, NEW step, Run(f, n, start, step)
  PROVE  /\ f[0] = start
         /\ \A i \in 1..n : f[i] = step[f[i - 1]]
<1>1. \A i \in 0..n : f[i] = IF i = 0 THEN start ELSE step[f[i - 1]]
  BY DEF Run
<1> QED BY <1>1

LEMMA RunsExist ==
  ASSUME NEW start, NEW step
  PROVE  \A n \in Nat : \E f : Run(f, n, start, step)
<1> DEFINE T == {n \in Nat : \E f : Run(f, n, start, step)}
<1>1. 0 \in T
  <2>1. Run([i \in 0..0 |-> start], 0, start, step)
    BY DEF Run
  <2> QED BY <2>1
<1>2. ASSUME NEW n \in T PROVE n + 1 \in T
  <2>1. PICK f : Run(f, n, start, step)
    OBVIOUS
  <2> DEFINE h == [i \in 0..(n + 1) |-> IF i <= n THEN f[i] ELSE step[f[n]]]
  <2>2. f[0] = start /\ \A i \in 1..n : f[i] = step[f[i - 1]]
    BY <2>1, RunValues
  <2>3. ASSUME NEW i \in 0..(n + 1)
        PROVE  h[i] = IF i = 0 THEN start ELSE step[h[i - 1]]
    <3>1. CASE i = 0
      BY <3>1, <2>2
    <3>2. CASE i \in 1..n
      <4>1. i - 1 \in 0..(n + 1) /\ i - 1 <= n
        BY <3>2
      <4>2. h[i] = f[i] /\ h[i - 1] = f[i - 1]
        BY <3>2, <4>1
      <4> QED BY <3>2, <4>2, <2>2
    <3>3. CASE i = n + 1
      <4>1. h[i] = step[f[n]] /\ h[n] = f[n] /\ i - 1 = n /\ i # 0
        BY <3>3
      <4> QED BY <4>1
    <3> QED BY <3>1, <3>2, <3>3
  <2>4. h = [i \in 0..(n + 1) |-> IF i = 0 THEN start ELSE step[h[i - 1]]]
    <3> HIDE DEF h
    <3>1. DOMAIN h = 0..(n + 1) /\ h = [i \in 0..(n + 1) |-> h[i]]
      BY DEF h
    <3> QED BY <3>1, <2>3
  <2>5. Run(h, n + 1, start, step)
    <3> HIDE DEF h
    <3> QED BY <2>4 DEF Run
  <2> QED BY <2>5
<1>3. \A n \in Nat : n \in T
  <2> HIDE DEF T
  <2>1. T \subseteq Nat
    BY DEF T
  <2> QED BY <1>1, <1>2, <2>1, Counting
<1> QED BY <1>3

LEMMA RunsAgree ==
  ASSUME NEW start, NEW step, NEW n \in Nat, NEW m \in Nat, n <= m,
         NEW f, NEW g, Run(f, n, start, step), Run(g, m, start, step)
  PROVE  \A i \in 0..n : f[i] = g[i]
<1>1. f[0] = start /\ \A i \in 1..n : f[i] = step[f[i - 1]]
  <2>1. Run(f, n, start, step)
    OBVIOUS
  <2> HIDE DEF Run
  <2> QED BY ONLY <2>1, n \in Nat, RunValues
<1>2. g[0] = start /\ \A i \in 1..m : g[i] = step[g[i - 1]]
  <2>1. Run(g, m, start, step)
    OBVIOUS
  <2> QED BY ONLY <2>1, m \in Nat, RunValues
<1> DEFINE T == {i \in Nat : i <= n => f[i] = g[i]}
<1>3. ASSUME NEW i \in T PROVE i + 1 \in T
  <2> SUFFICES ASSUME i + 1 <= n PROVE f[i + 1] = g[i + 1]
    OBVIOUS
  <2>1. i + 1 \in 1..n /\ i + 1 \in 1..m /\ (i + 1) - 1 = i
    OBVIOUS
  <2>2. f[i] = g[i]
    OBVIOUS
  <2> QED BY <1>1, <1>2, <2>1, <2>2
<1>4. \A i \in Nat : i \in T
  <2>1. 0 \in T /\ T \subseteq Nat
    BY <1>1, <1>2
  <2> HIDE DEF T
  <2> QED BY <1>3, <2>1, Counting
<1> QED BY <1>4

\* A function of the numbers may be defined by what it is at 0 and by what it is after each.
Iterated(g, start, step) == g = [i \in Nat |-> IF i = 0 THEN start ELSE step[g[i - 1]]]

LEMMA Iterates ==
  ASSUME NEW start, NEW step
  PROVE  \E g : Iterated(g, start, step)
<1> DEFINE F(n) == CHOOSE f : Run(f, n, start, step)
           g == [n \in Nat |-> F(n)[n]]
<1>1. ASSUME NEW n \in Nat PROVE Run(F(n), n, start, step)
  BY RunsExist
<1> HIDE DEF F
<1>2. ASSUME NEW n \in Nat
      PROVE  g[n] = IF n = 0 THEN start ELSE step[g[n - 1]]
  <2>1. F(n)[0] = start /\ \A i \in 1..n : F(n)[i] = step[F(n)[i - 1]]
    BY <1>1, RunValues
  <2>2. CASE n = 0
    BY <2>1, <2>2
  <2>3. CASE n # 0
    <3>1. n - 1 \in Nat /\ n - 1 <= n /\ n \in 1..n /\ n - 1 \in 0..(n - 1)
      BY <2>3
    <3>2. F(n - 1)[n - 1] = F(n)[n - 1]
      <4>1. Run(F(n - 1), n - 1, start, step) /\ Run(F(n), n, start, step)
        BY <1>1, <3>1
      <4> QED BY <3>1, <4>1, RunsAgree
    <3> QED BY <2>1, <2>3, <3>1, <3>2
  <2> QED BY <2>2, <2>3
<1>3. g = [i \in Nat |-> g[i]]
  OBVIOUS
<1>4. g = [i \in Nat |-> IF i = 0 THEN start ELSE step[g[i - 1]]]
  <2> HIDE DEF g
  <2> QED BY <1>2, <1>3
<1> QED
  <2> HIDE DEF g
  <2> QED BY <1>4 DEF Iterated

-----------------------------------------------------------------------------
(***************************************************************************)
(* The searches.                                                           *)
(***************************************************************************)
Entries == [node : Nodes, depth : Nat]

\* A set is put into the queue with one entry for each of its elements.
PlacesFor(p, S, d) ==
    /\ p \in Seq(Entries)
    /\ \A i \in 1..Len(p) : p[i].node \in S /\ p[i].depth = d
    /\ \A s \in S : \E i \in 1..Len(p) : p[i].node = s
    /\ \A i, j \in 1..Len(p) : p[i].node = p[j].node => i = j

LEMMA PlacesOf ==
  ASSUME NEW S \in SUBSET Nodes, IsFiniteSet(S), NEW d \in Nat
  PROVE  PlacesFor(AtDepth(S, d), S, d)
<1> DEFINE n == Cardinality(S)
           f == SetToSeq(S)
           p == [i \in 1..n |-> [node |-> f[i], depth |-> d]]
<1>1. n \in Nat
  BY FS_CardinalityType
<1>2. PICK g \in Bijection(1..n, S) : TRUE
  <2>1. ExistsBijection(1..n, S)
    BY FS_CardinalityType
  <2> QED BY <2>1 DEF ExistsBijection
<1>3. g \in [1..n -> S] /\ IsInjective(g)
  BY <1>2 DEF Bijection, Injection, IsInjective
<1>4. f \in [1..n -> S] /\ IsInjective(f)
  BY <1>3 DEF SetToSeq
<1>5. \A s \in S : \E i \in 1..n : f[i] = s
  <2>1. f \in Injection(1..n, S)
    BY <1>4 DEF Injection, IsInjective
  <2>2. Cardinality(1..n) = n /\ IsFiniteSet(1..n)
    BY <1>1, FS_Interval
  <2>3. f \in Surjection(1..n, S)
    BY <2>1, <2>2, FS_Injection
  <2> QED BY <2>3 DEF Surjection
<1>6. AtDepth(S, d) = p
  BY DEF AtDepth
<1> HIDE DEF n, f
<1>7. p \in Seq(Entries) /\ Len(p) = n
  BY <1>1, <1>4 DEF Entries
<1>8. \A i \in 1..n : p[i].node = f[i] /\ p[i].depth = d
  OBVIOUS
<1>9. \A i, j \in 1..n : f[i] = f[j] => i = j
  BY <1>4 DEF IsInjective
<1> HIDE DEF p
<1>10. \A i \in 1..n : f[i] \in S
  BY <1>4
<1>11. \A i \in 1..Len(p) : p[i].node \in S /\ p[i].depth = d
  BY <1>7, <1>8, <1>10
<1>12. \A s \in S : \E i \in 1..Len(p) : p[i].node = s
  BY <1>5, <1>7, <1>8
<1>13. \A i, j \in 1..Len(p) : p[i].node = p[j].node => i = j
  BY <1>7, <1>8, <1>9
<1> QED BY <1>6, <1>7, <1>11, <1>12, <1>13 DEF PlacesFor

\* What a queue holds after its first entry is taken and others are put behind the rest.
LEMMA Shifted ==
  ASSUME NEW E, NEW q \in Seq(E), q # <<>>, NEW p \in Seq(E)
  PROVE  /\ Tail(q) \o p \in Seq(E)
         /\ Len(Tail(q) \o p) = (Len(q) - 1) + Len(p)
         /\ \A i \in 1..(Len(q) - 1) : (Tail(q) \o p)[i] = q[i + 1]
         /\ \A i \in 1..Len(p) : (Tail(q) \o p)[(Len(q) - 1) + i] = p[i]
<1>1. Tail(q) \in Seq(E) /\ Len(Tail(q)) = Len(q) - 1 /\ Len(q) \in Nat /\ Len(q) > 0
  OBVIOUS
<1>2. \A i \in 1..(Len(q) - 1) : Tail(q)[i] = q[i + 1]
  OBVIOUS
<1> QED BY <1>1, <1>2

MadeOf(r, q, p) ==
    /\ r \in Seq(Entries)
    /\ \A i \in 1..Len(r) : \/ \E j \in 2..Len(q) : r[i] = q[j]
                            \/ \E j \in 1..Len(p) : r[i] = p[j]
    /\ \A j \in 2..Len(q) : \E i \in 1..Len(r) : r[i] = q[j]
    /\ \A j \in 1..Len(p) : \E i \in 1..Len(r) : r[i] = p[j]

LEMMA ShiftedEntries ==
  ASSUME NEW q \in Seq(Entries), q # <<>>, NEW p \in Seq(Entries),
         NEW r, r = Tail(q) \o p
  PROVE  MadeOf(r, q, p)
<1>1. /\ r \in Seq(Entries) /\ Len(r) = (Len(q) - 1) + Len(p)
      /\ \A i \in 1..(Len(q) - 1) : r[i] = q[i + 1]
      /\ \A i \in 1..Len(p) : r[(Len(q) - 1) + i] = p[i]
  BY Shifted
<1>2. Len(q) \in Nat /\ Len(q) > 0 /\ Len(p) \in Nat
  OBVIOUS
<1>3. ASSUME NEW i \in 1..Len(r)
      PROVE  (\E j \in 2..Len(q) : r[i] = q[j]) \/ (\E j \in 1..Len(p) : r[i] = p[j])
  <2>1. CASE i <= Len(q) - 1
    <3>1. r[i] = q[i + 1] /\ i + 1 \in 2..Len(q)
      BY <1>1, <1>2, <2>1
    <3> QED BY <3>1
  <2>2. CASE i > Len(q) - 1
    <3> DEFINE k == i - (Len(q) - 1)
    <3>1. k \in 1..Len(p) /\ (Len(q) - 1) + k = i
      BY <1>1, <1>2, <2>2
    <3>2. r[i] = p[k]
      BY <1>1, <3>1
    <3> QED BY <3>1, <3>2
  <2> QED BY <1>1, <1>2, <2>1, <2>2
<1>4. ASSUME NEW j \in 2..Len(q) PROVE \E i \in 1..Len(r) : r[i] = q[j]
  <2>1. j - 1 \in 1..(Len(q) - 1) /\ (j - 1) + 1 = j /\ j - 1 \in 1..Len(r)
    BY <1>1, <1>2
  <2> QED BY <1>1, <2>1
<1>5. ASSUME NEW j \in 1..Len(p) PROVE \E i \in 1..Len(r) : r[i] = p[j]
  <2>1. (Len(q) - 1) + j \in 1..Len(r)
    BY <1>1, <1>2
  <2> QED BY <1>1, <2>1
<1> QED BY <1>1, <1>3, <1>4, <1>5 DEF MadeOf

\* The entries of a queue are in the order of their depths, of which there are two at most.
InOrder(q) ==
    \A i, j \in 1..Len(q) :
        i <= j => q[i].depth <= q[j].depth /\ q[j].depth <= q[1].depth + 1

LEMMA StaysInOrder ==
  ASSUME NEW q \in Seq(Entries), q # <<>>, InOrder(q), NEW p \in Seq(Entries),
         \A i \in 1..Len(p) : p[i].depth = q[1].depth + 1,
         NEW r, r = Tail(q) \o p
  PROVE  /\ InOrder(r)
         /\ r # <<>> => r[1].depth >= q[1].depth
<1>1. /\ r \in Seq(Entries) /\ Len(r) = (Len(q) - 1) + Len(p)
      /\ \A i \in 1..(Len(q) - 1) : r[i] = q[i + 1]
      /\ \A i \in 1..Len(p) : r[(Len(q) - 1) + i] = p[i]
  BY Shifted
<1>2. Len(q) \in Nat /\ Len(q) > 0 /\ Len(p) \in Nat
  OBVIOUS
<1>3. \A i \in 1..Len(q) : q[i].depth \in Nat /\ q[1].depth <= q[i].depth
                           /\ q[i].depth <= q[1].depth + 1
  <2> TAKE i \in 1..Len(q)
  <2>1. 1 \in 1..Len(q) /\ 1 <= i
    BY <1>2
  <2>2. q[i] \in Entries
    OBVIOUS
  <2> QED BY <2>1, <2>2 DEF InOrder, Entries
<1>4. ASSUME NEW i \in 1..Len(r)
      PROVE  /\ r[i].depth \in Nat
             /\ q[1].depth <= r[i].depth /\ r[i].depth <= q[1].depth + 1
             /\ i > Len(q) - 1 => r[i].depth = q[1].depth + 1
             /\ i <= Len(q) - 1 => r[i].depth = q[i + 1].depth
  <2>1. CASE i <= Len(q) - 1
    <3>1. r[i] = q[i + 1] /\ i + 1 \in 1..Len(q)
      BY <1>1, <1>2, <2>1
    <3> QED BY <1>2, <1>3, <2>1, <3>1
  <2>2. CASE i > Len(q) - 1
    <3> DEFINE k == i - (Len(q) - 1)
    <3>1. k \in 1..Len(p) /\ (Len(q) - 1) + k = i
      BY <1>1, <1>2, <2>2
    <3>2. r[i] = p[k]
      BY <1>1, <3>1
    <3>3. r[i].depth = q[1].depth + 1 /\ q[1].depth \in Nat
      BY <1>2, <1>3, <3>1, <3>2
    <3> QED BY <1>2, <2>2, <3>3
  <2> QED BY <1>1, <1>2, <2>1, <2>2
<1>5. ASSUME NEW i \in 1..Len(r), NEW j \in 1..Len(r), i <= j
      PROVE  r[i].depth <= r[j].depth /\ r[j].depth <= r[1].depth + 1
  <2>1. r[i].depth <= r[j].depth
    <3>1. CASE j <= Len(q) - 1
      <4>1. i + 1 \in 1..Len(q) /\ j + 1 \in 1..Len(q) /\ i + 1 <= j + 1 /\ i <= Len(q) - 1
        BY <1>1, <1>2, <1>5, <3>1
      <4>2. q[i + 1].depth <= q[j + 1].depth
        BY <4>1 DEF InOrder
      <4> QED BY <1>4, <3>1, <4>1, <4>2
    <3>2. CASE j > Len(q) - 1
      BY <1>4, <3>2
    <3> QED BY <1>1, <1>2, <3>1, <3>2
  <2>2. 1 \in 1..Len(r)
    BY <1>1, <1>2
  <2>3. q[1].depth \in Nat /\ q[1].depth <= r[1].depth /\ r[1].depth \in Nat
    BY <1>2, <1>3, <1>4, <2>2
  <2>4. r[j].depth <= q[1].depth + 1 /\ r[j].depth \in Nat
    BY <1>4
  <2> DEFINE a == r[j].depth
             b == q[1].depth
             c == r[1].depth
  <2>5. a <= c + 1
    <3> HIDE DEF a, b, c
    <3>1. b \in Nat /\ b <= c /\ c \in Nat /\ a <= b + 1 /\ a \in Nat
      BY <2>3, <2>4 DEF a, b, c
    <3> QED BY <3>1
  <2> QED BY <2>1, <2>5
<1>6. r # <<>> => r[1].depth >= q[1].depth
  <2> SUFFICES ASSUME r # <<>> PROVE r[1].depth >= q[1].depth
    OBVIOUS
  <2>1. 1 \in 1..Len(r)
    BY <1>1
  <2> QED BY <1>2, <1>3, <1>4, <2>1
<1> QED BY <1>5, <1>6 DEF InOrder

-----------------------------------------------------------------------------
Queued(n) == \E i \in 1..Len(queue) : queue[i].node = n

\* The searches but the impact's, which mark a node when they put it into the queue.
Eager == search \in {"callers", "callees", "path", "depths"}

SearchTypeOK ==
    /\ search \in {"callers", "callees", "path", "impact", "depths"}
    /\ symbols \subseteq Nodes /\ starts \subseteq symbols
    /\ limit \in Nat
    /\ search = "path" => goal \in Nodes
    /\ queue \in Seq(Entries)
    /\ marked \in SUBSET Nodes
    /\ depth \in [Nodes -> Nat]
    /\ search # "impact" => parent \in [Nodes -> Nodes \cup {NoNode}]
    /\ reported \in SUBSET Nodes

\* Marked nodes are the starts and what follows one of them.
StartsAreMarked ==
    /\ starts \subseteq marked
    /\ \A n \in starts : depth[n] = 0
    /\ \A n \in Nodes \ marked : depth[n] = 0

Follows(n, m) == m \in marked /\ Passable(m) /\ n \in Next_(m) /\ depth[n] = depth[m] + 1

Supported == \A n \in marked \ starts : \E m \in marked : Follows(n, m)

\* What is marked lies no deeper than the limit, and no deeper than what the next turn finds.
Shallow ==
    /\ search # "depths" => \A n \in marked : depth[n] <= limit
    /\ queue # <<>> =>
          \A n \in marked : depth[n] <= queue[1].depth + IF search = "impact" THEN 0 ELSE 1

\* The neighbours of a node are marked, one deeper than it at most.
Closed(m) == \A n \in Next_(m) : n \in marked /\ depth[n] <= depth[m] + 1
Extends(m) == search = "depths" \/ depth[m] < limit

\* An eager search has in its queue what it has marked and not extended.
EagerQueue ==
    Eager =>
        /\ \A i \in 1..Len(queue) : /\ queue[i].node \in marked
                                    /\ queue[i].depth = depth[queue[i].node]
        /\ \A m \in marked : \/ Queued(m)
                             \/ Extends(m) => Closed(m)
                             \/ search = "path" /\ goal \in reported /\ depth[goal] <= depth[m]
        /\ \A n \in marked \ starts : Follows(n, parent[n])

\* What is reported was taken from the queue.
ReachAnswer ==
    search \in {"callers", "callees"} =>
        /\ \A i, j \in 1..Len(queue) : queue[i].node = queue[j].node => i = j
        /\ \A n \in Nodes :
              n \in reported <=> n \in marked /\ n \in symbols /\ depth[n] > 0 /\ ~Queued(n)

PathAnswer ==
    search = "path" =>
        /\ reported \subseteq {goal}
        /\ goal \in reported => queue = <<>> /\ goal \in marked
        /\ goal \in marked => goal \in reported \/ Queued(goal)

\* An impact has in its queue what follows the marked symbols and may be marked already.
FromMarked(i) ==
    \E m \in marked : /\ Passable(m) /\ queue[i].node \in Next_(m)
                      /\ queue[i].depth = depth[m] + 1

Waiting(n, d) == \E i \in 1..Len(queue) : queue[i].node = n /\ queue[i].depth = d

Considered(m, n) == (n \in marked /\ depth[n] <= depth[m] + 1) \/ Waiting(n, depth[m] + 1)

ImpactQueue ==
    search = "impact" =>
        /\ \A i \in 1..Len(queue) : FromMarked(i)
        /\ \A m \in marked :
              Passable(m) /\ depth[m] < limit => \A n \in Next_(m) : Considered(m, n)
        /\ reported = (marked \ starts) \cap symbols

SearchInv ==
    /\ SearchTypeOK /\ StartsAreMarked /\ Supported /\ Shallow /\ InOrder(queue)
    /\ EagerQueue /\ ReachAnswer /\ PathAnswer /\ ImpactQueue

-----------------------------------------------------------------------------
LEMMA SameQuestion ==
  ASSUME UNCHANGED question
  PROVE  /\ \A n \in Nodes : Next_(n)' = Next_(n)
         /\ \A n \in Nodes : Passable(n)' <=> Passable(n)
         /\ Eager' <=> Eager
BY DEF question, Next_, Passable, Eager

LEMMA NextAreNodes == \A n \in Nodes : Next_(n) \subseteq Nodes
BY DEF Next_

\* A turn of an eager search: n leaves the queue, its neighbours are marked if the limit
\* allows it, and they enter the queue, with others as deep as they are.
Grow(n, new, more) ==
    /\ Eager /\ queue # <<>> /\ n = queue[1].node
    /\ new = (IF Extends(n) THEN Next_(n) \ marked ELSE {})
    /\ more \in SUBSET Nodes /\ new \subseteq more
    /\ \A m \in more : m \in marked' /\ depth'[m] = depth[n] + 1
    /\ Mark(n, new, depth[n] + 1)
    /\ queue' = Tail(queue) \o AtDepth(more, depth[n] + 1)
    /\ UNCHANGED question

Grown(n, new, more) ==
    /\ n \in marked /\ n \in Nodes /\ new \in SUBSET Nodes /\ new \cap marked = {}
    /\ new \subseteq Next_(n)
    /\ depth[n] \in Nat /\ queue[1].depth = depth[n]
    /\ PlacesFor(AtDepth(more, depth[n] + 1), more, depth[n] + 1)
    /\ \A m \in marked : depth'[m] = depth[m]
    /\ \A m \in new : depth'[m] = depth[n] + 1 /\ parent'[m] = n
    /\ \A m \in Nodes \ new : depth'[m] = depth[m] /\ parent'[m] = parent[m]
    /\ marked' = marked \cup new
    /\ depth' \in [Nodes -> Nat]

LEMMA GrowFacts ==
  ASSUME IsFiniteSet(Nodes), SearchInv, NEW n, NEW new, NEW more, Grow(n, new, more)
  PROVE  Grown(n, new, more)
<1>1. queue \in Seq(Entries) /\ queue # <<>> /\ marked \in SUBSET Nodes /\ depth \in [Nodes -> Nat]
  BY DEF SearchInv, SearchTypeOK, Grow
<1>2. 1 \in 1..Len(queue)
  BY <1>1
<1>3. n \in marked /\ queue[1].depth = depth[n]
  BY <1>2 DEF SearchInv, EagerQueue, Grow
<1>4. n \in Nodes /\ depth[n] \in Nat /\ depth[n] + 1 \in Nat
  BY <1>1, <1>3
<1>5. more \in SUBSET Nodes /\ IsFiniteSet(more)
  <2>1. more \in SUBSET Nodes
    BY DEF Grow
  <2> QED BY <2>1, FS_Subset
<1>6. new \in SUBSET Nodes /\ new \cap marked = {} /\ new \subseteq Next_(n)
  BY <1>4, NextAreNodes DEF Grow
<1>7. PlacesFor(AtDepth(more, depth[n] + 1), more, depth[n] + 1)
  BY <1>4, <1>5, PlacesOf
<1>8. /\ marked' = marked \cup new
      /\ depth' = [m \in Nodes |-> IF m \in new THEN depth[n] + 1 ELSE depth[m]]
      /\ parent' = [m \in Nodes |-> IF m \in new THEN n ELSE parent[m]]
  BY DEF Grow, Mark
<1>9. /\ \A m \in new : depth'[m] = depth[n] + 1 /\ parent'[m] = n
      /\ \A m \in Nodes \ new : depth'[m] = depth[m] /\ parent'[m] = parent[m]
  BY <1>6, <1>8
<1>10. \A m \in marked : depth'[m] = depth[m]
  BY <1>1, <1>6, <1>9
<1>11. depth' \in [Nodes -> Nat]
  BY <1>1, <1>4, <1>8
<1> QED BY <1>3, <1>4, <1>6, <1>7, <1>8, <1>9, <1>10, <1>11 DEF Grown

GrownQueue(n, new, more) ==
    /\ queue' \in Seq(Entries)
    /\ InOrder(queue)'
    /\ queue' # <<>> => queue'[1].depth >= depth[n]
    /\ \A i \in 1..Len(queue') :
          \/ \E j \in 2..Len(queue) : queue'[i] = queue[j]
          \/ queue'[i].node \in more /\ queue'[i].depth = depth[n] + 1
    /\ \A m \in Nodes : Queued(m) => Queued(m)' \/ m = n
    /\ \A m \in more : Queued(m)'

LEMMA GrowQueue ==
  ASSUME IsFiniteSet(Nodes), SearchInv, NEW n, NEW new, NEW more, Grow(n, new, more)
  PROVE  GrownQueue(n, new, more)
<1> DEFINE p == AtDepth(more, depth[n] + 1)
<1>1. Grown(n, new, more)
  BY GrowFacts
<1>2. /\ PlacesFor(p, more, depth[n] + 1)
      /\ queue[1].depth = depth[n] /\ depth[n] \in Nat
  BY <1>1 DEF Grown
<1>3. queue \in Seq(Entries) /\ queue # <<>> /\ queue' = Tail(queue) \o p /\ InOrder(queue)
      /\ n = queue[1].node
  BY DEF SearchInv, SearchTypeOK, Grow
<1> HIDE DEF p
<1>4. p \in Seq(Entries) /\ \A i \in 1..Len(p) : p[i].node \in more /\ p[i].depth = depth[n] + 1
  BY <1>2 DEF PlacesFor
<1>10. MadeOf(queue', queue, p)
  BY <1>3, <1>4, ShiftedEntries
<1>5. InOrder(queue') /\ (queue' # <<>> => queue'[1].depth >= queue[1].depth)
  <2>1. \A i \in 1..Len(p) : p[i].depth = queue[1].depth + 1
    BY <1>2, <1>4
  <2> QED BY <1>3, <1>4, <2>1, StaysInOrder
<1>6. \A i \in 1..Len(queue') :
               \/ \E j \in 2..Len(queue) : queue'[i] = queue[j]
               \/ queue'[i].node \in more /\ queue'[i].depth = depth[n] + 1
  <2> TAKE i \in 1..Len(queue')
  <2>1. (\E j \in 2..Len(queue) : queue'[i] = queue[j]) \/ \E j \in 1..Len(p) : queue'[i] = p[j]
    BY <1>10 DEF MadeOf
  <2>2. ASSUME NEW j \in 1..Len(p), queue'[i] = p[j]
        PROVE  queue'[i].node \in more /\ queue'[i].depth = depth[n] + 1
    BY <1>4, <2>2
  <2> QED BY <2>1, <2>2
<1>7. ASSUME NEW m \in Nodes, Queued(m) PROVE Queued(m)' \/ m = n
  <2>1. PICK j \in 1..Len(queue) : queue[j].node = m
    BY <1>7 DEF Queued
  <2>2. CASE j = 1
    BY <1>3, <2>1, <2>2
  <2>3. CASE j # 1
    <3>1. j \in 2..Len(queue)
      BY <1>3, <2>1, <2>3
    <3>2. \E i \in 1..Len(queue') : queue'[i] = queue[j]
      BY <1>10, <3>1 DEF MadeOf
    <3> QED BY <2>1, <3>2 DEF Queued
  <2> QED BY <2>2, <2>3
<1>8. ASSUME NEW m \in more PROVE Queued(m)'
  <2>1. PICK j \in 1..Len(p) : p[j].node = m
    BY <1>2 DEF PlacesFor
  <2>2. \E i \in 1..Len(queue') : queue'[i] = p[j]
    BY <1>10, <2>1 DEF MadeOf
  <2> QED BY <2>1, <2>2 DEF Queued
<1>9. InOrder(queue)'
  BY <1>5 DEF InOrder
<1>11. queue' \in Seq(Entries)
  BY <1>10 DEF MadeOf
<1> QED BY <1>2, <1>5, <1>6, <1>7, <1>8, <1>9, <1>11 DEF GrownQueue

LEMMA GrowMarks ==
  ASSUME IsFiniteSet(Nodes), SearchInv, NEW n, NEW new, NEW more, Grow(n, new, more)
  PROVE  StartsAreMarked' /\ Supported'
<1>1. Grown(n, new, more)
  BY GrowFacts
<1>2. /\ n \in marked /\ n \in Nodes /\ new \in SUBSET Nodes /\ new \subseteq Next_(n)
      /\ \A m \in marked : depth'[m] = depth[m]
      /\ \A m \in new : depth'[m] = depth[n] + 1
      /\ \A m \in Nodes \ new : depth'[m] = depth[m]
      /\ marked' = marked \cup new
  BY <1>1 DEF Grown
<1>3. /\ UNCHANGED question /\ starts' = starts
      /\ Eager
  BY DEF Grow, question
<1>4. /\ \A m \in Nodes : Next_(m)' = Next_(m)
      /\ \A m \in Nodes : Passable(m)' <=> Passable(m)
  BY <1>3, SameQuestion
<1>5. StartsAreMarked /\ Supported /\ marked \in SUBSET Nodes
  BY DEF SearchInv, SearchTypeOK
<1>6. StartsAreMarked'
  BY <1>2, <1>3, <1>5 DEF StartsAreMarked
<1>7. ASSUME NEW m \in marked' \ starts' PROVE \E k \in marked' : Follows(m, k)'
  <2>1. CASE m \in new
    <3>1. Passable(n)
      BY <1>3 DEF Passable, Eager
    <3>2. Follows(m, n)'
      BY <1>2, <1>4, <2>1, <3>1 DEF Follows
    <3> QED BY <1>2, <3>2
  <2>2. CASE m \notin new
    <3>1. m \in marked \ starts
      BY <1>2, <1>3, <2>2
    <3>2. PICK k \in marked : Follows(m, k)
      BY <1>5, <3>1 DEF Supported
    <3>3. Follows(m, k)'
      BY <1>2, <1>4, <1>5, <3>1, <3>2 DEF Follows
    <3> QED BY <1>2, <3>3
  <2> QED BY <2>1, <2>2
<1> QED BY <1>6, <1>7 DEF Supported

LEMMA GrowShallow ==
  ASSUME IsFiniteSet(Nodes), SearchInv, NEW n, NEW new, NEW more, Grow(n, new, more)
  PROVE  Shallow'
<1>1. Grown(n, new, more) /\ GrownQueue(n, new, more)
  BY GrowFacts, GrowQueue
<1>2. /\ n \in marked /\ n \in Nodes /\ new \in SUBSET Nodes
      /\ \A m \in marked : depth'[m] = depth[m]
      /\ \A m \in new : depth'[m] = depth[n] + 1
      /\ marked' = marked \cup new
      /\ depth[n] \in Nat /\ queue[1].depth = depth[n]
  BY <1>1 DEF Grown
<1>3. /\ queue' # <<>> => queue'[1].depth >= depth[n]
      /\ queue' \in Seq(Entries)
  BY <1>1 DEF GrownQueue
<1>4. /\ search' = search /\ limit' = limit /\ search # "impact" /\ queue # <<>>
      /\ new # {} => Extends(n)
  BY DEF Grow, question, Eager
<1>5. Shallow /\ depth \in [Nodes -> Nat] /\ marked \in SUBSET Nodes /\ limit \in Nat
  BY DEF SearchInv, SearchTypeOK
<1>6. ASSUME search # "depths", NEW m \in marked' PROVE depth'[m] <= limit
  <2>1. CASE m \in new
    <3>1. depth[n] < limit
      BY <1>4, <1>6, <2>1 DEF Extends
    <3> QED BY <1>2, <1>5, <2>1, <3>1
  <2>2. CASE m \in marked
    BY <1>2, <1>5, <1>6, <2>2 DEF Shallow
  <2> QED BY <1>2, <2>1, <2>2
<1>7. ASSUME NEW m \in marked' PROVE depth'[m] \in Nat /\ depth'[m] <= depth[n] + 1
  <2>1. CASE m \in new
    BY <1>2, <2>1
  <2>2. CASE m \in marked
    BY <1>2, <1>4, <1>5, <2>2 DEF Shallow
  <2> QED BY <1>2, <2>1, <2>2
<1>8. ASSUME queue' # <<>>, NEW m \in marked' PROVE depth'[m] <= queue'[1].depth + 1
  <2>1. queue'[1].depth \in Nat
    <3>1. 1 \in 1..Len(queue')
      BY <1>3, <1>8
    <3>2. queue'[1] \in Entries
      BY <1>3, <3>1
    <3> QED BY <3>2 DEF Entries
  <2> DEFINE a == queue'[1].depth
             b == depth'[m]
             c == depth[n]
  <2>2. a \in Nat /\ b \in Nat /\ c \in Nat /\ a >= c /\ b <= c + 1
    BY <1>2, <1>3, <1>7, <1>8, <2>1
  <2>3. b <= a + 1
    <3> HIDE DEF a, b, c
    <3> QED BY <2>2
  <2> QED BY <2>3
<1> QED BY <1>4, <1>6, <1>8 DEF Shallow

LEMMA GrowEager ==
  ASSUME IsFiniteSet(Nodes), SearchInv, NEW n, NEW new, NEW more, Grow(n, new, more),
         search = "path" => goal \notin reported
  PROVE  EagerQueue'
<1>1. Grown(n, new, more) /\ GrownQueue(n, new, more)
  BY GrowFacts, GrowQueue
<1>2. /\ n \in marked /\ n \in Nodes /\ new \in SUBSET Nodes /\ new \subseteq Next_(n)
      /\ \A m \in marked : depth'[m] = depth[m]
      /\ \A m \in new : depth'[m] = depth[n] + 1 /\ parent'[m] = n
      /\ \A m \in Nodes \ new : depth'[m] = depth[m] /\ parent'[m] = parent[m]
      /\ marked' = marked \cup new /\ new \cap marked = {}
      /\ depth[n] \in Nat /\ queue[1].depth = depth[n]
  BY <1>1 DEF Grown
<1>3. /\ \A i \in 1..Len(queue') :
            \/ \E j \in 2..Len(queue) : queue'[i] = queue[j]
            \/ queue'[i].node \in more /\ queue'[i].depth = depth[n] + 1
      /\ \A m \in Nodes : Queued(m) => Queued(m)' \/ m = n
      /\ \A m \in more : Queued(m)'
  BY <1>1 DEF GrownQueue
<1>4. /\ search' = search /\ limit' = limit /\ starts' = starts /\ queue # <<>> /\ Eager
      /\ \A m \in more : m \in marked' /\ depth'[m] = depth[n] + 1
      /\ new \subseteq more
      /\ new = (IF Extends(n) THEN Next_(n) \ marked ELSE {})
      /\ UNCHANGED question
  BY DEF Grow, question
<1>5. /\ \A m \in Nodes : Next_(m)' = Next_(m)
      /\ \A m \in Nodes : Passable(m)' <=> Passable(m)
  BY <1>4, SameQuestion
<1>6. /\ Shallow /\ EagerQueue /\ depth \in [Nodes -> Nat] /\ marked \in SUBSET Nodes
      /\ queue \in Seq(Entries)
  BY DEF SearchInv, SearchTypeOK
<1>7. ASSUME NEW i \in 1..Len(queue')
      PROVE  queue'[i].node \in marked' /\ queue'[i].depth = depth'[queue'[i].node]
  <2>1. CASE queue'[i].node \in more /\ queue'[i].depth = depth[n] + 1
    BY <1>4, <2>1
  <2>2. ASSUME NEW j \in 2..Len(queue), queue'[i] = queue[j]
        PROVE  queue'[i].node \in marked' /\ queue'[i].depth = depth'[queue'[i].node]
    <3>1. j \in 1..Len(queue)
      BY <1>6
    <3>2. queue[j].node \in marked /\ queue[j].depth = depth[queue[j].node]
      BY <1>4, <1>6, <3>1 DEF EagerQueue
    <3> QED BY <1>2, <2>2, <3>2
  <2> QED BY <1>3, <2>1, <2>2
<1>8. ASSUME NEW m \in marked', ~Queued(m)', Extends(m)' PROVE Closed(m)'
  <2>1. m \notin new
    BY <1>3, <1>4, <1>8
  <2>2. m \in marked /\ m \in Nodes
    BY <1>2, <1>6, <2>1
  <2>3. Extends(m)
    BY <1>2, <1>4, <1>8, <2>2 DEF Extends
  <2>4. CASE m = n
    <3> SUFFICES ASSUME NEW k \in Next_(n) PROVE k \in marked' /\ depth'[k] <= depth[n] + 1
      BY <1>2, <1>5, <2>4 DEF Closed
    <3>1. k \in new \/ k \in marked
      BY <1>4, <2>3, <2>4
    <3>2. CASE k \in new
      BY <1>2, <3>2
    <3>3. CASE k \in marked
      <4>1. depth[k] <= queue[1].depth + 1
        BY <1>4, <1>6, <3>3 DEF Shallow, Eager
      <4> QED BY <1>2, <3>3, <4>1
    <3> QED BY <3>1, <3>2, <3>3
  <2>5. CASE m # n
    <3>1. ~Queued(m)
      BY <1>3, <1>8, <2>2, <2>5
    <3>2. Closed(m)
      BY <1>4, <1>6, <2>2, <2>3, <3>1 DEF EagerQueue
    <3> QED BY <1>2, <1>5, <2>2, <3>2 DEF Closed
  <2> QED BY <2>4, <2>5
<1>9. ASSUME NEW m \in marked' \ starts' PROVE Follows(m, parent[m])'
  <2>1. CASE m \in new
    <3>1. Passable(n)
      BY <1>4 DEF Passable, Eager
    <3> QED BY <1>2, <1>5, <2>1, <3>1 DEF Follows
  <2>2. CASE m \notin new
    <3>1. m \in marked \ starts /\ m \in Nodes
      BY <1>2, <1>4, <1>6, <2>2
    <3>2. Follows(m, parent[m])
      BY <1>4, <1>6, <3>1 DEF EagerQueue
    <3>3. parent'[m] = parent[m] /\ parent[m] \in marked /\ parent[m] \in Nodes
      BY <1>2, <1>6, <2>2, <3>1, <3>2 DEF Follows
    <3> QED BY <1>2, <1>5, <3>1, <3>2, <3>3 DEF Follows
  <2> QED BY <2>1, <2>2
<1> QED BY <1>7, <1>8, <1>9 DEF EagerQueue

\* What a node brings to the queue when it is extended.
New(n) == IF Extends(n) THEN Next_(n) \ marked ELSE {}

LEMMA PoppedIsMarked ==
  ASSUME SearchInv, Eager, Turn
  PROVE  /\ Popped = queue[1] /\ Popped.node \in marked /\ Popped.node \in Nodes
         /\ Popped.depth = depth[Popped.node] /\ depth[Popped.node] \in Nat
<1>1. queue \in Seq(Entries) /\ queue # <<>> /\ marked \in SUBSET Nodes /\ depth \in [Nodes -> Nat]
  BY DEF SearchInv, SearchTypeOK, Turn
<1>2. 1 \in 1..Len(queue) /\ Popped = queue[1]
  BY <1>1 DEF Popped
<1>3. queue[1].node \in marked /\ queue[1].depth = depth[queue[1].node]
  BY <1>2 DEF SearchInv, EagerQueue
<1> QED BY <1>1, <1>2, <1>3

LEMMA NewIsMarked ==
  ASSUME SearchInv, NEW n \in Nodes, Mark(n, New(n), depth[n] + 1)
  PROVE  \A m \in New(n) : m \in marked' /\ depth'[m] = depth[n] + 1
<1>1. New(n) \subseteq Nodes
  BY NextAreNodes DEF New
<1>2. /\ marked' = marked \cup New(n)
      /\ depth' = [m \in Nodes |-> IF m \in New(n) THEN depth[n] + 1 ELSE depth[m]]
  BY DEF Mark
<1> QED BY <1>1, <1>2

LEMMA ReachGrows ==
  ASSUME SearchInv, Reach
  PROVE  Grow(Popped.node, New(Popped.node), New(Popped.node))
<1> DEFINE n == Popped.node
<1>1. Eager /\ Turn /\ search # "depths"
  BY DEF Reach, Eager
<1>2. /\ Popped = queue[1] /\ n \in Nodes /\ Popped.depth = depth[n]
  BY <1>1, PoppedIsMarked
<1>3. New(n) = IF Popped.depth < limit THEN Next_(n) \ marked ELSE {}
  BY <1>1, <1>2 DEF New, Extends
<1>4. /\ Mark(n, New(n), depth[n] + 1)
      /\ queue' = Tail(queue) \o AtDepth(New(n), depth[n] + 1)
      /\ UNCHANGED question
  BY <1>2, <1>3 DEF Reach
<1>5. \A m \in New(n) : m \in marked' /\ depth'[m] = depth[n] + 1
  BY <1>2, <1>4, NewIsMarked
<1>6. New(n) \in SUBSET Nodes
  BY <1>2, NextAreNodes DEF New
<1> QED BY <1>1, <1>2, <1>4, <1>5, <1>6 DEF Grow, Turn, New

LEMMA FindPathGrows ==
  ASSUME SearchInv, FindPath, Popped.node # goal
  PROVE  Grow(Popped.node, New(Popped.node), New(Popped.node))
<1> DEFINE n == Popped.node
<1>1. Eager /\ Turn /\ search # "depths"
  BY DEF FindPath, Eager
<1>2. /\ Popped = queue[1] /\ n \in Nodes /\ Popped.depth = depth[n]
  BY <1>1, PoppedIsMarked
<1>3. New(n) = IF Popped.depth < limit THEN Next_(n) \ marked ELSE {}
  BY <1>1, <1>2 DEF New, Extends
<1>4. /\ Mark(n, New(n), depth[n] + 1)
      /\ queue' = Tail(queue) \o AtDepth(New(n), depth[n] + 1)
      /\ UNCHANGED question
  BY <1>2, <1>3 DEF FindPath
<1>5. \A m \in New(n) : m \in marked' /\ depth'[m] = depth[n] + 1
  BY <1>2, <1>4, NewIsMarked
<1>6. New(n) \in SUBSET Nodes
  BY <1>2, NextAreNodes DEF New
<1> QED BY <1>1, <1>2, <1>4, <1>5, <1>6 DEF Grow, Turn, New

\* A symbol is queued again for every caller one level above it: the nodes that are queued.
Below(n) == {m \in Next_(n) : depth'[m] = depth[n] + 1}

LEMMA DescendGrows ==
  ASSUME SearchInv, Descend
  PROVE  Grow(Popped.node, New(Popped.node), Below(Popped.node))
<1> DEFINE n == Popped.node
<1>1. Eager /\ Turn /\ search = "depths"
  BY DEF Descend, Eager
<1>2. /\ Popped = queue[1] /\ n \in Nodes /\ Popped.depth = depth[n] /\ depth[n] \in Nat
  BY <1>1, PoppedIsMarked
<1>3. New(n) = Next_(n) \ marked
  BY <1>1 DEF New, Extends
<1>4. /\ Mark(n, New(n), depth[n] + 1)
      /\ queue' = Tail(queue) \o AtDepth(Below(n), depth[n] + 1)
      /\ UNCHANGED question
  BY <1>3 DEF Descend, Below
<1>5. \A m \in New(n) : m \in marked' /\ depth'[m] = depth[n] + 1
  BY <1>2, <1>4, NewIsMarked
<1>6. New(n) \subseteq Next_(n) /\ Next_(n) \subseteq Nodes
  BY <1>2, NextAreNodes DEF New
<1>7. New(n) \subseteq Below(n) /\ Below(n) \in SUBSET Nodes
  BY <1>5, <1>6 DEF Below
<1>8. ASSUME NEW m \in Below(n) PROVE m \in marked' /\ depth'[m] = depth[n] + 1
  <2>1. depth'[m] = depth[n] + 1 /\ m \in Next_(n)
    BY DEF Below
  <2>2. m \in marked \/ m \in New(n)
    BY <1>3, <2>1
  <2>3. marked' = marked \cup New(n)
    BY <1>4 DEF Mark
  <2> QED BY <2>1, <2>2, <2>3
<1> QED BY <1>1, <1>2, <1>4, <1>7, <1>8 DEF Grow, Turn, New

LEMMA GrowTypes ==
  ASSUME IsFiniteSet(Nodes), SearchInv, NEW n, NEW new, NEW more, Grow(n, new, more),
         reported' \in SUBSET Nodes
  PROVE  SearchTypeOK'
<1>1. Grown(n, new, more) /\ GrownQueue(n, new, more)
  BY GrowFacts, GrowQueue
<1>2. /\ n \in Nodes /\ new \in SUBSET Nodes /\ marked' = marked \cup new
      /\ depth' \in [Nodes -> Nat]
  BY <1>1 DEF Grown
<1>3. queue' \in Seq(Entries)
  BY <1>1 DEF GrownQueue
<1>4. UNCHANGED question /\ search # "impact"
      /\ parent' = [m \in Nodes |-> IF m \in new THEN n ELSE parent[m]]
  BY DEF Grow, Mark, Eager
<1>5. SearchTypeOK
  BY DEF SearchInv
<1>6. parent' \in [Nodes -> Nodes \cup {NoNode}]
  BY <1>2, <1>4, <1>5 DEF SearchTypeOK
<1> QED BY <1>2, <1>3, <1>4, <1>5, <1>6 DEF SearchTypeOK, question

\* The entry for a node that is queued once is gone when it is taken.
LEMMA OnceQueued ==
  ASSUME IsFiniteSet(Nodes), SearchInv, search \in {"callers", "callees"},
         NEW n, NEW new, Grow(n, new, new)
  PROVE  /\ \A i, j \in 1..Len(queue') : queue'[i].node = queue'[j].node => i = j
         /\ ~Queued(n)'
         /\ \A m \in Nodes : Queued(m)' => Queued(m) \/ m \in new
<1> DEFINE p == AtDepth(new, depth[n] + 1)
           k == Len(queue) - 1
<1>1. Grown(n, new, new)
  BY GrowFacts
<1>2. /\ n \in marked /\ n \in Nodes /\ new \in SUBSET Nodes /\ new \cap marked = {}
      /\ PlacesFor(p, new, depth[n] + 1)
  BY <1>1 DEF Grown
<1>3. /\ p \in Seq(Entries)
      /\ \A i \in 1..Len(p) : p[i].node \in new
      /\ \A i, j \in 1..Len(p) : p[i].node = p[j].node => i = j
  BY <1>2 DEF PlacesFor
<1>4. queue \in Seq(Entries) /\ queue # <<>> /\ queue' = Tail(queue) \o p /\ n = queue[1].node
  BY DEF SearchInv, SearchTypeOK, Grow
<1>5. /\ \A i, j \in 1..Len(queue) : queue[i].node = queue[j].node => i = j
      /\ \A i \in 1..Len(queue) : queue[i].node \in marked
  BY DEF SearchInv, ReachAnswer, EagerQueue, Eager
<1> HIDE DEF p
<1>6. /\ queue' \in Seq(Entries) /\ Len(queue') = k + Len(p)
      /\ \A i \in 1..k : queue'[i] = queue[i + 1]
      /\ \A i \in 1..Len(p) : queue'[k + i] = p[i]
  BY <1>3, <1>4, Shifted
<1>7. Len(queue) \in Nat /\ Len(queue) > 0 /\ Len(p) \in Nat
  BY <1>3, <1>4
<1>8. ASSUME NEW i \in 1..Len(queue')
      PROVE  \/ /\ i <= k /\ queue'[i].node = queue[i + 1].node /\ i + 1 \in 1..Len(queue)
                /\ queue'[i].node \in marked
             \/ /\ i > k /\ queue'[i].node = p[i - k].node /\ i - k \in 1..Len(p)
                /\ queue'[i].node \in new
  <2>1. CASE i <= k
    <3>1. i \in 1..k /\ i + 1 \in 1..Len(queue)
      BY <1>7, <2>1
    <3> QED BY <1>5, <1>6, <2>1, <3>1
  <2>2. CASE i > k
    <3>1. i - k \in 1..Len(p) /\ k + (i - k) = i
      BY <1>6, <1>7, <2>2
    <3>2. queue'[i] = p[i - k]
      BY <1>6, <3>1
    <3> QED BY <1>3, <2>2, <3>1, <3>2
  <2> QED BY <1>6, <1>7, <2>1, <2>2
<1>9. ASSUME NEW i \in 1..Len(queue'), NEW j \in 1..Len(queue'),
             queue'[i].node = queue'[j].node
      PROVE  i = j
  <2>1. CASE i <= k /\ j <= k
    <3>1. queue[i + 1].node = queue[j + 1].node /\ i + 1 \in 1..Len(queue) /\ j + 1 \in 1..Len(queue)
      BY <1>8, <1>9, <2>1
    <3>2. i + 1 = j + 1
      BY <1>5, <3>1
    <3> QED BY <3>2
  <2>2. CASE i > k /\ j > k
    <3>1. p[i - k].node = p[j - k].node /\ i - k \in 1..Len(p) /\ j - k \in 1..Len(p)
      BY <1>8, <1>9, <2>2
    <3>2. i - k = j - k
      BY <1>3, <3>1
    <3> QED BY <1>7, <3>2
  <2>3. CASE (i <= k /\ j > k) \/ (i > k /\ j <= k)
    BY <1>2, <1>8, <1>9, <2>3
  <2> QED BY <1>6, <1>7, <2>1, <2>2, <2>3
<1>10. ASSUME NEW i \in 1..Len(queue'), queue'[i].node = n PROVE FALSE
  <2>1. i <= k /\ queue[i + 1].node = n /\ i + 1 \in 1..Len(queue)
    BY <1>2, <1>8, <1>10
  <2>2. i + 1 = 1
    BY <1>4, <1>5, <1>7, <2>1
  <2> QED BY <2>2
<1>11. ASSUME NEW m \in Nodes, Queued(m)' PROVE Queued(m) \/ m \in new
  <2>1. PICK i \in 1..Len(queue') : queue'[i].node = m
    BY <1>11 DEF Queued
  <2> QED BY <1>8, <2>1 DEF Queued
<1> QED BY <1>9, <1>10, <1>11 DEF Queued

-----------------------------------------------------------------------------
\* One turn of get_callers or get_callees.
LEMMA ReachStep ==
  ASSUME IsFiniteSet(Nodes), SearchInv, Reach
  PROVE  SearchInv'
<1>n. PICK n : n = Popped.node
  OBVIOUS
<1>new. PICK new : new = New(n)
  OBVIOUS
<1>1. Grow(n, new, new)
  BY <1>n, <1>new, ReachGrows
<1>2. search \in {"callers", "callees"} /\ search' = search /\ symbols' = symbols /\ Turn
  BY DEF Reach, question
<1>3. n \in marked /\ n \in Nodes /\ Popped.depth = depth[n] /\ depth[n] \in Nat /\ Popped = queue[1]
  BY <1>n, <1>2, PoppedIsMarked DEF Eager
<1>4. reported' = reported \cup (IF depth[n] > 0 /\ depth[n] <= limit /\ n \in symbols THEN {n} ELSE {})
  BY <1>n, <1>3 DEF Reach
<1>5. /\ SearchTypeOK /\ ReachAnswer /\ Shallow
  BY DEF SearchInv
<1>6. depth[n] <= limit
  BY <1>2, <1>3, <1>5 DEF Shallow
<1>7. reported' \in SUBSET Nodes
  BY <1>3, <1>4, <1>5 DEF SearchTypeOK
<1>8. SearchTypeOK'
  BY <1>1, <1>7, GrowTypes
<1>9. StartsAreMarked' /\ Supported' /\ Shallow' /\ EagerQueue' /\ InOrder(queue)'
  <2>1. GrownQueue(n, new, new)
    BY <1>1, GrowQueue
  <2>2. InOrder(queue)'
    BY <2>1 DEF GrownQueue
  <2>3. search # "path"
    BY <1>2
  <2>4. EagerQueue'
    BY <1>1, <2>3, GrowEager
  <2>5. StartsAreMarked' /\ Supported'
    BY <1>1, GrowMarks
  <2>6. Shallow'
    BY <1>1, GrowShallow
  <2> QED BY <2>2, <2>4, <2>5, <2>6
<1>10. PathAnswer' /\ ImpactQueue'
  BY <1>2 DEF PathAnswer, ImpactQueue
<1>11. /\ \A i, j \in 1..Len(queue') : queue'[i].node = queue'[j].node => i = j
       /\ ~Queued(n)'
       /\ \A m \in Nodes : Queued(m)' => Queued(m) \/ m \in new
  BY <1>1, <1>2, OnceQueued
<1>12. /\ \A m \in marked : depth'[m] = depth[m]
       /\ marked' = marked \cup new /\ new \cap marked = {} /\ new \in SUBSET Nodes
  <2>1. Grown(n, new, new)
    BY <1>1, GrowFacts
  <2> QED BY <2>1 DEF Grown
<1>13. /\ \A m \in Nodes : Queued(m) => Queued(m)' \/ m = n
       /\ \A m \in new : Queued(m)'
  <2>1. GrownQueue(n, new, new)
    BY <1>1, GrowQueue
  <2> QED BY <2>1 DEF GrownQueue
<1>14. Queued(n)
  <2>1. queue \in Seq(Entries) /\ queue # <<>>
    BY <1>2, <1>5 DEF SearchTypeOK, Turn
  <2>2. 1 \in 1..Len(queue) /\ queue[1].node = n
    BY <1>n, <1>3, <2>1
  <2> QED BY <2>2 DEF Queued
<1>15. ASSUME NEW m \in Nodes
       PROVE  m \in reported' <=> m \in marked' /\ m \in symbols /\ depth'[m] > 0 /\ ~Queued(m)'
  <2>1. m \in reported <=> m \in marked /\ m \in symbols /\ depth[m] > 0 /\ ~Queued(m)
    BY <1>2, <1>5 DEF ReachAnswer
  <2>2. CASE m = n
    <3>1. m \in reported' <=> m \in symbols /\ depth[m] > 0
      BY <1>4, <1>6, <1>14, <2>1, <2>2
    <3>2. depth'[m] = depth[m] /\ m \in marked' /\ m \in marked
      BY <1>3, <1>12, <2>2
    <3> QED BY <1>11, <2>2, <3>1, <3>2
  <2>3. CASE m \in new
    <3>1. m \notin marked /\ m # n
      BY <1>3, <1>12, <2>3
    <3>2. m \notin reported'
      BY <1>4, <2>1, <3>1
    <3> QED BY <1>13, <2>3, <3>2
  <2>4. CASE m # n /\ m \notin new
    <3>1. m \in reported' <=> m \in reported
      BY <1>4, <2>4
    <3>2. m \in marked' <=> m \in marked
      BY <1>12, <2>4
    <3>3. m \in marked => depth'[m] = depth[m]
      BY <1>12
    <3>4. Queued(m)' <=> Queued(m)
      BY <1>11, <1>13, <2>4
    <3> QED BY <2>1, <3>1, <3>2, <3>3, <3>4
  <2> QED BY <2>2, <2>3, <2>4
<1>16. ReachAnswer'
  BY <1>2, <1>11, <1>15 DEF ReachAnswer
<1> QED BY <1>8, <1>9, <1>10, <1>16 DEF SearchInv

\* One turn of find_path that does not end it.
LEMMA FindPathStep ==
  ASSUME IsFiniteSet(Nodes), SearchInv, FindPath, Popped.node # goal
  PROVE  SearchInv'
<1> DEFINE n == Popped.node
           new == New(n)
<1>1. Grow(n, new, new)
  BY FindPathGrows
<1>2. search = "path" /\ search' = search /\ goal' = goal /\ Turn /\ reported' = reported
  BY DEF FindPath, question
<1>3. n \in Nodes
  BY <1>2, PoppedIsMarked DEF Eager
<1>4. /\ SearchTypeOK /\ PathAnswer
  BY DEF SearchInv
<1>5. goal \notin reported /\ goal \in Nodes /\ reported' \in SUBSET Nodes
  BY <1>2, <1>4 DEF PathAnswer, Turn, SearchTypeOK
<1>6. SearchTypeOK'
  BY <1>1, <1>5, GrowTypes
<1>7. StartsAreMarked' /\ Supported' /\ Shallow' /\ EagerQueue' /\ InOrder(queue)'
  <2>1. GrownQueue(n, new, new)
    BY <1>1, GrowQueue
  <2>2. InOrder(queue)'
    BY <2>1 DEF GrownQueue
  <2>4. EagerQueue'
    BY <1>1, <1>5, GrowEager
  <2>5. StartsAreMarked' /\ Supported'
    BY <1>1, GrowMarks
  <2>6. Shallow'
    BY <1>1, GrowShallow
  <2> QED BY <2>2, <2>4, <2>5, <2>6
<1>8. ReachAnswer' /\ ImpactQueue'
  BY <1>2 DEF ReachAnswer, ImpactQueue
<1>9. PathAnswer'
  <2>1. n # goal
    OBVIOUS
  <2> HIDE DEF n, new
  <2>2. Grown(n, new, new) /\ GrownQueue(n, new, new)
    BY <1>1, GrowFacts, GrowQueue
  <2>3. marked' = marked \cup new
    BY <2>2 DEF Grown
  <2>4. /\ \A m \in Nodes : Queued(m) => Queued(m)' \/ m = n
        /\ \A m \in new : Queued(m)'
    BY <2>2 DEF GrownQueue
  <2>5. goal \in marked' => Queued(goal)'
    BY <1>2, <1>4, <1>5, <2>1, <2>3, <2>4 DEF PathAnswer
  <2>6. Queued(goal)' <=> \E i \in 1..Len(queue') : queue'[i].node = goal'
    BY <1>2 DEF Queued
  <2> QED BY <1>2, <1>4, <1>5, <2>5, <2>6 DEF PathAnswer, Queued
<1> QED BY <1>6, <1>7, <1>8, <1>9 DEF SearchInv

\* The turn of find_path that comes to the goal.
LEMMA FoundStep ==
  ASSUME IsFiniteSet(Nodes), SearchInv, FindPath, Popped.node = goal
  PROVE  SearchInv'
<1>1. /\ search = "path" /\ UNCHANGED question /\ Turn /\ search' = search /\ goal' = goal
      /\ limit' = limit /\ starts' = starts /\ symbols' = symbols
      /\ reported' = {goal} /\ queue' = <<>> /\ UNCHANGED <<marked, depth, parent>>
  BY DEF FindPath, question
<1>2. goal \in marked /\ goal \in Nodes /\ queue[1].depth = depth[goal] /\ Popped = queue[1]
  BY <1>1, PoppedIsMarked DEF Eager
<1>3. /\ \A n \in Nodes : Next_(n)' = Next_(n)
      /\ \A n \in Nodes : Passable(n)' <=> Passable(n)
  BY <1>1, SameQuestion
<1>4. /\ SearchTypeOK /\ StartsAreMarked /\ Supported /\ Shallow /\ InOrder(queue)
      /\ EagerQueue /\ PathAnswer
  BY DEF SearchInv
<1>5. marked \in SUBSET Nodes /\ depth \in [Nodes -> Nat] /\ queue \in Seq(Entries) /\ queue # <<>>
  BY <1>1, <1>4 DEF SearchTypeOK, Turn
<1>6. SearchTypeOK' /\ StartsAreMarked'
  BY <1>1, <1>2, <1>4 DEF SearchTypeOK, StartsAreMarked
<1>7. \A n, m \in marked : Follows(n, m)' <=> Follows(n, m)
  BY <1>1, <1>3, <1>5 DEF Follows
<1>8. Supported'
  BY <1>1, <1>4, <1>7 DEF Supported
<1>9. Shallow' /\ InOrder(queue)'
  BY <1>1, <1>4 DEF Shallow, InOrder
<1>10. ASSUME NEW m \in marked
       PROVE  (Extends(m) => Closed(m))' \/ depth[goal] <= depth[m]
  <2>1. (Extends(m) => Closed(m)) => (Extends(m) => Closed(m))'
    BY <1>1, <1>3, <1>5 DEF Extends, Closed
  <2>2. CASE Queued(m)
    <3>1. PICK i \in 1..Len(queue) : queue[i].node = m
      BY <2>2 DEF Queued
    <3>2. queue[i].depth = depth[m]
      BY <1>1, <1>4, <3>1 DEF EagerQueue, Eager
    <3>3. 1 \in 1..Len(queue) /\ 1 <= i
      BY <1>5
    <3>4. queue[1].depth <= queue[i].depth
      BY <1>4, <3>3 DEF InOrder
    <3> QED BY <1>2, <3>2, <3>4
  <2>3. CASE ~Queued(m)
    <3>1. goal \notin reported
      BY <1>1, <1>4, <1>5 DEF PathAnswer
    <3> QED BY <1>1, <1>4, <2>1, <2>3, <3>1 DEF EagerQueue, Eager
  <2> QED BY <2>2, <2>3
<1>11. \A n \in marked \ starts : Follows(n, parent[n])'
  <2> TAKE n \in marked \ starts
  <2>1. Follows(n, parent[n])
    BY <1>1, <1>4 DEF EagerQueue, Eager
  <2>2. parent[n] \in marked /\ parent[n] \in Nodes /\ parent' = parent /\ n \in Nodes
    BY <1>1, <1>5, <2>1 DEF Follows
  <2> QED BY <1>1, <1>3, <2>1, <2>2 DEF Follows
<1>12. EagerQueue'
  BY <1>1, <1>10, <1>11 DEF EagerQueue
<1>13. PathAnswer' /\ ReachAnswer' /\ ImpactQueue'
  BY <1>1, <1>2 DEF PathAnswer, ReachAnswer, ImpactQueue
<1> QED BY <1>6, <1>8, <1>9, <1>12, <1>13 DEF SearchInv

\* One turn of calculate_depths.
LEMMA DescendStep ==
  ASSUME IsFiniteSet(Nodes), SearchInv, Descend
  PROVE  SearchInv'
<1> DEFINE n == Popped.node
<1>1. Grow(n, New(n), Below(n))
  BY DescendGrows
<1>2. search = "depths" /\ search' = search /\ Turn /\ reported' = reported
  BY DEF Descend, question
<1>3. reported' \in SUBSET Nodes
  BY <1>2 DEF SearchInv, SearchTypeOK
<1>4. SearchTypeOK'
  BY <1>1, <1>3, GrowTypes
<1>5. GrownQueue(n, New(n), Below(n))
  BY <1>1, GrowQueue
<1>6. InOrder(queue)'
  BY <1>5 DEF GrownQueue
<1>7. EagerQueue'
  BY <1>1, <1>2, GrowEager
<1>8. StartsAreMarked' /\ Supported'
  BY <1>1, GrowMarks
<1>9. Shallow'
  BY <1>1, GrowShallow
<1>10. ReachAnswer' /\ PathAnswer' /\ ImpactQueue'
  BY <1>2 DEF ReachAnswer, PathAnswer, ImpactQueue
<1> QED BY <1>4, <1>6, <1>7, <1>8, <1>9, <1>10 DEF SearchInv

\* The entry an impact takes is a neighbour of something that is marked and passes it on.
LEMMA ImpactPopped ==
  ASSUME SearchInv, search = "impact", Turn
  PROVE  /\ queue \in Seq(Entries) /\ queue # <<>> /\ Popped = queue[1] /\ 1 \in 1..Len(queue)
         /\ Popped.node \in Nodes /\ Popped.depth \in Nat /\ Popped = queue[1]
         /\ \E m \in marked : /\ Passable(m) /\ Popped.node \in Next_(m)
                              /\ Popped.depth = depth[m] + 1
         /\ \A m \in marked : depth[m] <= Popped.depth
<1>1. queue \in Seq(Entries) /\ queue # <<>>
  BY DEF SearchInv, SearchTypeOK, Turn
<1>2. 1 \in 1..Len(queue) /\ Popped = queue[1] /\ queue[1] \in Entries
  BY <1>1 DEF Popped
<1>3. queue[1].node \in Nodes /\ queue[1].depth \in Nat
  BY <1>2 DEF Entries
<1>4. \E m \in marked : Passable(m) /\ queue[1].node \in Next_(m) /\ queue[1].depth = depth[m] + 1
  BY <1>2 DEF SearchInv, ImpactQueue, FromMarked
<1>5. \A m \in marked : depth[m] <= queue[1].depth + 0
  BY <1>1 DEF SearchInv, Shallow
<1>6. \A m \in marked : depth[m] <= queue[1].depth
  BY <1>3, <1>5
<1> QED BY <1>1, <1>2, <1>3, <1>4, <1>6

\* What is left in the queue of an impact, with the entries of more behind it.
ShiftedImpact(p, d) ==
    /\ queue' \in Seq(Entries) /\ InOrder(queue)'
    /\ queue' # <<>> => queue'[1].depth >= d
    /\ MadeOf(queue', queue, p)

LEMMA ImpactQueueShifts ==
  ASSUME SearchInv, search = "impact", Turn, NEW d, d = Popped.depth,
         NEW p \in Seq(Entries), \A i \in 1..Len(p) : p[i].depth = d + 1,
         queue' = Tail(queue) \o p
  PROVE  ShiftedImpact(p, d)
<1>1. queue \in Seq(Entries) /\ queue # <<>> /\ d = queue[1].depth
  BY ImpactPopped
<1>2. InOrder(queue)
  BY DEF SearchInv
<1>3. MadeOf(queue', queue, p)
  BY <1>1, ShiftedEntries
<1>4. \A i \in 1..Len(p) : p[i].depth = queue[1].depth + 1
  BY <1>1
<1>5. InOrder(queue') /\ (queue' # <<>> => queue'[1].depth >= queue[1].depth)
  BY <1>1, <1>2, <1>4, StaysInOrder
<1>6. InOrder(queue)'
  BY <1>5 DEF InOrder
<1>7. queue' \in Seq(Entries)
  BY <1>3 DEF MadeOf
<1> QED BY <1>1, <1>3, <1>5, <1>6, <1>7 DEF ShiftedImpact

\* A turn of an impact that finds nothing new.
LEMMA DropStep ==
  ASSUME SearchInv, search = "impact", Turn, Popped.depth > limit \/ Popped.node \in marked,
         queue' = Tail(queue), UNCHANGED <<marked, depth, reported, question, parent>>
  PROVE  SearchInv'
<1>n. PICK n : n = Popped.node
  OBVIOUS
<1>d. PICK d : d = Popped.depth
  OBVIOUS
<1>1. /\ queue \in Seq(Entries) /\ queue # <<>> /\ queue[1].node = n /\ queue[1].depth = d
      /\ n \in Nodes /\ d \in Nat
      /\ \A m \in marked : depth[m] <= d
  BY <1>n, <1>d, ImpactPopped
<1>2. /\ UNCHANGED question /\ search' = search /\ symbols' = symbols /\ starts' = starts
      /\ limit' = limit /\ goal' = goal /\ marked' = marked /\ depth' = depth /\ reported' = reported
      /\ parent' = parent
  BY DEF question
<1>3. /\ \A m \in Nodes : Next_(m)' = Next_(m)
      /\ \A m \in Nodes : Passable(m)' <=> Passable(m)
  BY <1>2, SameQuestion
<1>4. /\ SearchTypeOK /\ StartsAreMarked /\ Supported /\ Shallow /\ ImpactQueue
      /\ marked \in SUBSET Nodes /\ depth \in [Nodes -> Nat] /\ limit \in Nat
  BY DEF SearchInv, SearchTypeOK
<1>5. ShiftedImpact(<<>>, d)
  <2>1. queue' = Tail(queue) \o <<>>
    BY <1>1
  <2>2. <<>> \in Seq(Entries) /\ \A i \in 1..Len(<<>>) : <<>>[i].depth = d + 1
    OBVIOUS
  <2> QED BY <1>d, <2>1, <2>2, ImpactQueueShifts
<1>6. /\ queue' \in Seq(Entries) /\ InOrder(queue)'
      /\ queue' # <<>> => queue'[1].depth >= d
      /\ \A i \in 1..Len(queue') : \E j \in 2..Len(queue) : queue'[i] = queue[j]
      /\ \A j \in 2..Len(queue) : \E i \in 1..Len(queue') : queue'[i] = queue[j]
  BY <1>5 DEF ShiftedImpact, MadeOf
<1>7. SearchTypeOK' /\ StartsAreMarked'
  BY <1>2, <1>4, <1>6 DEF SearchTypeOK, StartsAreMarked
<1>8. Supported'
  <2>1. \A m, k \in marked : Follows(m, k)' <=> Follows(m, k)
    BY <1>2, <1>3, <1>4 DEF Follows
  <2> QED BY <1>2, <1>4, <2>1 DEF Supported
<1>9. Shallow'
  <2>1. \A m \in marked : depth[m] <= limit
    BY <1>4 DEF Shallow
  <2>2. ASSUME queue' # <<>>, NEW m \in marked PROVE depth[m] <= queue'[1].depth + 0
    <3>1. 1 \in 1..Len(queue')
      BY <1>6, <2>2
    <3>2. queue'[1] \in Entries
      BY <1>6, <3>1
    <3>3. queue'[1].depth \in Nat
      BY <3>2 DEF Entries
    <3>4. depth[m] \in Nat /\ depth[m] <= d /\ d <= queue'[1].depth
      BY <1>1, <1>4, <1>6, <2>2, <3>3
    <3> DEFINE a == depth[m]
               b == queue'[1].depth
    <3>5. a <= b + 0
      <4>1. a \in Nat /\ b \in Nat /\ a <= d /\ d <= b
        BY <3>3, <3>4
      <4> HIDE DEF a, b
      <4> QED BY <1>1, <4>1
    <3> QED BY <3>5
  <2> QED BY <1>2, <2>1, <2>2 DEF Shallow
<1>10. ASSUME NEW i \in 1..Len(queue') PROVE FromMarked(i)'
  <2>1. PICK j \in 2..Len(queue) : queue'[i] = queue[j]
    BY <1>6
  <2>2. j \in 1..Len(queue)
    BY <1>1
  <2>3. PICK m \in marked : /\ Passable(m) /\ queue[j].node \in Next_(m)
                            /\ queue[j].depth = depth[m] + 1
    BY <1>4, <2>2 DEF ImpactQueue, FromMarked
  <2> QED BY <1>2, <1>3, <1>4, <2>1, <2>3 DEF FromMarked
<1>11. ASSUME NEW m \in marked', Passable(m)', depth'[m] < limit', NEW x \in Next_(m)'
       PROVE  Considered(m, x)'
  <2>1. Passable(m) /\ x \in Next_(m) /\ depth[m] \in Nat /\ m \in marked /\ depth[m] < limit
    BY <1>2, <1>3, <1>4, <1>11
  <2>2. ASSUME NEW j \in 1..Len(queue), queue[j].node = x, queue[j].depth = depth[m] + 1
        PROVE  (x \in marked /\ depth[x] <= depth[m] + 1) \/ Waiting(x, depth[m] + 1)'
    <3>1. CASE j = 1
      <4>1. x = n /\ d = depth[m] + 1
        BY <1>1, <2>2, <3>1
      <4>2. n \in marked
        BY <1>n, <1>d, <1>4, <2>1, <4>1
      <4> QED BY <1>1, <4>1, <4>2
    <3>2. CASE j # 1
      <4>1. j \in 2..Len(queue)
        BY <1>1, <3>2
      <4>2. PICK i \in 1..Len(queue') : queue'[i] = queue[j]
        BY <1>6, <4>1
      <4>3. queue'[i].node = x /\ queue'[i].depth = depth'[m] + 1
        BY <1>2, <2>2, <4>2
      <4> QED BY <1>2, <4>3 DEF Waiting
    <3> QED BY <3>1, <3>2
  <2>3. Considered(m, x)
    BY <1>4, <2>1 DEF ImpactQueue
  <2>4. (x \in marked /\ depth[x] <= depth[m] + 1) \/ Waiting(x, depth[m] + 1)'
    BY <2>2, <2>3 DEF Considered, Waiting
  <2> QED BY <1>2, <2>4 DEF Considered, Waiting
<1>12. ImpactQueue'
  <2>1. reported = (marked \ starts) \cap symbols
    BY <1>4 DEF ImpactQueue
  <2>2. reported' = (marked' \ starts') \cap symbols'
    BY <1>2, <2>1
  <2> QED BY <1>10, <1>11, <2>2 DEF ImpactQueue
<1>13. EagerQueue' /\ ReachAnswer' /\ PathAnswer'
  BY <1>2 DEF EagerQueue, Eager, ReachAnswer, PathAnswer
<1> QED BY <1>6, <1>7, <1>8, <1>9, <1>12, <1>13 DEF SearchInv

\* A turn of an impact that marks a node.
LEMMA FoundImpactStep ==
  ASSUME IsFiniteSet(Nodes), SearchInv, search = "impact", Turn,
         Popped.depth <= limit, Popped.node \notin marked,
         NEW n, n = Popped.node, NEW d, d = Popped.depth, NEW new,
         new = (IF n \in symbols /\ d < limit THEN Next_(n) \ (marked \cup {n}) ELSE {}),
         marked' = marked \cup {n}, depth' = [depth EXCEPT ![n] = d],
         reported' = reported \cup ({n} \cap symbols),
         queue' = Tail(queue) \o AtDepth(new, d + 1), UNCHANGED <<question, parent>>
  PROVE  SearchInv'
<1>1. /\ queue \in Seq(Entries) /\ queue # <<>> /\ queue[1].node = n /\ queue[1].depth = d
      /\ n \in Nodes /\ d \in Nat
      /\ \A m \in marked : depth[m] <= d
      /\ \E m \in marked : Passable(m) /\ n \in Next_(m) /\ d = depth[m] + 1
  BY ImpactPopped
<1>2. /\ UNCHANGED question /\ search' = search /\ symbols' = symbols /\ starts' = starts
      /\ limit' = limit /\ goal' = goal
  BY DEF question
<1>3. /\ \A m \in Nodes : Next_(m)' = Next_(m)
      /\ \A m \in Nodes : Passable(m)' <=> Passable(m)
  BY <1>2, SameQuestion
<1>4. /\ SearchTypeOK /\ StartsAreMarked /\ Supported /\ Shallow /\ ImpactQueue
      /\ marked \in SUBSET Nodes /\ depth \in [Nodes -> Nat] /\ limit \in Nat
  BY DEF SearchInv, SearchTypeOK
<1>5. /\ n \notin marked /\ d <= limit
      /\ depth'[n] = d /\ depth' \in [Nodes -> Nat]
      /\ \A m \in Nodes : m # n => depth'[m] = depth[m]
      /\ \A m \in marked : depth'[m] = depth[m]
  BY <1>1, <1>4
<1>p. PICK p : p = AtDepth(new, d + 1)
  OBVIOUS
<1>6. PlacesFor(p, new, d + 1)
  <2>1. new \in SUBSET Nodes
    BY <1>1, NextAreNodes
  <2>2. IsFiniteSet(new) /\ d + 1 \in Nat
    BY <1>1, <2>1, FS_Subset
  <2> QED BY <1>p, <2>1, <2>2, PlacesOf
<1>7. /\ p \in Seq(Entries)
      /\ \A i \in 1..Len(p) : p[i].node \in new /\ p[i].depth = d + 1
      /\ \A x \in new : \E i \in 1..Len(p) : p[i].node = x
  BY <1>6 DEF PlacesFor
<1>8. ShiftedImpact(p, d)
  <2>1. queue' = Tail(queue) \o p /\ \A i \in 1..Len(p) : p[i].depth = d + 1
    BY <1>p, <1>7
  <2> QED BY <1>7, <2>1, ImpactQueueShifts
<1>9. /\ queue' \in Seq(Entries) /\ InOrder(queue)'
      /\ queue' # <<>> => queue'[1].depth >= d
  BY <1>8 DEF ShiftedImpact
<1>10. MadeOf(queue', queue, p)
  BY <1>8 DEF ShiftedImpact
<1>11. SearchTypeOK'
  BY <1>1, <1>2, <1>4, <1>5, <1>9 DEF SearchTypeOK
<1>12. StartsAreMarked'
  BY <1>2, <1>4, <1>5 DEF StartsAreMarked
<1>13. Supported'
  <2> SUFFICES ASSUME NEW x \in marked' \ starts' PROVE \E m \in marked' : Follows(x, m)'
    BY DEF Supported
  <2>1. CASE x = n
    <3>1. PICK m \in marked : Passable(m) /\ n \in Next_(m) /\ d = depth[m] + 1
      BY <1>1
    <3>2. Follows(x, m)'
      BY <1>3, <1>4, <1>5, <2>1, <3>1 DEF Follows
    <3> QED BY <3>2
  <2>2. CASE x # n
    <3>1. x \in marked \ starts /\ x \in Nodes
      BY <1>2, <1>4, <2>2
    <3>2. PICK m \in marked : Follows(x, m)
      BY <1>4, <3>1 DEF Supported
    <3>3. Follows(x, m)'
      BY <1>3, <1>4, <1>5, <2>2, <3>1, <3>2 DEF Follows
    <3> QED BY <3>3
  <2> QED BY <2>1, <2>2
<1>14. Shallow'
  <2>1. \A m \in marked' : depth'[m] <= limit
    BY <1>4, <1>5 DEF Shallow
  <2>2. ASSUME queue' # <<>>, NEW m \in marked' PROVE depth'[m] <= queue'[1].depth + 0
    <3>1. 1 \in 1..Len(queue')
      BY <1>9, <2>2
    <3>2. queue'[1] \in Entries
      BY <1>9, <3>1
    <3>3. queue'[1].depth \in Nat
      BY <3>2 DEF Entries
    <3>4. depth'[m] \in Nat /\ depth'[m] <= d /\ d <= queue'[1].depth
      BY <1>1, <1>4, <1>5, <1>9, <2>2, <3>3
    <3> DEFINE a == depth'[m]
               b == queue'[1].depth
    <3>5. a <= b + 0
      <4>1. a \in Nat /\ b \in Nat /\ a <= d /\ d <= b
        BY <3>3, <3>4
      <4> HIDE DEF a, b
      <4> QED BY <1>1, <4>1
    <3> QED BY <3>5
  <2> QED BY <1>2, <2>1, <2>2 DEF Shallow
<1>15. ASSUME NEW i \in 1..Len(queue') PROVE FromMarked(i)'
  <2>1. ASSUME NEW j \in 2..Len(queue), queue'[i] = queue[j]
        PROVE  FromMarked(i)'
    <3>1. j \in 1..Len(queue)
      BY <1>1
    <3>2. PICK m \in marked : /\ Passable(m) /\ queue[j].node \in Next_(m)
                              /\ queue[j].depth = depth[m] + 1
      BY <1>4, <3>1 DEF ImpactQueue, FromMarked
    <3> QED BY <1>3, <1>4, <1>5, <2>1, <3>2 DEF FromMarked
  <2>2. ASSUME NEW j \in 1..Len(p), queue'[i] = p[j]
        PROVE  FromMarked(i)'
    <3>1. p[j].node \in new /\ p[j].depth = d + 1
      BY <1>7
    <3>2. n \in symbols /\ p[j].node \in Next_(n)
      BY <3>1
    <3>3. Passable(n)
      BY <3>2 DEF Passable
    <3> QED BY <1>1, <1>3, <1>5, <2>2, <3>1, <3>2, <3>3 DEF FromMarked
  <2> QED BY <1>10, <2>1, <2>2 DEF MadeOf
<1>16. ASSUME NEW m \in marked', Passable(m)', depth'[m] < limit', NEW x \in Next_(m)'
       PROVE  Considered(m, x)'
  <2>1. m \in Nodes /\ Passable(m) /\ x \in Next_(m) /\ depth'[m] < limit
    BY <1>1, <1>2, <1>3, <1>4, <1>16
  <2>2. CASE m = n
    <3>1. n \in symbols /\ d < limit /\ depth'[m] = d
      BY <1>5, <2>1, <2>2 DEF Passable
    <3>2. CASE x \in new
      <4>1. PICK j \in 1..Len(p) : p[j].node = x
        BY <1>7, <3>2
      <4>2. PICK i \in 1..Len(queue') : queue'[i] = p[j]
        BY <1>10 DEF MadeOf
      <4>3. queue'[i].node = x /\ queue'[i].depth = depth'[m] + 1
        BY <1>7, <3>1, <4>1, <4>2
      <4> QED BY <4>3 DEF Considered, Waiting
    <3>3. CASE x \notin new
      <4>1. x \in marked \/ x = n
        BY <2>1, <2>2, <3>1, <3>3
      <4>2. x \in marked' /\ depth'[x] \in Nat /\ depth'[x] <= d
        BY <1>1, <1>4, <1>5, <4>1
      <4>3. depth'[x] <= depth'[m] + 1
        BY <1>1, <3>1, <4>2
      <4> QED BY <4>2, <4>3 DEF Considered
    <3> QED BY <3>2, <3>3
  <2>3. CASE m # n
    <3>1. m \in marked /\ depth'[m] = depth[m] /\ depth[m] \in Nat
      BY <1>4, <1>5, <2>3
    <3>2. ASSUME NEW j \in 1..Len(queue), queue[j].node = x, queue[j].depth = depth[m] + 1
          PROVE  Considered(m, x)'
      <4>1. CASE j = 1
        <5>1. x = n /\ d = depth[m] + 1
          BY <1>1, <3>2, <4>1
        <5>2. x \in marked' /\ depth'[x] <= depth'[m] + 1
          BY <1>1, <1>5, <3>1, <5>1
        <5> QED BY <5>2 DEF Considered
      <4>2. CASE j # 1
        <5>1. j \in 2..Len(queue)
          BY <1>1, <4>2
        <5>2. PICK i \in 1..Len(queue') : queue'[i] = queue[j]
          BY <1>10, <5>1 DEF MadeOf
        <5>3. queue'[i].node = x /\ queue'[i].depth = depth'[m] + 1
          BY <3>1, <3>2, <5>2
        <5> QED BY <5>3 DEF Considered, Waiting
      <4> QED BY <4>1, <4>2
    <3>3. CASE x \in marked /\ depth[x] <= depth[m] + 1
      <4>1. x \in marked' /\ depth'[x] <= depth'[m] + 1
        BY <1>5, <3>1, <3>3
      <4> QED BY <4>1 DEF Considered
    <3>4. Considered(m, x)
      BY <1>4, <2>1, <3>1 DEF ImpactQueue
    <3> QED BY <3>2, <3>3, <3>4 DEF Considered, Waiting
  <2> QED BY <2>2, <2>3
<1>17. ImpactQueue'
  <2>1. reported = (marked \ starts) \cap symbols /\ starts \subseteq marked
    BY <1>4 DEF ImpactQueue, StartsAreMarked
  <2>2. reported' = (marked' \ starts') \cap symbols'
    BY <1>2, <1>5, <2>1
  <2> QED BY <1>15, <1>16, <2>2 DEF ImpactQueue
<1>18. EagerQueue' /\ ReachAnswer' /\ PathAnswer'
  BY <1>2 DEF EagerQueue, Eager, ReachAnswer, PathAnswer
<1> QED BY <1>9, <1>11, <1>12, <1>13, <1>14, <1>17, <1>18 DEF SearchInv

\* One turn of detect_impact.
LEMMA AffectStep ==
  ASSUME IsFiniteSet(Nodes), SearchInv, Affect
  PROVE  SearchInv'
<1>n. PICK n : n = Popped.node
  OBVIOUS
<1>d. PICK d : d = Popped.depth
  OBVIOUS
<1>new. PICK new : new = (IF n \in symbols /\ d < limit THEN Next_(n) \ (marked \cup {n}) ELSE {})
  OBVIOUS
<1>1. search = "impact" /\ Turn /\ UNCHANGED <<question, parent>>
  BY DEF Affect
<1>2. d \in Nat /\ limit \in Nat
  BY <1>d, <1>1, ImpactPopped DEF SearchInv, SearchTypeOK
<1>3. CASE d > limit \/ n \in marked
  <2>1. queue' = Tail(queue) /\ UNCHANGED <<marked, depth, reported, question, parent>>
    BY <1>n, <1>d, <1>1, <1>3 DEF Affect
  <2> QED BY <1>n, <1>d, <1>1, <1>3, <2>1, DropStep
<1>4. CASE ~(d > limit \/ n \in marked)
  <2>1. /\ marked' = marked \cup {n} /\ depth' = [depth EXCEPT ![n] = d]
        /\ reported' = reported \cup ({n} \cap symbols)
        /\ queue' = Tail(queue) \o AtDepth(new, d + 1)
    BY <1>n, <1>d, <1>new, <1>4 DEF Affect
  <2>2. d <= limit /\ n \notin marked
    BY <1>2, <1>4
  <2> QED BY <1>n, <1>d, <1>new, <1>1, <2>1, <2>2, FoundImpactStep
<1> QED BY <1>3, <1>4


-----------------------------------------------------------------------------
\* Where the searches begin.
LEMMA StartsAreSymbols ==
  ASSUME SearchInit
  PROVE  /\ search \in {"callers", "callees", "path", "impact", "depths"}
         /\ symbols \in SUBSET Nodes /\ starts \in SUBSET symbols
         /\ search = "path" => goal \in Nodes
<1>1. /\ search \in {"callers", "callees", "path", "impact", "depths"}
      /\ symbols \in SUBSET Nodes
      /\ CASE search = "depths" -> starts = Uncalled
           [] search = "impact" -> starts \in SUBSET symbols
           [] OTHER             -> \E s \in symbols : starts = {s}
      /\ IF search = "path" THEN goal \in symbols ELSE goal = NoNode
  BY DEF SearchInit
<1>2. Uncalled \subseteq symbols
  BY DEF Uncalled
<1>3. CASE search = "depths"
  BY <1>1, <1>2, <1>3
<1>4. CASE search = "impact"
  BY <1>1, <1>4
<1>5. CASE search \notin {"depths", "impact"}
  <2>1. \E s \in symbols : starts = {s}
    BY <1>1, <1>5
  <2> QED BY <1>1, <2>1
<1> QED BY <1>3, <1>4, <1>5

LEMMA InitialInv ==
  ASSUME IsFiniteSet(Nodes), SearchInit
  PROVE  SearchInv
<1> DEFINE begun == IF search = "impact" THEN Seeds ELSE starts
           d == IF search = "impact" THEN 1 ELSE 0
<1>1. /\ search \in {"callers", "callees", "path", "impact", "depths"}
      /\ symbols \in SUBSET Nodes /\ starts \in SUBSET symbols
      /\ search = "path" => goal \in Nodes
  BY StartsAreSymbols
<1>2. /\ queue = AtDepth(begun, d)
      /\ marked = starts
      /\ depth = [n \in Nodes |-> 0]
      /\ parent = [n \in Nodes |-> NoNode]
      /\ reported = {}
      /\ limit \in 0..MaxDepth
  BY DEF SearchInit, Begin
<1>3. limit \in Nat
  BY <1>2
<1>4. Seeds \subseteq Nodes
  BY <1>1, NextAreNodes DEF Seeds
<1>5. PlacesFor(queue, begun, d)
  <2>1. begun \in SUBSET Nodes
    BY <1>1, <1>4
  <2>2. IsFiniteSet(begun)
    BY <2>1, FS_Subset
  <2>3. d \in Nat
    OBVIOUS
  <2> HIDE DEF begun, d
  <2>4. PlacesFor(AtDepth(begun, d), begun, d)
    BY <2>1, <2>2, <2>3, PlacesOf
  <2> QED BY <1>2, <2>4
<1>6. /\ queue \in Seq(Entries)
      /\ \A i \in 1..Len(queue) : queue[i].node \in begun /\ queue[i].depth = d
      /\ \A s \in begun : \E i \in 1..Len(queue) : queue[i].node = s
      /\ \A i, j \in 1..Len(queue) : queue[i].node = queue[j].node => i = j
  BY <1>5 DEF PlacesFor
<1>7. \A n \in Nodes : depth[n] = 0
  BY <1>2
<1>8. SearchTypeOK
  BY <1>1, <1>2, <1>3, <1>6 DEF SearchTypeOK
<1>9. StartsAreMarked /\ Supported
  BY <1>1, <1>2, <1>7 DEF StartsAreMarked, Supported
<1>10. Shallow
  <2>1. \A n \in marked : depth[n] = 0
    BY <1>1, <1>2, <1>7
  <2>2. queue # <<>> => queue[1].depth = d
    <3>1. queue # <<>> => 1 \in 1..Len(queue)
      BY <1>6
    <3> QED BY <1>6, <3>1
  <2> QED BY <1>3, <2>1, <2>2 DEF Shallow
<1>11. InOrder(queue)
  <2> SUFFICES ASSUME NEW i \in 1..Len(queue), NEW j \in 1..Len(queue), i <= j
               PROVE  queue[i].depth <= queue[j].depth /\ queue[j].depth <= queue[1].depth + 1
    BY DEF InOrder
  <2>1. 1 \in 1..Len(queue)
    BY <1>6
  <2>2. queue[i].depth = d /\ queue[j].depth = d /\ queue[1].depth = d
    BY <1>6, <2>1
  <2>3. d <= d /\ d <= d + 1
    OBVIOUS
  <2> HIDE DEF d
  <2> QED BY <2>2, <2>3
<1>12. EagerQueue
  <2> SUFFICES ASSUME Eager PROVE EagerQueue
    BY DEF EagerQueue
  <2>1. begun = starts /\ d = 0
    BY DEF Eager
  <2>2. \A i \in 1..Len(queue) : queue[i].node \in marked /\ queue[i].depth = depth[queue[i].node]
    BY <1>1, <1>2, <1>6, <1>7, <2>1
  <2>3. \A m \in marked : Queued(m)
    BY <1>2, <1>6, <2>1 DEF Queued
  <2> QED BY <1>2, <2>2, <2>3 DEF EagerQueue
<1>13. ReachAnswer
  BY <1>2, <1>6, <1>7 DEF ReachAnswer
<1>14. PathAnswer
  <2> SUFFICES ASSUME search = "path" PROVE PathAnswer
    BY DEF PathAnswer
  <2>1. begun = starts
    OBVIOUS
  <2>2. goal \in marked => Queued(goal)
    BY <1>2, <1>6, <2>1 DEF Queued
  <2> QED BY <1>2, <2>2 DEF PathAnswer
<1>15. ImpactQueue
  <2> SUFFICES ASSUME search = "impact" PROVE ImpactQueue
    BY DEF ImpactQueue
  <2>1. begun = Seeds /\ d = 1
    OBVIOUS
  <2>2. ASSUME NEW i \in 1..Len(queue) PROVE FromMarked(i)
    <3>1. queue[i].node \in Seeds /\ queue[i].depth = 1
      BY <1>6, <2>1
    <3>2. PICK s \in starts : queue[i].node \in Next_(s)
      BY <3>1 DEF Seeds
    <3>3. s \in marked /\ Passable(s) /\ depth[s] = 0
      BY <1>1, <1>2, <1>7 DEF Passable
    <3> QED BY <3>1, <3>2, <3>3 DEF FromMarked
  <2>3. ASSUME NEW m \in marked, NEW n \in Next_(m) PROVE Considered(m, n)
    <3>1. m \in starts /\ depth[m] = 0 /\ m \in Nodes
      BY <1>1, <1>2, <1>7
    <3>2. n \in Nodes
      BY <3>1, NextAreNodes
    <3>3. CASE n \in starts
      <4>1. n \in marked /\ depth[n] <= depth[m] + 1
        BY <1>2, <1>7, <3>1, <3>2, <3>3
      <4> QED BY <4>1 DEF Considered
    <3>4. CASE n \notin starts
      <4>1. n \in Seeds
        BY <3>1, <3>4 DEF Seeds
      <4>2. PICK i \in 1..Len(queue) : queue[i].node = n
        BY <1>6, <2>1, <4>1
      <4>3. queue[i].depth = depth[m] + 1
        BY <1>6, <2>1, <3>1
      <4> QED BY <4>2, <4>3 DEF Considered, Waiting
    <3> QED BY <3>3, <3>4
  <2>4. reported = (marked \ starts) \cap symbols
    BY <1>2
  <2> QED BY <2>2, <2>3, <2>4 DEF ImpactQueue
<1> QED BY <1>8, <1>9, <1>10, <1>11, <1>12, <1>13, <1>14, <1>15 DEF SearchInv

LEMMA SearchStep ==
  ASSUME IsFiniteSet(Nodes), SearchInv, [SearchNext]_searchVars
  PROVE  SearchInv'
<1>1. CASE UNCHANGED searchVars
  <2>1. /\ UNCHANGED question /\ search' = search /\ symbols' = symbols /\ starts' = starts
        /\ calls' = calls /\ limit' = limit /\ goal' = goal /\ queue' = queue
        /\ marked' = marked /\ depth' = depth /\ parent' = parent /\ reported' = reported
    BY <1>1 DEF searchVars, question
  <2>2. SearchTypeOK' /\ StartsAreMarked' /\ Shallow' /\ InOrder(queue)'
    BY <2>1 DEF SearchInv, SearchTypeOK, StartsAreMarked, Shallow, InOrder
  <2>3. Supported'
    BY <2>1 DEF SearchInv, Supported, Follows, Passable, Next_
  <2>4. EagerQueue'
    BY <2>1 DEF SearchInv, EagerQueue, Eager, Queued, Extends, Closed, Follows, Passable, Next_
  <2>5. ReachAnswer' /\ PathAnswer'
    BY <2>1 DEF SearchInv, ReachAnswer, PathAnswer, Queued
  <2>6. ImpactQueue'
    <3>1. /\ \A i : FromMarked(i)' <=> FromMarked(i)
          /\ \A m, n : Considered(m, n)' <=> Considered(m, n)
          /\ \A n : Next_(n)' = Next_(n)
          /\ \A n : Passable(n)' <=> Passable(n)
      BY <2>1 DEF FromMarked, Considered, Waiting, Passable, Next_
    <3>2. ImpactQueue
      BY DEF SearchInv
    <3> QED BY <2>1, <3>1, <3>2 DEF ImpactQueue
  <2> QED BY <2>2, <2>3, <2>4, <2>5, <2>6 DEF SearchInv
<1>2. CASE Reach
  BY <1>2, ReachStep
<1>3. CASE FindPath
  BY <1>3, FindPathStep, FoundStep
<1>4. CASE Affect
  BY <1>4, AffectStep
<1>5. CASE Descend
  BY <1>5, DescendStep
<1> QED BY <1>1, <1>2, <1>3, <1>4, <1>5 DEF SearchNext


-----------------------------------------------------------------------------
\* The reference is what its definition says: each ball is the one before and what follows
\* from it.
BallEquation(f) ==
    f = [d \in Nat |-> IF d = 0 THEN starts
                       ELSE f[d - 1] \cup UNION {Next_(n) : n \in {m \in f[d - 1] : Passable(m)}}]

LEMMA BallIs ==
  ASSUME starts \in SUBSET Nodes
  PROVE  BallEquation(Ball)
<1> DEFINE step == [S \in SUBSET Nodes |->
                       S \cup UNION {Next_(n) : n \in {m \in S : Passable(m)}}]
<1>1. PICK g : g = [i \in Nat |-> IF i = 0 THEN starts ELSE step[g[i - 1]]]
  <2> HIDE DEF step
  <2>1. \E g : Iterated(g, starts, step)
    BY Iterates
  <2> QED BY <2>1 DEF Iterated
<1>2. \A S \in SUBSET Nodes :
          /\ step[S] = S \cup UNION {Next_(n) : n \in {m \in S : Passable(m)}}
          /\ step[S] \in SUBSET Nodes
  <2> TAKE S \in SUBSET Nodes
  <2>1. step[S] = S \cup UNION {Next_(n) : n \in {m \in S : Passable(m)}}
    OBVIOUS
  <2>2. \A n \in {m \in S : Passable(m)} : Next_(n) \subseteq Nodes
    BY NextAreNodes
  <2> HIDE DEF step
  <2> QED BY <2>1, <2>2
<1> HIDE DEF step
<1>3. g[0] = starts /\ \A i \in Nat : g[i + 1] = step[g[i]]
  <2>1. g[0] = starts
    BY <1>1
  <2>2. ASSUME NEW i \in Nat PROVE g[i + 1] = step[g[i]]
    <3>1. i + 1 \in Nat /\ i + 1 # 0 /\ (i + 1) - 1 = i
      OBVIOUS
    <3>2. g[i + 1] = step[g[(i + 1) - 1]]
      BY <1>1, <3>1
    <3> QED BY <3>1, <3>2
  <2> QED BY <2>1, <2>2
<1>4. \A i \in Nat : g[i] \in SUBSET Nodes
  <2> DEFINE T == {i \in Nat : g[i] \in SUBSET Nodes}
  <2>1. T \subseteq Nat /\ 0 \in T /\ \A i \in T : i + 1 \in T
    BY <1>2, <1>3
  <2>2. \A i \in Nat : i \in T
    <3> HIDE DEF T
    <3> QED BY <2>1, Counting
  <2> QED BY <2>2
<1>5. \A i \in Nat : i # 0 =>
          step[g[i - 1]] = g[i - 1] \cup UNION {Next_(n) : n \in {m \in g[i - 1] : Passable(m)}}
  <2> TAKE i \in Nat
  <2> HAVE i # 0
  <2>1. i - 1 \in Nat
    OBVIOUS
  <2> QED BY <1>2, <1>4, <2>1
<1>6. BallEquation(g)
  BY <1>1, <1>5 DEF BallEquation
<1>7. Ball = CHOOSE f : BallEquation(f)
  BY Zenon DEF Ball, BallEquation
<1> QED BY <1>6, <1>7

\* Of a ball: it begins with the starts, and m brings n into the next one.
BallFacts ==
    /\ Ball[0] = starts
    /\ \A d \in Nat : Ball[d] \in SUBSET Nodes
    /\ \A d \in Nat : Ball[d] \subseteq Ball[d + 1]
    /\ \A d \in Nat : \A m \in Ball[d] : Passable(m) => Next_(m) \subseteq Ball[d + 1]
    /\ \A d \in Nat : \A n \in Ball[d + 1] \ Ball[d] :
          \E m \in Ball[d] : Passable(m) /\ n \in Next_(m)

LEMMA BallsGrow ==
  ASSUME starts \in SUBSET Nodes
  PROVE  BallFacts
<1> DEFINE More(d) == UNION {Next_(n) : n \in {m \in Ball[d] : Passable(m)}}
<1>1. Ball = [d \in Nat |-> IF d = 0 THEN starts ELSE Ball[d - 1] \cup More(d - 1)]
  BY BallIs DEF BallEquation
<1> HIDE DEF More
<1>2. Ball[0] = starts
  BY <1>1
<1>3. ASSUME NEW d \in Nat PROVE Ball[d + 1] = Ball[d] \cup More(d)
  <2>1. d + 1 \in Nat /\ d + 1 # 0 /\ (d + 1) - 1 = d
    OBVIOUS
  <2>2. Ball[d + 1] = Ball[(d + 1) - 1] \cup More((d + 1) - 1)
    BY <1>1, <2>1
  <2> QED BY <2>1, <2>2
<1>4. ASSUME NEW d \in Nat, Ball[d] \in SUBSET Nodes PROVE Ball[d + 1] \in SUBSET Nodes
  <2>1. \A n \in {m \in Ball[d] : Passable(m)} : Next_(n) \subseteq Nodes
    BY <1>4, NextAreNodes
  <2>2. More(d) \subseteq Nodes
    BY <2>1 DEF More
  <2> QED BY <1>3, <1>4, <2>2
<1>5. \A d \in Nat : Ball[d] \in SUBSET Nodes
  <2> DEFINE T == {d \in Nat : Ball[d] \in SUBSET Nodes}
  <2>1. T \subseteq Nat /\ 0 \in T /\ \A d \in T : d + 1 \in T
    BY <1>2, <1>4
  <2>2. \A d \in Nat : d \in T
    <3> HIDE DEF T
    <3> QED BY <2>1, Counting
  <2> QED BY <2>2
<1>6. ASSUME NEW d \in Nat, NEW m \in Ball[d], Passable(m) PROVE Next_(m) \subseteq Ball[d + 1]
  <2>1. Next_(m) \subseteq More(d)
    BY <1>6 DEF More
  <2> QED BY <1>3, <2>1
<1>7. ASSUME NEW d \in Nat, NEW n \in Ball[d + 1] \ Ball[d]
      PROVE  \E m \in Ball[d] : Passable(m) /\ n \in Next_(m)
  <2>1. n \in More(d)
    BY <1>3
  <2> QED BY <2>1 DEF More
<1> QED BY <1>2, <1>3, <1>5, <1>6, <1>7 DEF BallFacts

LEMMA BallsContain ==
  ASSUME BallFacts, NEW k \in Nat
  PROVE  \A d \in Nat : k <= d => Ball[k] \subseteq Ball[d]
<1> DEFINE T == {d \in Nat : k <= d => Ball[k] \subseteq Ball[d]}
<1>1. 0 \in T
  <2>1. k <= 0 => k = 0
    OBVIOUS
  <2> QED BY <2>1
<1>2. ASSUME NEW d \in T PROVE d + 1 \in T
  <2>1. CASE k <= d
    <3>1. Ball[k] \subseteq Ball[d] /\ Ball[d] \subseteq Ball[d + 1]
      BY <2>1 DEF BallFacts
    <3> QED BY <3>1
  <2>2. CASE ~(k <= d)
    <3>1. k <= d + 1 => k = d + 1
      BY <2>2
    <3> QED BY <3>1
  <2> QED BY <2>1, <2>2
<1>3. \A d \in Nat : d \in T
  <2> HIDE DEF T
  <2>1. T \subseteq Nat
    BY DEF T
  <2> QED BY <1>1, <1>2, <2>1, Counting
<1> QED BY <1>3

\* Everything marked is where its depth says.
LEMMA MarkedIsNear ==
  ASSUME BallFacts, SearchTypeOK, StartsAreMarked, Supported
  PROVE  \A n \in marked : n \in Ball[depth[n]]
<1> DEFINE T == {d \in Nat : \A n \in marked : depth[n] = d => n \in Ball[d]}
<1>1. marked \in SUBSET Nodes /\ depth \in [Nodes -> Nat]
  BY DEF SearchTypeOK
<1>2. ASSUME NEW n \in marked, n \notin starts
      PROVE  \E m \in marked : Passable(m) /\ n \in Next_(m) /\ depth[n] = depth[m] + 1
  BY <1>2 DEF Supported, Follows
<1>3. 0 \in T
  <2> SUFFICES ASSUME NEW n \in marked, depth[n] = 0 PROVE n \in Ball[0]
    OBVIOUS
  <2>1. CASE n \in starts
    BY <2>1 DEF BallFacts
  <2>2. CASE n \notin starts
    <3>1. PICK m \in marked : depth[n] = depth[m] + 1
      BY <1>2, <2>2
    <3> QED BY <1>1, <3>1
  <2> QED BY <2>1, <2>2
<1>4. ASSUME NEW d \in T PROVE d + 1 \in T
  <2> SUFFICES ASSUME NEW n \in marked, depth[n] = d + 1 PROVE n \in Ball[d + 1]
    OBVIOUS
  <2>1. n \notin starts
    <3>1. n \in starts => depth[n] = 0
      BY DEF StartsAreMarked
    <3> QED BY <3>1
  <2>2. PICK m \in marked : Passable(m) /\ n \in Next_(m) /\ depth[n] = depth[m] + 1
    BY <1>2, <2>1
  <2>3. depth[m] = d
    BY <1>1, <2>2
  <2>4. m \in Ball[d]
    BY <2>3
  <2> QED BY <2>2, <2>4 DEF BallFacts
<1>5. \A d \in Nat : d \in T
  <2>1. T \subseteq Nat
    OBVIOUS
  <2> HIDE DEF T
  <2> QED BY <1>3, <1>4, <2>1, Counting
<1> QED
  <2> TAKE n \in marked
  <2>1. depth[n] \in Nat
    BY <1>1
  <2>2. depth[n] \in T
    BY <1>5, <2>1
  <2> QED BY <2>2

\* What is near is marked, when everything less deep than K has been extended.
LEMMA NearIsMarked ==
  ASSUME BallFacts, SearchTypeOK, StartsAreMarked, NEW K \in Nat,
         \A m \in marked : Passable(m) /\ depth[m] < K => Closed(m)
  PROVE  \A d \in Nat : d <= K => \A n \in Ball[d] : n \in marked /\ depth[n] <= d
<1> DEFINE T == {d \in Nat : d <= K => \A n \in Ball[d] : n \in marked /\ depth[n] <= d}
<1>1. marked \in SUBSET Nodes /\ depth \in [Nodes -> Nat]
  BY DEF SearchTypeOK
<1>2. 0 \in T
  <2>1. \A n \in Ball[0] : n \in marked /\ depth[n] = 0
    BY DEF BallFacts, StartsAreMarked
  <2> QED BY <2>1
<1>3. ASSUME NEW d \in T PROVE d + 1 \in T
  <2> SUFFICES ASSUME d + 1 <= K, NEW n \in Ball[d + 1] PROVE n \in marked /\ depth[n] <= d + 1
    OBVIOUS
  <2>1. d <= K /\ d < K
    OBVIOUS
  <2>2. \A m \in Ball[d] : m \in marked /\ depth[m] <= d
    BY <2>1
  <2>3. CASE n \in Ball[d]
    <3>1. n \in marked /\ depth[n] <= d /\ depth[n] \in Nat
      BY <1>1, <2>2, <2>3
    <3> QED BY <3>1
  <2>4. CASE n \notin Ball[d]
    <3>1. PICK m \in Ball[d] : Passable(m) /\ n \in Next_(m)
      BY <2>4 DEF BallFacts
    <3>2. m \in marked /\ depth[m] <= d /\ depth[m] \in Nat
      BY <1>1, <2>2
    <3>3. Closed(m)
      BY <2>1, <3>1, <3>2
    <3>4. n \in marked /\ depth[n] <= depth[m] + 1
      BY <3>1, <3>3 DEF Closed
    <3>5. depth[n] \in Nat
      BY <1>1, <3>4
    <3> QED BY <3>2, <3>4, <3>5
  <2> QED BY <2>3, <2>4
<1>4. \A d \in Nat : d \in T
  <2>1. T \subseteq Nat
    OBVIOUS
  <2> HIDE DEF T
  <2> QED BY <1>2, <1>3, <2>1, Counting
<1> QED BY <1>4


-----------------------------------------------------------------------------
\* What the invariant says once the queue is empty.
Ended ==
    /\ BallFacts /\ SearchTypeOK /\ StartsAreMarked /\ Supported
    /\ marked \in SUBSET Nodes /\ depth \in [Nodes -> Nat] /\ limit \in Nat
    /\ starts \subseteq symbols /\ symbols \subseteq Nodes
    /\ \A n \in marked : n \in Ball[depth[n]]
    /\ \A n \in marked : depth[n] > 0 <=> n \notin starts
    /\ search # "depths" => \A n \in marked : depth[n] <= limit
    /\ \A n : ~Queued(n)

LEMMA SearchEnded ==
  ASSUME SearchInv, queue = <<>>
  PROVE  Ended
<1>1. SearchTypeOK /\ StartsAreMarked /\ Supported /\ Shallow
  BY DEF SearchInv
<1>2. /\ marked \in SUBSET Nodes /\ depth \in [Nodes -> Nat] /\ limit \in Nat
      /\ starts \subseteq symbols /\ symbols \subseteq Nodes
  BY <1>1 DEF SearchTypeOK
<1>3. BallFacts
  BY <1>2, BallsGrow
<1>4. \A n \in marked : n \in Ball[depth[n]]
  BY <1>1, <1>3, MarkedIsNear
<1>5. ASSUME NEW n \in marked PROVE depth[n] > 0 <=> n \notin starts
  <2>1. CASE n \in starts
    BY <1>1, <2>1 DEF StartsAreMarked
  <2>2. CASE n \notin starts
    <3>1. PICK m \in marked : depth[n] = depth[m] + 1
      BY <1>1, <2>2 DEF Supported, Follows
    <3>2. depth[m] \in Nat
      BY <1>2
    <3> QED BY <2>2, <3>1, <3>2
  <2> QED BY <2>1, <2>2
<1>6. search # "depths" => \A n \in marked : depth[n] <= limit
  BY <1>1 DEF Shallow
<1>7. \A n : ~Queued(n)
  <2>1. Len(queue) = 0
    OBVIOUS
  <2> QED BY <2>1 DEF Queued
<1> QED BY <1>1, <1>2, <1>3, <1>4, <1>5, <1>6, <1>7 DEF Ended

\* A marked node is in no ball that is smaller than its depth, up to what has been extended.
LEMMA LeastDepth ==
  ASSUME Ended, NEW K \in Nat, \A m \in marked : Passable(m) /\ depth[m] < K => Closed(m)
  PROVE  /\ \A n \in Ball[K] : n \in marked /\ depth[n] <= K
         /\ \A n \in marked : depth[n] > 0 /\ depth[n] <= K => n \notin Ball[depth[n] - 1]
<1>1. \A d \in Nat : d <= K => \A n \in Ball[d] : n \in marked /\ depth[n] <= d
  BY NearIsMarked DEF Ended
<1>2. ASSUME NEW n \in marked, depth[n] > 0, depth[n] <= K, n \in Ball[depth[n] - 1]
      PROVE  FALSE
  <2>1. depth[n] \in Nat
    BY DEF Ended
  <2>2. depth[n] - 1 \in Nat /\ depth[n] - 1 <= K
    BY <1>2, <2>1
  <2>3. depth[n] <= depth[n] - 1
    BY <1>1, <1>2, <2>2
  <2> QED BY <2>1, <2>3
<1>3. K <= K
  OBVIOUS
<1> QED BY <1>1, <1>2, <1>3

LEMMA ReachesExactly == SearchInv => ReachIsExact
<1> SUFFICES ASSUME SearchInv, search \in {"callers", "callees", "impact"}, queue = <<>>
             PROVE  /\ reported = (Within(limit) \ starts) \cap symbols
                    /\ \A n \in reported : n \in Within(depth[n]) /\ n \notin Within(depth[n] - 1)
  BY DEF ReachIsExact
<1>1. Ended
  BY SearchEnded
<1>2. /\ marked \in SUBSET Nodes /\ depth \in [Nodes -> Nat] /\ limit \in Nat /\ BallFacts
      /\ \A n \in marked : n \in Ball[depth[n]] /\ depth[n] <= limit
      /\ \A n \in marked : depth[n] > 0 <=> n \notin starts
      /\ \A n : ~Queued(n)
  BY <1>1 DEF Ended
<1>3. ASSUME NEW m \in marked, Passable(m), depth[m] < limit PROVE Closed(m)
  <2>1. CASE search = "impact"
    <3>1. \A n \in Next_(m) : Considered(m, n)
      BY <1>3, <2>1 DEF SearchInv, ImpactQueue
    <3>2. \A n, d : ~Waiting(n, d)
      BY DEF Waiting
    <3> QED BY <3>1, <3>2 DEF Closed, Considered
  <2>2. CASE search # "impact"
    <3>1. Extends(m) => Closed(m)
      BY <1>2, <2>2 DEF SearchInv, EagerQueue, Eager
    <3> QED BY <1>3, <3>1 DEF Extends
  <2> QED BY <2>1, <2>2
<1>4. /\ \A n \in Ball[limit] : n \in marked /\ depth[n] <= limit
      /\ \A n \in marked : depth[n] > 0 /\ depth[n] <= limit => n \notin Ball[depth[n] - 1]
  BY <1>1, <1>2, <1>3, LeastDepth
<1>5. \A n \in marked : n \in Ball[limit]
  <2> TAKE n \in marked
  <2>1. depth[n] \in Nat /\ depth[n] <= limit /\ n \in Ball[depth[n]]
    BY <1>2
  <2>2. Ball[depth[n]] \subseteq Ball[limit]
    BY <1>2, <2>1, BallsContain
  <2> QED BY <2>1, <2>2
<1>6. reported = (marked \ starts) \cap symbols
  <2>1. CASE search = "impact"
    BY <2>1 DEF SearchInv, ImpactQueue
  <2>2. CASE search # "impact"
    <3>1. \A n \in Nodes : n \in reported <=> n \in marked /\ n \in symbols /\ depth[n] > 0
      BY <1>2, <2>2 DEF SearchInv, ReachAnswer
    <3>2. reported \subseteq Nodes
      BY DEF SearchInv, SearchTypeOK
    <3> QED BY <1>2, <3>1, <3>2
  <2> QED BY <2>1, <2>2
<1>7. reported = (Ball[limit] \ starts) \cap symbols
  BY <1>4, <1>5, <1>6
<1>8. \A n \in reported : n \in Ball[depth[n]] /\ n \notin Ball[depth[n] - 1]
  <2> TAKE n \in reported
  <2>1. n \in marked /\ n \notin starts
    BY <1>6
  <2>2. depth[n] > 0 /\ depth[n] <= limit
    BY <1>2, <2>1
  <2> QED BY <1>2, <1>4, <2>1, <2>2
<1> QED BY <1>7, <1>8 DEF Within

\* The way back along the parents.
BackEquation(f) == f = [i \in Nat |-> IF i = 0 THEN goal ELSE parent[f[i - 1]]]

LEMMA BackIs ==
  /\ Back[0] = goal
  /\ \A i \in Nat : Back[i + 1] = parent[Back[i]]
<1>1. \E f : BackEquation(f)
  <2>1. \E g : Iterated(g, goal, parent)
    BY Iterates
  <2> QED BY <2>1 DEF Iterated, BackEquation
<1>2. Back = CHOOSE f : BackEquation(f)
  BY Zenon DEF Back, BackEquation
<1>3. BackEquation(Back)
  BY <1>1, <1>2
<1>4. Back[0] = goal
  BY <1>3 DEF BackEquation
<1>5. ASSUME NEW i \in Nat PROVE Back[i + 1] = parent[Back[i]]
  <2>1. i + 1 \in Nat /\ i + 1 # 0 /\ (i + 1) - 1 = i
    OBVIOUS
  <2>2. Back[i + 1] = parent[Back[(i + 1) - 1]]
    BY <1>3, <2>1 DEF BackEquation
  <2> QED BY <2>1, <2>2
<1> QED BY <1>4, <1>5

LEMMA PathLeadsBack ==
  ASSUME SearchInv, Ended, search = "path", goal \in marked,
         NEW hops, hops = depth[goal]
  PROVE  /\ Back[hops] \in starts
         /\ \A i \in 1..hops : Back[i] \in Next_(Back[i - 1])
<1>1. /\ marked \in SUBSET Nodes /\ depth \in [Nodes -> Nat]
      /\ \A n \in marked : depth[n] > 0 <=> n \notin starts
      /\ hops \in Nat
  BY DEF Ended
<1>2. \A n \in marked : n \notin starts => Follows(n, parent[n])
  BY DEF SearchInv, EagerQueue, Eager
<1> DEFINE T == {i \in Nat : i <= hops => Back[i] \in marked /\ depth[Back[i]] = hops - i}
<1>3. 0 \in T
  BY <1>1, BackIs
<1>4. ASSUME NEW i \in T PROVE i + 1 \in T
  <2> SUFFICES ASSUME i + 1 <= hops
               PROVE  Back[i + 1] \in marked /\ depth[Back[i + 1]] = hops - (i + 1)
    OBVIOUS
  <2>1. Back[i] \in marked /\ depth[Back[i]] = hops - i
    BY <1>1
  <2>2. depth[Back[i]] > 0
    BY <1>1, <2>1
  <2>3. Follows(Back[i], parent[Back[i]])
    BY <1>1, <1>2, <2>1, <2>2
  <2>4. Back[i + 1] = parent[Back[i]]
    BY BackIs
  <2>5. Back[i + 1] \in marked /\ depth[Back[i]] = depth[Back[i + 1]] + 1
    BY <2>3, <2>4 DEF Follows
  <2>6. depth[Back[i + 1]] \in Nat
    BY <1>1, <2>5
  <2> QED BY <1>1, <2>1, <2>5, <2>6
<1>5. \A i \in Nat : i <= hops => Back[i] \in marked /\ depth[Back[i]] = hops - i
  <2>1. \A i \in Nat : i \in T
    <3>1. T \subseteq Nat
      OBVIOUS
    <3> HIDE DEF T
    <3> QED BY <1>3, <1>4, <3>1, Counting
  <2> QED BY <2>1
<1>6. Back[hops] \in starts
  <2>1. Back[hops] \in marked /\ depth[Back[hops]] = 0
    BY <1>1, <1>5
  <2> QED BY <1>1, <2>1
<1>7. ASSUME NEW i \in 1..hops PROVE Back[i] \in Next_(Back[i - 1])
  <2>1. i - 1 \in Nat /\ i - 1 <= hops /\ (i - 1) + 1 = i /\ i \in Nat /\ i <= hops
    BY <1>1
  <2>2. /\ Back[i - 1] \in marked /\ depth[Back[i - 1]] = hops - (i - 1)
        /\ Back[i] \in marked /\ Back[i] = parent[Back[i - 1]]
    BY <1>5, <2>1, BackIs
  <2>3. depth[Back[i - 1]] > 0
    BY <1>1, <2>1, <2>2
  <2>4. Follows(Back[i - 1], Back[i])
    BY <1>1, <1>2, <2>2, <2>3
  <2>5. Back[i - 1] \in Next_(Back[i]) /\ Back[i] \in Nodes
    BY <1>1, <2>2, <2>4 DEF Follows
  <2> QED BY <2>5 DEF Next_
<1> QED BY <1>6, <1>7

LEMMA PathsAreShortest == SearchInv => PathIsShortest
<1> SUFFICES ASSUME SearchInv, search = "path", queue = <<>> PROVE PathIsShortest
  BY DEF PathIsShortest
<1>1. Ended
  BY SearchEnded
<1>2. /\ marked \in SUBSET Nodes /\ depth \in [Nodes -> Nat] /\ limit \in Nat /\ BallFacts
      /\ \A n \in marked : n \in Ball[depth[n]] /\ depth[n] <= limit
      /\ \A n : ~Queued(n)
  BY <1>1 DEF Ended
<1>3. \A m \in marked : \/ Extends(m) => Closed(m)
                        \/ goal \in reported /\ depth[goal] <= depth[m]
  BY <1>2 DEF SearchInv, EagerQueue, Eager
<1>4. goal \in reported <=> goal \in marked
  BY <1>2 DEF SearchInv, PathAnswer
<1>5. CASE goal \in reported
  <2>1. goal \in marked /\ depth[goal] \in Nat /\ depth[goal] <= limit /\ goal \in Ball[depth[goal]]
    BY <1>2, <1>4, <1>5
  <2>2. goal \in Within(limit)
    BY <1>2, <2>1, BallsContain DEF Within
  <2>3. ASSUME NEW m \in marked, depth[m] < depth[goal] PROVE Closed(m)
    <3>1. depth[m] \in Nat /\ depth[m] < limit
      BY <1>2, <2>1, <2>3
    <3>2. Extends(m) /\ ~(depth[goal] <= depth[m])
      BY <2>1, <2>3, <3>1 DEF Extends
    <3> QED BY <1>3, <3>2
  <2>4. depth[goal] > 0 => goal \notin Ball[depth[goal] - 1]
    <3>1. depth[goal] <= depth[goal]
      BY <2>1
    <3> QED BY <1>1, <2>1, <2>3, <3>1, LeastDepth
  <2>5. /\ Back[depth[goal]] \in starts
        /\ \A i \in 1..depth[goal] : Back[i] \in Next_(Back[i - 1])
    BY <1>1, <2>1, PathLeadsBack
  <2> QED BY <1>5, <2>2, <2>4, <2>5 DEF PathIsShortest, Within
<1>6. CASE goal \notin reported
  <2>1. ASSUME NEW m \in marked, depth[m] < limit PROVE Closed(m)
    BY <1>3, <1>6, <2>1 DEF Extends
  <2>2. goal \notin Ball[limit]
    BY <1>1, <1>2, <1>4, <1>6, <2>1, LeastDepth
  <2> QED BY <1>6, <2>2 DEF PathIsShortest, Within
<1> QED BY <1>5, <1>6


\* Balls that stop growing have stopped for good, and as long as they grow they gain a node
\* a time: there is nothing outside the ball that is as large as the graph.
LEMMA BallsStop ==
  ASSUME BallFacts, NEW e \in Nat, Ball[e + 1] \subseteq Ball[e]
  PROVE  \A d \in Nat : Ball[d] \subseteq Ball[e]
<1> DEFINE T == {d \in Nat : Ball[d] \subseteq Ball[e]}
<1>1. 0 \in T
  <2>1. Ball[0] \subseteq Ball[e]
    <3>1. 0 \in Nat /\ 0 <= e
      OBVIOUS
    <3> QED BY <3>1, BallsContain
  <2> QED BY <2>1
<1>2. ASSUME NEW d \in T PROVE d + 1 \in T
  <2> SUFFICES ASSUME NEW n \in Ball[d + 1] PROVE n \in Ball[e]
    OBVIOUS
  <2>1. CASE n \in Ball[d]
    BY <2>1
  <2>2. CASE n \notin Ball[d]
    <3>1. PICK m \in Ball[d] : Passable(m) /\ n \in Next_(m)
      BY <2>2 DEF BallFacts
    <3>2. m \in Ball[e]
      OBVIOUS
    <3>3. n \in Ball[e + 1]
      BY <3>1, <3>2 DEF BallFacts
    <3> QED BY <3>3
  <2> QED BY <2>1, <2>2
<1>3. \A d \in Nat : d \in T
  <2>1. T \subseteq Nat
    OBVIOUS
  <2> HIDE DEF T
  <2> QED BY <1>1, <1>2, <2>1, Counting
<1> QED BY <1>3

Growing(d) == \A e \in Nat : e < d => ~(Ball[e + 1] \subseteq Ball[e])

LEMMA GrowingBalls ==
  ASSUME IsFiniteSet(Nodes), BallFacts
  PROVE  \A d \in Nat : Growing(d) => Cardinality(Ball[d]) >= d
<1> DEFINE T == {d \in Nat : Growing(d) => Cardinality(Ball[d]) >= d}
<1>1. \A d \in Nat : IsFiniteSet(Ball[d]) /\ Cardinality(Ball[d]) \in Nat
  <2> TAKE d \in Nat
  <2>1. Ball[d] \in SUBSET Nodes
    BY DEF BallFacts
  <2>2. IsFiniteSet(Ball[d])
    BY <2>1, FS_Subset
  <2> QED BY <2>2, FS_CardinalityType
<1>2. 0 \in T
  <2>1. Cardinality(Ball[0]) >= 0
    BY <1>1
  <2> QED BY <2>1
<1>3. ASSUME NEW d \in T PROVE d + 1 \in T
  <2> SUFFICES ASSUME Growing(d + 1) PROVE Cardinality(Ball[d + 1]) >= d + 1
    OBVIOUS
  <2>1. Growing(d) /\ ~(Ball[d + 1] \subseteq Ball[d])
    <3>1. d < d + 1 /\ \A e \in Nat : e < d => e < d + 1
      OBVIOUS
    <3> QED BY <3>1 DEF Growing
  <2>2. Cardinality(Ball[d]) >= d
    BY <2>1
  <2>3. Ball[d] \in SUBSET Ball[d + 1]
    BY DEF BallFacts
  <2>4. d + 1 \in Nat
    OBVIOUS
  <2> DEFINE a == Cardinality(Ball[d])
             b == Cardinality(Ball[d + 1])
  <2>5. a \in Nat /\ b \in Nat
    BY <1>1, <2>4
  <2>6. IsFiniteSet(Ball[d + 1])
    BY <1>1, <2>4
  <2>7. a <= b /\ (b = a => Ball[d + 1] = Ball[d])
    BY <2>3, <2>6, FS_Subset
  <2>8. b # a
    BY <2>1, <2>7
  <2>9. b >= d + 1
    <3>1. a >= d
      BY <2>2
    <3> HIDE DEF a, b
    <3> QED BY <2>5, <2>7, <2>8, <3>1
  <2> QED BY <2>9
<1>4. \A d \in Nat : d \in T
  <2>1. T \subseteq Nat
    OBVIOUS
  <2> HIDE DEF T
  <2> QED BY <1>2, <1>3, <2>1, Counting
<1> QED BY <1>4

LEMMA EverythingIsAll ==
  ASSUME IsFiniteSet(Nodes), BallFacts
  PROVE  \A d \in Nat : Ball[d] \subseteq Everything
<1> DEFINE N == Cardinality(Nodes)
<1>1. N \in Nat
  BY FS_CardinalityType
<1>2. \E e \in Nat : e <= N /\ Ball[e + 1] \subseteq Ball[e]
  <2>1. CASE Growing(N)
    <3>1. Cardinality(Ball[N]) >= N
      BY <1>1, <2>1, GrowingBalls
    <3>2. Ball[N] \in SUBSET Nodes
      BY <1>1 DEF BallFacts
    <3>3. IsFiniteSet(Ball[N]) /\ Cardinality(Ball[N]) <= N
          /\ (N = Cardinality(Ball[N]) => Nodes = Ball[N])
      BY <3>2, FS_Subset
    <3>4. Cardinality(Ball[N]) \in Nat
      BY <3>3, FS_CardinalityType
    <3>5. N = Cardinality(Ball[N])
      <4> DEFINE c == Cardinality(Ball[N])
      <4>1. c \in Nat /\ c >= N /\ c <= N
        BY <3>1, <3>3, <3>4
      <4>2. N = c
        <5> HIDE DEF c, N
        <5> QED BY <1>1, <4>1
      <4> QED BY <4>2
    <3>6. Ball[N + 1] \subseteq Ball[N]
      <4>1. N + 1 \in Nat
        BY <1>1
      <4>2. Ball[N + 1] \in SUBSET Nodes
        BY <4>1 DEF BallFacts
      <4> QED BY <3>3, <3>5, <4>2
    <3>7. N <= N
      BY <1>1
    <3> QED BY <1>1, <3>6, <3>7
  <2>2. CASE ~Growing(N)
    <3>1. PICK e \in Nat : e < N /\ Ball[e + 1] \subseteq Ball[e]
      BY <2>2 DEF Growing
    <3>2. e <= N
      BY <1>1, <3>1
    <3> QED BY <3>1, <3>2
  <2> QED BY <2>1, <2>2
<1>3. PICK e \in Nat : e <= N /\ Ball[e + 1] \subseteq Ball[e]
  BY <1>2
<1>4. Ball[e] \subseteq Ball[N]
  BY <1>1, <1>3, BallsContain
<1>5. \A d \in Nat : Ball[d] \subseteq Ball[e]
  BY <1>3, BallsStop
<1> QED BY <1>4, <1>5 DEF Everything, Within

LEMMA DepthsAreLeastOnes == IsFiniteSet(Nodes) /\ SearchInv => DepthsAreLeast
<1> SUFFICES ASSUME IsFiniteSet(Nodes), SearchInv, search = "depths", queue = <<>>,
                    NEW s \in symbols
             PROVE  IF s \in Everything
                    THEN s \in Within(depth[s])
                         /\ (depth[s] > 0 => s \notin Within(depth[s] - 1))
                    ELSE depth[s] = 0
  BY DEF DepthsAreLeast
<1>1. Ended
  BY SearchEnded
<1>2. /\ BallFacts /\ symbols \subseteq Nodes /\ marked \in SUBSET Nodes
      /\ depth \in [Nodes -> Nat]
      /\ \A n \in marked : n \in Ball[depth[n]]
      /\ \A n : ~Queued(n)
  BY <1>1 DEF Ended
<1>3. \A m \in marked : Closed(m)
  BY <1>2 DEF SearchInv, EagerQueue, Eager, Extends
<1>4. Cardinality(Nodes) \in Nat
  BY FS_CardinalityType
<1>5. CASE s \in Everything
  <2>1. s \in Ball[Cardinality(Nodes)]
    BY <1>5 DEF Everything, Within
  <2>2. s \in marked
    BY <1>1, <1>3, <1>4, <2>1, LeastDepth
  <2>3. depth[s] \in Nat /\ depth[s] <= depth[s]
    BY <1>2, <2>2
  <2>4. depth[s] > 0 => s \notin Ball[depth[s] - 1]
    BY <1>1, <1>3, <2>2, <2>3, LeastDepth
  <2> QED BY <1>2, <1>5, <2>2, <2>4 DEF Within
<1>6. CASE s \notin Everything
  <2>1. ASSUME s \in marked PROVE FALSE
    <3>1. s \in Ball[depth[s]] /\ depth[s] \in Nat
      BY <1>2, <2>1
    <3> QED BY <1>2, <1>6, <3>1, EverythingIsAll
  <2>2. s \in Nodes \ marked
    BY <1>2, <2>1
  <2>3. depth[s] = 0
    BY <2>2 DEF SearchInv, StartsAreMarked
  <2> QED BY <1>6, <2>3
<1> QED BY <1>5, <1>6

LEMMA UnmarkedAreComplete == IsFiniteSet(Nodes) /\ SearchInv => UnmarkedIsComplete
<1> SUFFICES ASSUME IsFiniteSet(Nodes), SearchInv, search \in {"callers", "callees"},
                    queue = <<>>, ~DepthLimited, limit > 0,
                    \A e \in calls : e \in symbols \X symbols
             PROVE  Everything \ starts \subseteq reported
  BY DEF UnmarkedIsComplete
<1>1. Ended
  BY SearchEnded
<1>2. /\ BallFacts /\ symbols \subseteq Nodes /\ marked \in SUBSET Nodes
      /\ depth \in [Nodes -> Nat] /\ limit \in Nat /\ starts \subseteq symbols
      /\ \A n \in marked : depth[n] > 0 <=> n \notin starts
      /\ \A n : ~Queued(n)
  BY <1>1 DEF Ended
<1>3. \A m \in marked : depth[m] < limit => Closed(m)
  BY <1>2 DEF SearchInv, EagerQueue, Eager, Extends
<1>4. \A n \in Nodes : n \in reported <=> n \in marked /\ n \in symbols /\ depth[n] > 0
  BY <1>2 DEF SearchInv, ReachAnswer
<1>5. \A n \in reported \cap Nodes : depth[n] < limit
  <2> TAKE n \in reported \cap Nodes
  <2>1. ~(depth[n] >= limit) /\ depth[n] \in Nat
    BY <1>2 DEF DepthLimited
  <2> QED BY <1>2, <2>1
<1> DEFINE Found(n) == n \in symbols /\ n \in marked /\ depth[n] < limit
           T == {d \in Nat : \A n \in Ball[d] : Found(n)}
<1>6. 0 \in T
  <2>1. \A n \in starts : n \in marked /\ depth[n] = 0
    BY DEF SearchInv, StartsAreMarked
  <2> QED BY <1>2, <2>1 DEF BallFacts
<1>7. ASSUME NEW d \in T PROVE d + 1 \in T
  <2> SUFFICES ASSUME NEW n \in Ball[d + 1] PROVE Found(n)
    OBVIOUS
  <2>1. CASE n \in Ball[d]
    BY <2>1
  <2>2. CASE n \notin Ball[d]
    <3>1. PICK m \in Ball[d] : n \in Next_(m)
      BY <1>2, <2>2 DEF BallFacts
    <3>2. m \in marked /\ Closed(m) /\ m \in Nodes
      BY <1>2, <1>3
    <3>3. n \in marked
      BY <3>1, <3>2 DEF Closed
    <3>4. <<n, m>> \in calls \/ <<m, n>> \in calls
      BY <3>1 DEF Next_
    <3>5. n \in symbols
      BY <3>4
    <3>6. CASE n \in starts
      <4>1. depth[n] = 0
        BY <3>6 DEF SearchInv, StartsAreMarked
      <4> QED BY <1>2, <3>3, <3>5, <4>1
    <3>7. CASE n \notin starts
      <4>1. n \in reported /\ n \in Nodes
        BY <1>2, <1>4, <3>3, <3>5, <3>7
      <4> QED BY <1>5, <3>3, <3>5, <4>1
    <3> QED BY <3>6, <3>7
  <2> QED BY <2>1, <2>2
<1>8. \A d \in Nat : \A n \in Ball[d] : Found(n)
  <2>1. \A d \in Nat : d \in T
    <3>1. T \subseteq Nat
      OBVIOUS
    <3> HIDE DEF T
    <3> QED BY <1>6, <1>7, <3>1, Counting
  <2> QED BY <2>1
<1>9. ASSUME NEW n \in Everything, n \notin starts PROVE n \in reported
  <2>1. Cardinality(Nodes) \in Nat
    BY FS_CardinalityType
  <2>2. n \in marked /\ n \in symbols
    BY <1>8, <2>1 DEF Everything, Within
  <2> QED BY <1>2, <1>4, <1>9, <2>2
<1> QED BY <1>9

\* The invariant of the searches, for every graph, every question and every depth.
THEOREM SearchesAreSound ==
  ASSUME IsFiniteSet(Nodes) PROVE SearchSpec => []SearchInv
<1>1. SearchInit => SearchInv
  BY InitialInv
<1>2. SearchInv /\ [SearchNext]_searchVars => SearchInv'
  BY SearchStep
<1> QED BY <1>1, <1>2, PTL DEF SearchSpec

\* Searches answer exactly what they are asked (get_callers, get_callees, find_path,
\* detect_impact, calculate_depths): what is in reach and how far it is, a path that is a
\* shortest one, depths that are least, and a mark whenever something was cut off.
THEOREM SearchIsExactAlways ==
  ASSUME IsFiniteSet(Nodes) PROVE SearchSpec => []SearchIsExact
<1>1. SearchInv => SearchIsExact
  BY ReachesExactly, PathsAreShortest, DepthsAreLeastOnes, UnmarkedAreComplete DEF SearchIsExact
<1> QED BY <1>1, SearchesAreSound, PTL

-----------------------------------------------------------------------------
(***************************************************************************)
(* The tracer of execution flows.                                          *)
(***************************************************************************)
\* The path from the entry point to the i-th frame.
PathTo(i) == [j \in 1..i |-> stack[j].uid]

Frames == [uid : Uids, left : SUBSET DOMAIN relations, size : Nat]

TraceTypeOK ==
    /\ relations \in Seq(Uids \X Uids) /\ deep \in Nat /\ most \in Nat
    /\ todo \in SUBSET Uids
    /\ stack \in Seq(Frames)

\* The walk is in the tree, which holds simple paths from the entry point.
WalkIsSimple ==
    stack # <<>> =>
        /\ \A i \in 1..Len(stack) : PathTo(i) \in tree
        /\ tree \subseteq SimplePaths(stack[1].uid, deep)
        /\ \A i \in 1..Len(stack) :
              /\ stack[i].left \subseteq Callees(stack[i].uid)
              /\ stack[i].left # {} => i <= deep

\* What a subtree can hold with k levels below its root.
Holds(k) == IF most = 0 THEN 1 ELSE 1 + k * (most - 1)

SubtreesAreSmall ==
    /\ Len(stack) <= deep + 1
    /\ \A i \in 1..Len(stack) : i < Len(stack) => stack[i].size < most
    /\ \A i \in 1..Len(stack) : stack[i].size <= Holds((deep + 1) - i)

\* A call that extends a path of the tree, and one that was not looked at yet.
Extension(p, c) == <<p[Len(p)], c>> \in ToSet(relations) /\ \A i \in DOMAIN p : p[i] # c
Pending(p, c) ==
    \E i \in 1..Len(stack) : p = PathTo(i) /\ \E k \in stack[i].left : relations[k][2] = c

\* Nothing is missing from the tree but what is still to be walked, unless the topmost frame
\* is full.
NothingIsMissed ==
    stack # <<>> =>
        \/ Top.size >= most
        \/ \A p \in tree : Len(p) <= deep =>
              \A c \in Uids : Extension(p, c) => Append(p, c) \in tree \/ Pending(p, c)

TraceInv ==
    TraceTypeOK /\ WalkIsSimple /\ SubtreesAreSmall /\ NothingIsMissed /\ TraceIsFaithful


-----------------------------------------------------------------------------
\* Simple paths.
Steps(p) == \A i \in 2..Len(p) : <<p[i - 1], p[i]>> \in ToSet(relations)

LEMMA SimplePath ==
  ASSUME NEW e, NEW d \in Nat, NEW p
  PROVE  p \in SimplePaths(e, d) <=>
           \E k \in 1..(d + 1) : /\ p \in [1..k -> Uids] /\ p[1] = e /\ Steps(p)
                                 /\ \A i, j \in 1..k : p[i] = p[j] => i = j
<1>1. ASSUME NEW k \in 1..(d + 1), p \in [1..k -> Uids]
      PROVE  IsInjective(p) <=> \A i, j \in 1..k : p[i] = p[j] => i = j
  BY <1>1 DEF IsInjective
<1> QED BY <1>1 DEF SimplePaths, Steps

LEMMA SimplePathFacts ==
  ASSUME NEW e, NEW d \in Nat, NEW p \in SimplePaths(e, d)
  PROVE  /\ p \in Seq(Uids) /\ Len(p) \in 1..(d + 1) /\ p[1] = e /\ Steps(p)
         /\ \A i, j \in 1..Len(p) : p[i] = p[j] => i = j
<1>1. PICK k \in 1..(d + 1) : /\ p \in [1..k -> Uids] /\ p[1] = e /\ Steps(p)
                              /\ \A i, j \in 1..k : p[i] = p[j] => i = j
  BY SimplePath
<1>2. p \in Seq(Uids) /\ Len(p) = k
  BY <1>1
<1> QED BY <1>1, <1>2

LEMMA IsSimplePath ==
  ASSUME NEW e, NEW d \in Nat, NEW p \in Seq(Uids), Len(p) \in 1..(d + 1), p[1] = e, Steps(p),
         \A i, j \in 1..Len(p) : p[i] = p[j] => i = j
  PROVE  p \in SimplePaths(e, d)
<1>1. p \in [1..Len(p) -> Uids]
  OBVIOUS
<1> QED BY <1>1, SimplePath

\* A simple path that is short enough is extended by a call to a node it has not met.
LEMMA SimpleExtension ==
  ASSUME NEW e, NEW d \in Nat, NEW p \in SimplePaths(e, d), Len(p) <= d, NEW c \in Uids,
         Extension(p, c)
  PROVE  Append(p, c) \in SimplePaths(e, d)
<1> DEFINE q == Append(p, c)
           n == Len(p)
<1>1. /\ p \in Seq(Uids) /\ n \in 1..(d + 1) /\ p[1] = e /\ Steps(p)
      /\ \A i, j \in 1..n : p[i] = p[j] => i = j
  BY SimplePathFacts
<1>2. /\ q \in Seq(Uids) /\ Len(q) = n + 1 /\ q[n + 1] = c
      /\ \A i \in 1..n : q[i] = p[i]
  BY <1>1
<1>3. n \in Nat /\ n >= 1 /\ n <= d
  BY <1>1
<1> HIDE DEF q
<1>4. <<p[n], c>> \in ToSet(relations) /\ \A i \in 1..n : p[i] # c
  BY <1>1 DEF Extension
<1>5. Steps(q)
  <2> SUFFICES ASSUME NEW i \in 2..Len(q) PROVE <<q[i - 1], q[i]>> \in ToSet(relations)
    BY DEF Steps
  <2>1. CASE i = n + 1
    <3>1. i - 1 = n /\ n \in 1..n
      BY <1>3, <2>1
    <3> QED BY <1>2, <1>4, <2>1, <3>1
  <2>2. CASE i # n + 1
    <3>1. i \in 2..n /\ i \in 1..n /\ i - 1 \in 1..n
      BY <1>2, <1>3, <2>2
    <3> QED BY <1>1, <1>2, <3>1 DEF Steps
  <2> QED BY <2>1, <2>2
<1>6. ASSUME NEW i \in 1..(n + 1), NEW j \in 1..(n + 1), q[i] = q[j] PROVE i = j
  <2>1. CASE i \in 1..n /\ j \in 1..n
    BY <1>1, <1>2, <1>6, <2>1
  <2>2. CASE i \in 1..n /\ j = n + 1
    BY <1>2, <1>4, <1>6, <2>2
  <2>3. CASE i = n + 1 /\ j \in 1..n
    BY <1>2, <1>4, <1>6, <2>3
  <2>4. CASE i = n + 1 /\ j = n + 1
    BY <2>4
  <2> QED BY <1>3, <2>1, <2>2, <2>3, <2>4
<1>7. Len(q) \in 1..(d + 1) /\ q[1] = e
  BY <1>1, <1>2, <1>3
<1>8. \A i, j \in 1..Len(q) : q[i] = q[j] => i = j
  BY <1>2, <1>6
<1>9. q \in SimplePaths(e, d)
  BY <1>2, <1>5, <1>7, <1>8, IsSimplePath
<1> QED BY <1>9 DEF q

\* A set that has the node alone and every extension of its own has every simple path.
LEMMA SimpleClosure ==
  ASSUME NEW e \in Uids, NEW d \in Nat, NEW S, <<e>> \in S,
         \A p \in S : p \in SimplePaths(e, d) /\ Len(p) <= d =>
            \A c \in Uids : Extension(p, c) => Append(p, c) \in S
  PROVE  SimplePaths(e, d) \subseteq S
<1> DEFINE T == {k \in Nat : \A p \in SimplePaths(e, d) : Len(p) = k + 1 => p \in S}
<1>1. 0 \in T
  <2> SUFFICES ASSUME NEW p \in SimplePaths(e, d), Len(p) = 1 PROVE p \in S
    OBVIOUS
  <2>1. p \in Seq(Uids) /\ p[1] = e
    BY SimplePathFacts
  <2>2. p = <<e>>
    BY <2>1
  <2> QED BY <2>2
<1>2. ASSUME NEW k \in T PROVE k + 1 \in T
  <2> SUFFICES ASSUME NEW p \in SimplePaths(e, d), Len(p) = (k + 1) + 1 PROVE p \in S
    OBVIOUS
  <2> DEFINE n == k + 1
             q == [i \in 1..n |-> p[i]]
  <2>1. /\ p \in Seq(Uids) /\ Len(p) \in 1..(d + 1) /\ p[1] = e /\ Steps(p)
        /\ \A i, j \in 1..Len(p) : p[i] = p[j] => i = j
    BY SimplePathFacts
  <2>2. n \in Nat /\ n >= 1 /\ n <= d /\ Len(p) = n + 1 /\ n \in 1..Len(p) /\ n + 1 \in 1..Len(p)
    BY <2>1
  <2>3. \A i \in 1..n : p[i] \in Uids
    BY <2>1, <2>2
  <2>4. q \in Seq(Uids) /\ Len(q) = n /\ \A i \in 1..n : q[i] = p[i]
    BY <2>2, <2>3
  <2>5. p = Append(q, p[n + 1])
    <3>1. Append(q, p[n + 1]) \in Seq(Uids) /\ Len(Append(q, p[n + 1])) = n + 1
      BY <2>1, <2>2, <2>4
    <3>2. \A i \in 1..(n + 1) : Append(q, p[n + 1])[i] = p[i]
      BY <2>2, <2>4
    <3>3. DOMAIN p = 1..(n + 1) /\ DOMAIN Append(q, p[n + 1]) = 1..(n + 1)
          /\ p = [i \in 1..(n + 1) |-> p[i]]
          /\ Append(q, p[n + 1]) = [i \in 1..(n + 1) |-> Append(q, p[n + 1])[i]]
      BY <2>1, <2>2, <3>1
    <3> QED BY <3>2, <3>3
  <2> HIDE DEF q, n
  <2>6. Steps(q)
    <3> SUFFICES ASSUME NEW i \in 2..n PROVE <<q[i - 1], q[i]>> \in ToSet(relations)
      BY <2>4 DEF Steps
    <3>1. i \in 2..Len(p) /\ i \in 1..n /\ i - 1 \in 1..n
      BY <2>2
    <3> QED BY <2>1, <2>4, <3>1 DEF Steps
  <2>7. \A i, j \in 1..Len(q) : q[i] = q[j] => i = j
    <3>1. \A i \in 1..n : i \in 1..Len(p)
      BY <2>2
    <3> QED BY <2>1, <2>4, <3>1
  <2>8. Len(q) \in 1..(d + 1) /\ q[1] = e
    BY <2>1, <2>2, <2>4
  <2>9. q \in SimplePaths(e, d)
    BY <2>4, <2>6, <2>7, <2>8, IsSimplePath
  <2>10. q \in S
    BY <2>4, <2>9 DEF n
  <2>11. Extension(q, p[n + 1])
    <3>1. <<p[(n + 1) - 1], p[n + 1]>> \in ToSet(relations)
      <4>1. n + 1 \in 2..Len(p)
        BY <2>2
      <4> QED BY <2>1, <4>1 DEF Steps
    <3>2. (n + 1) - 1 = n /\ n \in 1..n /\ q[Len(q)] = p[n] /\ DOMAIN q = 1..n
      BY <2>2, <2>4
    <3>3. ASSUME NEW i \in 1..n, q[i] = p[n + 1] PROVE FALSE
      <4>1. i \in 1..Len(p) /\ p[i] = p[n + 1] /\ i # n + 1
        BY <2>2, <2>4, <3>3
      <4> QED BY <2>1, <2>2, <4>1
    <3> QED BY <3>1, <3>2, <3>3 DEF Extension
  <2>12. p[n + 1] \in Uids
    BY <2>1, <2>2
  <2> QED BY <2>2, <2>4, <2>5, <2>9, <2>10, <2>11, <2>12
<1>3. \A k \in Nat : k \in T
  <2>1. T \subseteq Nat
    OBVIOUS
  <2> HIDE DEF T
  <2> QED BY <1>1, <1>2, <2>1, Counting
<1> QED
  <2> SUFFICES ASSUME NEW p \in SimplePaths(e, d) PROVE p \in S
    OBVIOUS
  <2>1. Len(p) \in 1..(d + 1)
    BY SimplePathFacts
  <2>2. Len(p) - 1 \in Nat /\ (Len(p) - 1) + 1 = Len(p)
    BY <2>1
  <2>3. Len(p) - 1 \in T
    BY <1>3, <2>2
  <2> QED BY <2>2, <2>3


-----------------------------------------------------------------------------
\* The topmost frame and the callee it has next.
LEMMA TopIs ==
  ASSUME TraceTypeOK, stack # <<>>
  PROVE  /\ Len(stack) \in Nat /\ Len(stack) >= 1 /\ Len(stack) \in 1..Len(stack)
         /\ Top = stack[Len(stack)] /\ Top \in Frames
         /\ Path = PathTo(Len(stack))
         /\ OnPath = {stack[i].uid : i \in 1..Len(stack)}
<1>1. stack \in Seq(Frames) /\ stack # <<>>
  BY DEF TraceTypeOK
<1>2. Len(stack) \in Nat /\ Len(stack) >= 1 /\ Len(stack) \in 1..Len(stack)
  BY <1>1
<1>3. Top = stack[Len(stack)]
  BY DEF Top, Last
<1>4. DOMAIN stack = 1..Len(stack)
  BY <1>1
<1> QED BY <1>1, <1>2, <1>3, <1>4 DEF Path, PathTo, OnPath

LEMMA CalleeIs ==
  ASSUME TraceTypeOK, stack # <<>>, Top.left # {}
  PROVE  Min(Top.left) \in Top.left /\ Callee \in Uids
<1>1. Top.left \in SUBSET DOMAIN relations /\ relations \in Seq(Uids \X Uids)
  BY TopIs DEF Frames, TraceTypeOK
<1>2. Top.left \subseteq Nat /\ DOMAIN relations = 1..Len(relations)
  BY <1>1
<1>3. \E m \in Top.left : \A n \in Top.left : m <= n
  BY <1>2, LeastNumber
<1>4. Min(Top.left) \in Top.left
  BY <1>3 DEF Min
<1>5. relations[Min(Top.left)] \in Uids \X Uids
  BY <1>1, <1>2, <1>4
<1> QED BY <1>4, <1>5 DEF Callee

LEMMA SameGraph ==
  ASSUME UNCHANGED graphOf
  PROVE  /\ \A e, d : SimplePaths(e, d)' = SimplePaths(e, d)
         /\ \A n : Callees(n)' = Callees(n)
         /\ \A p, c : Extension(p, c)' <=> Extension(p, c)
BY DEF graphOf, SimplePaths, Callees, Extension

\* t is the stack s with fewer callees left for its topmost frame.
Narrowed(s, t) ==
    /\ t \in Seq(Frames) /\ Len(t) = Len(s)
    /\ \A i \in 1..Len(s) : /\ t[i].uid = s[i].uid /\ t[i].size = s[i].size
                            /\ t[i].left \subseteq s[i].left
                            /\ i < Len(s) => t[i] = s[i]

LEMMA Narrows ==
  ASSUME TraceTypeOK, stack # <<>>, NEW some, some \subseteq Top.left,
         NEW t, t = [stack EXCEPT ![Len(stack)].left = some]
  PROVE  Narrowed(stack, t) /\ t[Len(stack)].left = some
<1>1. /\ Len(stack) \in Nat /\ Len(stack) >= 1 /\ Len(stack) \in 1..Len(stack)
      /\ Top = stack[Len(stack)] /\ Top \in Frames
  BY TopIs
<1>2. stack \in Seq(Frames)
  BY DEF TraceTypeOK
<1>3. t = [stack EXCEPT ![Len(stack)] = [stack[Len(stack)] EXCEPT !.left = some]]
  OBVIOUS
<1>f. PICK f : f = [Top EXCEPT !.left = some]
  OBVIOUS
<1>4. f \in Frames /\ f.uid = Top.uid /\ f.size = Top.size /\ f.left = some
  BY <1>1, <1>f DEF Frames
<1>5. t = [stack EXCEPT ![Len(stack)] = f]
  BY <1>1, <1>3, <1>f
<1>6. /\ t \in Seq(Frames) /\ Len(t) = Len(stack) /\ t[Len(stack)] = f
      /\ \A i \in 1..Len(stack) : i # Len(stack) => t[i] = stack[i]
  BY <1>1, <1>2, <1>4, <1>5
<1> QED BY <1>1, <1>4, <1>6 DEF Narrowed

\* Fewer callees left change neither the walk nor the sizes.
LEMMA NarrowedWalk ==
  ASSUME TraceTypeOK, WalkIsSimple, SubtreesAreSmall, stack # <<>>, Narrowed(stack, stack'),
         UNCHANGED <<graphOf, todo, tree>>
  PROVE  TraceTypeOK' /\ WalkIsSimple' /\ SubtreesAreSmall'
<1>1. /\ Len(stack) \in Nat /\ Len(stack) >= 1 /\ Len(stack) \in 1..Len(stack)
  BY TopIs
<1>2. /\ relations' = relations /\ deep' = deep /\ most' = most /\ todo' = todo /\ tree' = tree
  BY DEF graphOf
<1>3. /\ stack' \in Seq(Frames) /\ Len(stack') = Len(stack)
      /\ \A i \in 1..Len(stack) : /\ stack'[i].uid = stack[i].uid
                                  /\ stack'[i].size = stack[i].size
                                  /\ stack'[i].left \subseteq stack[i].left
  BY DEF Narrowed
<1>4. TraceTypeOK'
  BY <1>2, <1>3 DEF TraceTypeOK, Frames
<1>5. \A i \in 1..Len(stack) : PathTo(i)' = PathTo(i)
  <2> TAKE i \in 1..Len(stack)
  <2>1. \A j \in 1..i : j \in 1..Len(stack)
    BY <1>1
  <2> QED BY <1>3, <2>1 DEF PathTo
<1>6. WalkIsSimple'
  <2>1. \A i \in 1..Len(stack) : PathTo(i)' \in tree'
    BY <1>2, <1>5 DEF WalkIsSimple
  <2>3. /\ \A e, d : SimplePaths(e, d)' = SimplePaths(e, d)
        /\ \A n : Callees(n)' = Callees(n)
    BY SameGraph
  <2>4. ASSUME NEW i \in 1..Len(stack)
        PROVE  /\ stack'[i].left \subseteq Callees(stack[i].uid)
               /\ stack'[i].left # {} => i <= deep'
    <3>1. /\ stack[i].left \subseteq Callees(stack[i].uid)
          /\ stack[i].left # {} => i <= deep
      BY DEF WalkIsSimple
    <3> QED BY <1>2, <1>3, <3>1
  <2>5. \A i \in 1..Len(stack) : stack'[i].left \subseteq Callees(stack[i].uid)'
    BY <1>3, <2>3, <2>4
  <2>6. tree' \subseteq SimplePaths(stack[1].uid, deep)'
    <3>1. stack'[1].uid = stack[1].uid
      BY <1>1, <1>3
    <3>2. tree \subseteq SimplePaths(stack[1].uid, deep)
      BY DEF WalkIsSimple
    <3> QED BY <1>2, <2>3, <3>1, <3>2
  <2> QED BY <1>3, <2>1, <2>4, <2>5, <2>6 DEF WalkIsSimple
<1>7. SubtreesAreSmall'
  BY <1>2, <1>3 DEF SubtreesAreSmall, Holds
<1> QED BY <1>4, <1>6, <1>7

\* A callee on the path is no extension of it.
LEMMA SkipStep ==
  ASSUME TraceInv, Skip
  PROVE  TraceInv'
<1>1. stack # <<>> /\ Top.left # {} /\ Callee \in OnPath /\ UNCHANGED <<graphOf, todo, tree, processes>>
  BY DEF Skip, Skipped
<1>2. TraceTypeOK /\ WalkIsSimple /\ SubtreesAreSmall /\ NothingIsMissed /\ TraceIsFaithful
  BY DEF TraceInv
<1>3. /\ Len(stack) \in Nat /\ Len(stack) >= 1 /\ Len(stack) \in 1..Len(stack)
      /\ Top = stack[Len(stack)] /\ Path = PathTo(Len(stack))
      /\ OnPath = {stack[i].uid : i \in 1..Len(stack)}
  BY <1>1, <1>2, TopIs
<1>4. PICK some : some = Top.left \ {Min(Top.left)}
  OBVIOUS
<1>5. stack' = [stack EXCEPT ![Len(stack)].left = some]
  BY <1>3, <1>4 DEF Skip
<1>6. Narrowed(stack, stack') /\ stack'[Len(stack)].left = some
  BY <1>1, <1>2, <1>4, <1>5, Narrows
<1>7. TraceTypeOK' /\ WalkIsSimple' /\ SubtreesAreSmall'
  BY <1>1, <1>2, <1>6, NarrowedWalk
<1>8. NothingIsMissed'
  <2>1. relations' = relations /\ deep' = deep /\ most' = most /\ tree' = tree
    BY <1>1 DEF graphOf
  <2>2. /\ stack' \in Seq(Frames) /\ Len(stack') = Len(stack) /\ Top'.size = Top.size
        /\ \A i \in 1..Len(stack) : stack'[i].uid = stack[i].uid
        /\ \A i \in 1..Len(stack) : i < Len(stack) => stack'[i] = stack[i]
    BY <1>3, <1>6 DEF Narrowed, Top, Last
  <2>3. \A i \in 1..Len(stack) : PathTo(i)' = PathTo(i)
    <3> TAKE i \in 1..Len(stack)
    <3>1. \A j \in 1..i : j \in 1..Len(stack)
      BY <1>3
    <3> QED BY <2>2, <3>1 DEF PathTo
  <2>4. ASSUME NEW p, NEW c, Extension(p, c), Pending(p, c) PROVE Pending(p, c)'
    <3>1. PICK i \in 1..Len(stack) : p = PathTo(i) /\ \E k \in stack[i].left : relations[k][2] = c
      BY <2>4 DEF Pending
    <3>2. PICK k \in stack[i].left : relations[k][2] = c
      BY <3>1
    <3>3. k \in stack'[i].left
      <4>1. CASE i < Len(stack)
        BY <2>2, <3>2, <4>1
      <4>2. CASE ~(i < Len(stack))
        <5>1. i = Len(stack)
          BY <1>3, <4>2
        <5>2. k # Min(Top.left)
          <6>1. PICK j \in 1..Len(stack) : Callee = stack[j].uid
            BY <1>1, <1>3
          <6>2. p[j] = Callee /\ j \in DOMAIN p
            BY <3>1, <5>1, <6>1 DEF PathTo
          <6>3. c # Callee
            BY <2>4, <6>2 DEF Extension
          <6> QED BY <3>2, <6>3 DEF Callee
        <5> QED BY <1>3, <1>4, <1>6, <3>2, <5>1, <5>2
      <4> QED BY <4>1, <4>2
    <3> QED BY <2>1, <2>2, <2>3, <3>1, <3>2, <3>3 DEF Pending
  <2>5. \A p, c : Extension(p, c)' <=> Extension(p, c)
    BY <2>1 DEF Extension
  <2>6. CASE Top.size >= most
    BY <2>1, <2>2, <2>6 DEF NothingIsMissed
  <2>7. CASE ~(Top.size >= most)
    <3>1. \A p \in tree : Len(p) <= deep =>
             \A c \in Uids : Extension(p, c) => Append(p, c) \in tree \/ Pending(p, c)
      BY <1>1, <1>2, <2>7 DEF NothingIsMissed
    <3> QED BY <2>1, <2>4, <2>5, <3>1 DEF NothingIsMissed
  <2> QED BY <2>6, <2>7
<1>9. TraceIsFaithful'
  BY <1>1, <1>2 DEF TraceIsFaithful, SimplePaths, Limit, graphOf
<1> QED BY <1>7, <1>8, <1>9 DEF TraceInv

LEMMA StopStep ==
  ASSUME TraceInv, Stop
  PROVE  TraceInv'
<1>1. /\ stack # <<>> /\ Top.size >= most /\ UNCHANGED <<graphOf, todo, tree, processes>>
      /\ stack' = [stack EXCEPT ![Len(stack)].left = {}]
  BY DEF Stop, Full
<1>2. TraceTypeOK /\ WalkIsSimple /\ SubtreesAreSmall /\ TraceIsFaithful
  BY DEF TraceInv
<1>3. /\ Len(stack) \in Nat /\ Len(stack) >= 1 /\ Len(stack) \in 1..Len(stack)
      /\ Top = stack[Len(stack)]
  BY <1>1, <1>2, TopIs
<1>4. Narrowed(stack, stack')
  BY <1>1, <1>2, Narrows
<1>5. TraceTypeOK' /\ WalkIsSimple' /\ SubtreesAreSmall'
  BY <1>1, <1>2, <1>4, NarrowedWalk
<1>6. Top'.size = Top.size /\ most' = most
  BY <1>1, <1>3, <1>4 DEF Narrowed, Top, Last, graphOf
<1>7. NothingIsMissed'
  BY <1>1, <1>6 DEF NothingIsMissed
<1>8. TraceIsFaithful'
  BY <1>1, <1>2 DEF TraceIsFaithful, SimplePaths, Limit, graphOf
<1> QED BY <1>5, <1>7, <1>8 DEF TraceInv


-----------------------------------------------------------------------------
\* A callee becomes the topmost frame.
Entered(n, t) ==
    /\ t \in Seq(Frames) /\ Len(t) = Len(stack) + 1
    /\ \A i \in 1..Len(stack) : t[i].uid = stack[i].uid /\ t[i].size = stack[i].size
    /\ \A i \in 1..Len(stack) : i < Len(stack) => t[i] = stack[i]
    /\ t[Len(stack)].left = Top.left \ {Min(Top.left)}
    /\ t[Len(stack) + 1].uid = n /\ t[Len(stack) + 1].size = 1
    /\ t[Len(stack) + 1].left = IF Len(stack) >= deep THEN {} ELSE Callees(n)

LEMMA EnterStack ==
  ASSUME TraceTypeOK, Enter
  PROVE  Entered(Callee, stack')
<1>1. stack # <<>> /\ Top.left # {}
  BY DEF Enter
<1>2. /\ Len(stack) \in Nat /\ Len(stack) >= 1 /\ Len(stack) \in 1..Len(stack)
      /\ Top = stack[Len(stack)] /\ Callee \in Uids
  BY <1>1, TopIs, CalleeIs
<1>s. PICK some : some = Top.left \ {Min(Top.left)}
  OBVIOUS
<1>r. PICK rest : rest = [stack EXCEPT ![Len(stack)].left = some]
  OBVIOUS
<1>f. PICK f : f = Frame(Callee, Len(stack))
  OBVIOUS
<1>3. stack' = Append(rest, f)
  BY <1>2, <1>s, <1>r, <1>f DEF Enter
<1>4. Narrowed(stack, rest) /\ rest[Len(stack)].left = some
  BY <1>1, <1>s, <1>r, Narrows
<1>5. f \in Frames
  <2>1. Callees(Callee) \subseteq DOMAIN relations
    BY DEF Callees
  <2> QED BY <1>2, <1>f, <2>1 DEF Frame, Frames
<1>6. /\ rest \in Seq(Frames) /\ Len(rest) = Len(stack)
      /\ \A i \in 1..Len(stack) : rest[i].uid = stack[i].uid /\ rest[i].size = stack[i].size
      /\ \A i \in 1..Len(stack) : i < Len(stack) => rest[i] = stack[i]
  BY <1>4 DEF Narrowed
<1>7. /\ stack' \in Seq(Frames) /\ Len(stack') = Len(stack) + 1 /\ stack'[Len(stack) + 1] = f
      /\ \A i \in 1..Len(stack) : stack'[i] = rest[i]
  BY <1>2, <1>3, <1>5, <1>6
<1>8. f.uid = Callee /\ f.size = 1 /\ f.left = IF Len(stack) >= deep THEN {} ELSE Callees(Callee)
  BY <1>f DEF Frame
<1> QED BY <1>2, <1>4, <1>6, <1>7, <1>8, <1>s DEF Entered

LEMMA HoldsAtLeast ==
  ASSUME most \in Nat, NEW k \in Nat
  PROVE  Holds(k) \in Nat /\ Holds(k) >= 1
<1>1. CASE most = 0
  BY <1>1 DEF Holds
<1>2. CASE most # 0
  <2>1. most - 1 \in Nat
    BY <1>2
  <2>2. k * (most - 1) \in Nat
    BY <2>1
  <2> QED BY <1>2, <2>2 DEF Holds
<1> QED BY <1>1, <1>2

LEMMA HoldsGrows ==
  ASSUME most \in Nat, most # 0, NEW k \in Nat
  PROVE  Holds(k + 1) = Holds(k) + (most - 1)
<1> DEFINE m == most - 1
<1>1. m \in Nat
  OBVIOUS
<1>2. (k + 1) * m = k * m + m
  <2> HIDE DEF m
  <2> QED BY <1>1
<1>3. k * m \in Nat
  <2> HIDE DEF m
  <2> QED BY <1>1
<1>4. Holds(k + 1) = 1 + (k + 1) * m /\ Holds(k) = 1 + k * m
  BY DEF Holds
<1> QED
  <2> HIDE DEF m
  <2>1. Holds(k + 1) = Holds(k) + m
    BY <1>1, <1>2, <1>3, <1>4
  <2> QED BY <2>1 DEF m

\* The next callee extends the path.
LEMMA CalleeExtends ==
  ASSUME TraceTypeOK, WalkIsSimple, stack # <<>>, Top.left # {}, Callee \notin OnPath
  PROVE  /\ Len(stack) <= deep
         /\ PathTo(Len(stack)) \in SimplePaths(stack[1].uid, deep)
         /\ Len(PathTo(Len(stack))) = Len(stack)
         /\ Extension(PathTo(Len(stack)), Callee)
<1>1. /\ Len(stack) \in Nat /\ Len(stack) >= 1 /\ Len(stack) \in 1..Len(stack)
      /\ Top = stack[Len(stack)] /\ Min(Top.left) \in Top.left /\ Callee \in Uids
      /\ OnPath = {stack[i].uid : i \in 1..Len(stack)}
  BY TopIs, CalleeIs
<1>2. /\ Len(stack) <= deep /\ PathTo(Len(stack)) \in SimplePaths(stack[1].uid, deep)
      /\ Top.left \subseteq Callees(Top.uid)
  BY <1>1 DEF WalkIsSimple
<1>p. PICK p : p = PathTo(Len(stack))
  OBVIOUS
<1>3. /\ DOMAIN p = 1..Len(stack) /\ \A i \in 1..Len(stack) : p[i] = stack[i].uid
  BY <1>p DEF PathTo
<1>4. deep \in Nat /\ relations \in Seq(Uids \X Uids)
  BY DEF TraceTypeOK
<1>5. p \in Seq(Uids)
  BY <1>2, <1>4, <1>p, SimplePathFacts
<1>6. Len(p) = Len(stack)
  BY <1>1, <1>3, <1>5
<1>7. <<p[Len(p)], Callee>> \in ToSet(relations)
  <2>1. PICK k : k = Min(Top.left)
    OBVIOUS
  <2>2. k \in DOMAIN relations /\ relations[k][1] = Top.uid
    BY <1>1, <1>2, <2>1 DEF Callees
  <2>3. relations[k] = <<Top.uid, Callee>>
    <3>1. relations[k] \in Uids \X Uids
      BY <1>4, <2>2
    <3> QED BY <2>1, <2>2, <3>1 DEF Callee
  <2>4. p[Len(p)] = Top.uid
    BY <1>1, <1>3, <1>6
  <2> QED BY <2>2, <2>3, <2>4 DEF ToSet
<1>8. \A i \in DOMAIN p : p[i] # Callee
  BY <1>1, <1>3
<1> QED BY <1>2, <1>6, <1>7, <1>8, <1>p DEF Extension

LEMMA EnterStep ==
  ASSUME TraceInv, Enter
  PROVE  TraceInv'
<1>n. PICK n : n = Callee
  OBVIOUS
<1>L. PICK L : L = Len(stack)
  OBVIOUS
<1>m. PICK m : m = Min(Top.left)
  OBVIOUS
<1>1. /\ stack # <<>> /\ Top.left # {} /\ Callee \notin OnPath /\ ~(Top.size >= most)
      /\ UNCHANGED <<graphOf, todo, processes>>
  BY DEF Enter, Skipped, Full
<1>2. TraceTypeOK /\ WalkIsSimple /\ SubtreesAreSmall /\ NothingIsMissed /\ TraceIsFaithful
  BY DEF TraceInv
<1>3. /\ L \in Nat /\ L >= 1 /\ L \in 1..L /\ Top = stack[L] /\ Top \in Frames
      /\ Path = PathTo(L) /\ n \in Uids
  BY <1>n, <1>L, <1>1, <1>2, TopIs, CalleeIs
<1>4. Entered(n, stack')
  BY <1>n, <1>2, EnterStack
<1>5. /\ stack' \in Seq(Frames) /\ Len(stack') = L + 1
      /\ \A i \in 1..L : stack'[i].uid = stack[i].uid /\ stack'[i].size = stack[i].size
      /\ \A i \in 1..L : i < L => stack'[i] = stack[i]
      /\ stack'[L].left = Top.left \ {m}
      /\ stack'[L + 1].uid = n /\ stack'[L + 1].size = 1
      /\ stack'[L + 1].left = IF L >= deep THEN {} ELSE Callees(n)
  BY <1>L, <1>m, <1>4 DEF Entered
<1>6. /\ relations' = relations /\ deep' = deep /\ most' = most /\ todo' = todo
      /\ deep \in Nat /\ most \in Nat /\ relations \in Seq(Uids \X Uids)
      /\ UNCHANGED graphOf
  BY <1>1, <1>2 DEF graphOf, TraceTypeOK
<1>7. /\ L <= deep /\ PathTo(L) \in SimplePaths(stack[1].uid, deep) /\ Len(PathTo(L)) = L
      /\ Extension(PathTo(L), n)
  BY <1>n, <1>L, <1>1, <1>2, CalleeExtends
<1>q. PICK q : q = Append(PathTo(L), n)
  OBVIOUS
<1>8. q \in SimplePaths(stack[1].uid, deep)
  BY <1>3, <1>6, <1>7, <1>q, SimpleExtension
<1>9. tree' = tree \cup {q}
  BY <1>n, <1>3, <1>q DEF Enter
<1>10. \A i \in 1..L : PathTo(i)' = PathTo(i)
  <2> TAKE i \in 1..L
  <2>1. \A j \in 1..i : j \in 1..L
    BY <1>3
  <2> QED BY <1>5, <2>1 DEF PathTo
<1>11. PathTo(L + 1)' = q
  <2>1. PathTo(L) \in Seq(Uids)
    BY <1>6, <1>7, SimplePathFacts
  <2>2. q \in Seq(Uids) /\ Len(q) = L + 1 /\ q[L + 1] = n /\ \A i \in 1..L : q[i] = PathTo(L)[i]
    BY <1>3, <1>7, <1>q, <2>1
  <2>3. \A i \in 1..(L + 1) : q[i] = stack'[i].uid
    <3>1. \A i \in 1..L : q[i] = stack'[i].uid
      BY <1>5, <2>2 DEF PathTo
    <3>2. \A i \in 1..(L + 1) : i \in 1..L \/ i = L + 1
      BY <1>3
    <3> QED BY <1>5, <2>2, <3>1, <3>2
  <2>4. q = [i \in 1..(L + 1) |-> q[i]]
    BY <1>3, <2>2
  <2>5. PathTo(L + 1)' = [i \in 1..(L + 1) |-> stack'[i].uid]
    BY DEF PathTo
  <2> QED BY <2>3, <2>4, <2>5
<1>12. \A i \in 1..(L + 1) : i \in 1..L \/ i = L + 1
  BY <1>3
<1>13. TraceTypeOK'
  BY <1>2, <1>5, <1>6 DEF TraceTypeOK, Frames
<1>14. WalkIsSimple'
  <2>1. \A i \in 1..(L + 1) : PathTo(i)' \in tree'
    BY <1>1, <1>2, <1>9, <1>10, <1>11, <1>12, <1>L DEF WalkIsSimple
  <2>2. tree' \subseteq SimplePaths(stack[1].uid, deep)'
    <3>1. stack'[1].uid = stack[1].uid
      BY <1>3, <1>5
    <3>2. tree' \subseteq SimplePaths(stack[1].uid, deep)
      BY <1>1, <1>2, <1>8, <1>9 DEF WalkIsSimple
    <3>3. SimplePaths(stack[1].uid, deep)' = SimplePaths(stack[1].uid, deep)
      BY <1>6, <3>1, SameGraph
    <3> QED BY <3>2, <3>3
  <2>3. ASSUME NEW i \in 1..(L + 1)
        PROVE  /\ stack'[i].left \subseteq Callees(stack[i].uid)'
               /\ stack'[i].left # {} => i <= deep
    <3>1. \A u : Callees(u)' = Callees(u)
      BY <1>6, SameGraph
    <3>2. CASE i \in 1..L
      <4>1. stack'[i].left \subseteq stack[i].left
        <5>1. CASE i < L
          BY <1>5, <3>2, <5>1
        <5>2. CASE i = L
          BY <1>3, <1>5, <5>2
        <5> QED BY <1>3, <3>2, <5>1, <5>2
      <4>2. stack[i].left \subseteq Callees(stack[i].uid) /\ (stack[i].left # {} => i <= deep)
        BY <1>1, <1>2, <3>2, <1>L DEF WalkIsSimple
      <4>3. stack'[i].uid = stack[i].uid
        BY <1>5, <3>2
      <4> QED BY <3>1, <4>1, <4>2, <4>3
    <3>3. CASE i = L + 1
      <4>1. stack'[i].left \subseteq Callees(n) /\ (stack'[i].left # {} => ~(L >= deep))
        BY <1>5, <3>3
      <4>2. stack'[i].left # {} => i <= deep
        BY <1>3, <1>6, <3>3, <4>1
      <4> QED BY <1>5, <3>1, <3>3, <4>1, <4>2
    <3> QED BY <1>12, <3>2, <3>3
  <2> QED BY <1>5, <1>6, <2>1, <2>2, <2>3 DEF WalkIsSimple
<1>15. SubtreesAreSmall'
  <2>1. Len(stack') <= deep' + 1
    BY <1>3, <1>5, <1>6, <1>7
  <2>2. ASSUME NEW i \in 1..(L + 1), i < L + 1 PROVE stack'[i].size < most
    <3>1. CASE i < L
      <4>1. i \in 1..L
        BY <1>3, <3>1
      <4>2. stack[i].size < most
        BY <1>2, <3>1, <4>1, <1>L DEF SubtreesAreSmall
      <4> QED BY <1>5, <4>1, <4>2
    <3>2. CASE i = L
      <4>1. stack'[i].size = Top.size /\ Top.size \in Nat
        BY <1>3, <1>5, <3>2 DEF Frames
      <4> QED BY <1>1, <1>6, <4>1
    <3> QED BY <1>3, <2>2, <3>1, <3>2
  <2>3. ASSUME NEW i \in 1..(L + 1) PROVE stack'[i].size <= Holds((deep + 1) - i)
    <3>1. CASE i \in 1..L
      BY <1>2, <1>5, <3>1, <1>L DEF SubtreesAreSmall
    <3>2. CASE i = L + 1
      <4>1. (deep + 1) - i \in Nat
        BY <1>3, <1>6, <1>7, <3>2
      <4>2. Holds((deep + 1) - i) \in Nat /\ Holds((deep + 1) - i) >= 1
        BY <1>6, <4>1, HoldsAtLeast
      <4> QED BY <1>5, <3>2, <4>2
    <3> QED BY <1>12, <3>1, <3>2
  <2>4. \A k : Holds(k)' = Holds(k)
    BY <1>6 DEF Holds
  <2>5. ASSUME NEW i \in 1..(L + 1) PROVE stack'[i].size <= Holds((deep + 1) - i)'
    BY <1>6, <2>3, <2>4
  <2> QED BY <1>5, <1>6, <2>1, <2>2, <2>5 DEF SubtreesAreSmall
<1>16. ASSUME NEW p \in tree', Len(p) <= deep, NEW c \in Uids, Extension(p, c)
       PROVE  Append(p, c) \in tree' \/ Pending(p, c)'
  <2>1. CASE p \in tree
    <3>1. Append(p, c) \in tree \/ Pending(p, c)
      BY <1>1, <1>2, <1>16, <2>1 DEF NothingIsMissed
    <3>2. CASE Append(p, c) \in tree
      BY <1>9, <3>2
    <3>3. CASE Pending(p, c)
      <4>1. PICK i \in 1..L : p = PathTo(i) /\ \E k \in stack[i].left : relations[k][2] = c
        BY <3>3, <1>L DEF Pending
      <4>2. PICK k \in stack[i].left : relations[k][2] = c
        BY <4>1
      <4>3. i \in 1..(L + 1)
        BY <1>3
      <4>4. p = PathTo(i)'
        BY <1>10, <4>1
      <4>5. CASE i < L \/ k # m
        <5>1. k \in stack'[i].left
          BY <1>3, <1>5, <4>2, <4>5
        <5> QED BY <1>5, <1>6, <4>2, <4>3, <4>4, <5>1 DEF Pending
      <4>6. CASE i = L /\ k = m
        <5>1. c = n
          BY <1>n, <1>m, <4>2, <4>6 DEF Callee
        <5> QED BY <1>9, <1>q, <4>1, <4>6, <5>1
      <4> QED BY <1>3, <4>5, <4>6
    <3> QED BY <3>1, <3>2, <3>3
  <2>2. CASE p = q
    <3>1. PathTo(L) \in Seq(Uids)
      BY <1>6, <1>7, SimplePathFacts
    <3>2. Len(q) = L + 1 /\ q[L + 1] = n
      BY <1>3, <1>7, <1>q, <3>1
    <3>3. stack'[L + 1].left = Callees(n)
      BY <1>3, <1>5, <1>6, <1>16, <2>2, <3>2
    <3>4. <<n, c>> \in ToSet(relations)
      BY <1>16, <2>2, <3>2 DEF Extension
    <3>5. PICK k \in DOMAIN relations : relations[k] = <<n, c>>
      BY <3>4 DEF ToSet
    <3>6. k \in stack'[L + 1].left /\ relations[k][2] = c
      BY <3>3, <3>5 DEF Callees
    <3>7. L + 1 \in 1..(L + 1)
      BY <1>3
    <3> QED BY <1>5, <1>6, <1>11, <2>2, <3>6, <3>7 DEF Pending
  <2> QED BY <1>9, <2>1, <2>2
<1>17. NothingIsMissed'
  <2>1. \A p, c : Extension(p, c)' <=> Extension(p, c)
    BY <1>6, SameGraph
  <2> QED BY <1>6, <1>16, <2>1 DEF NothingIsMissed
<1>18. TraceIsFaithful'
  BY <1>1, <1>2 DEF TraceIsFaithful, SimplePaths, Limit, graphOf
<1> QED BY <1>13, <1>14, <1>15, <1>17, <1>18 DEF TraceInv


-----------------------------------------------------------------------------
\* A frame that is done leaves, and its parent counts the subtree.
Left(t) ==
    /\ t \in Seq(Frames) /\ Len(t) = Len(stack) - 1
    /\ \A i \in 1..(Len(stack) - 1) : t[i].uid = stack[i].uid /\ t[i].left = stack[i].left
    /\ \A i \in 1..(Len(stack) - 1) : i < Len(stack) - 1 => t[i] = stack[i]
    /\ t[Len(stack) - 1].size = stack[Len(stack) - 1].size + Top.size

LEMMA LeaveStack ==
  ASSUME TraceTypeOK, Leave
  PROVE  Left(stack')
<1>L. PICK L : L = Len(stack)
  OBVIOUS
<1>1. stack \in Seq(Frames) /\ stack # <<>> /\ L > 1
  BY <1>L DEF TraceTypeOK, Leave
<1>2. L \in Nat /\ L - 1 \in 1..L /\ Top = stack[L] /\ Top \in Frames /\ L - 1 \in 1..(L - 1)
  BY <1>L, <1>1, TopIs
<1>r. PICK rest : rest = Front(stack)
  OBVIOUS
<1>3. /\ rest \in Seq(Frames) /\ Len(rest) = L - 1
      /\ \A i \in 1..(L - 1) : rest[i] = stack[i]
  BY <1>L, <1>1, <1>2, <1>r DEF Front
<1>s. PICK s : s = stack[L - 1].size + Top.size
  OBVIOUS
<1>f. PICK f : f = [rest[L - 1] EXCEPT !.size = s]
  OBVIOUS
<1>4. rest[L - 1] = stack[L - 1] /\ stack[L - 1] \in Frames
  BY <1>1, <1>2, <1>3, <1>L
<1>5. s \in Nat
  BY <1>2, <1>4, <1>s DEF Frames
<1>6. f \in Frames /\ f.uid = stack[L - 1].uid /\ f.left = stack[L - 1].left /\ f.size = s
  BY <1>4, <1>5, <1>f DEF Frames
<1>7. stack' = [rest EXCEPT ![L - 1] = f]
  BY <1>L, <1>r, <1>s, <1>f, <1>4 DEF Leave
<1>8. /\ stack' \in Seq(Frames) /\ Len(stack') = L - 1 /\ stack'[L - 1] = f
      /\ \A i \in 1..(L - 1) : i # L - 1 => stack'[i] = rest[i]
  BY <1>2, <1>3, <1>6, <1>7
<1>9. ASSUME NEW i \in 1..(L - 1)
      PROVE  /\ stack'[i].uid = stack[i].uid /\ stack'[i].left = stack[i].left
             /\ i < L - 1 => stack'[i] = stack[i]
  <2>1. CASE i = L - 1
    BY <1>2, <1>6, <1>8, <2>1
  <2>2. CASE i # L - 1
    <3>1. stack'[i] = stack[i]
      BY <1>3, <1>8, <2>2
    <3> QED BY <3>1
  <2> QED BY <2>1, <2>2
<1> QED BY <1>6, <1>8, <1>9, <1>L, <1>s DEF Left

LEMMA LeaveStep ==
  ASSUME TraceInv, Leave
  PROVE  TraceInv'
<1>L. PICK L : L = Len(stack)
  OBVIOUS
<1>1. L > 1 /\ Top.left = {} /\ UNCHANGED <<graphOf, todo, tree, processes>>
  BY <1>L DEF Leave
<1>2. TraceTypeOK /\ WalkIsSimple /\ SubtreesAreSmall /\ NothingIsMissed /\ TraceIsFaithful
  BY DEF TraceInv
<1>3. stack # <<>> /\ L \in Nat
  <2>1. stack \in Seq(Frames)
    BY <1>2 DEF TraceTypeOK
  <2> QED BY <1>1, <1>L, <2>1
<1>4. /\ L - 1 \in 1..(L - 1) /\ L \in 1..L /\ Top = stack[L] /\ Top \in Frames
      /\ \A i \in 1..(L - 1) : i \in 1..L
  BY <1>L, <1>1, <1>2, <1>3, TopIs
<1>5. Left(stack')
  BY <1>2, LeaveStack
<1>6. /\ stack' \in Seq(Frames) /\ Len(stack') = L - 1
      /\ \A i \in 1..(L - 1) : stack'[i].uid = stack[i].uid /\ stack'[i].left = stack[i].left
      /\ \A i \in 1..(L - 1) : i < L - 1 => stack'[i] = stack[i]
      /\ stack'[L - 1].size = stack[L - 1].size + Top.size
  BY <1>L, <1>5 DEF Left
<1>7. /\ relations' = relations /\ deep' = deep /\ most' = most /\ todo' = todo /\ tree' = tree
      /\ deep \in Nat /\ most \in Nat /\ UNCHANGED graphOf
      /\ stack \in Seq(Frames)
  BY <1>1, <1>2 DEF graphOf, TraceTypeOK
<1>8. TraceTypeOK'
  BY <1>2, <1>6, <1>7 DEF TraceTypeOK, Frames
<1>9. \A i \in 1..(L - 1) : PathTo(i)' = PathTo(i)
  <2> TAKE i \in 1..(L - 1)
  <2>1. \A j \in 1..i : j \in 1..(L - 1)
    BY <1>3
  <2> QED BY <1>6, <2>1 DEF PathTo
<1>10. WalkIsSimple'
  <2>1. \A i \in 1..(L - 1) : PathTo(i)' \in tree'
    BY <1>2, <1>3, <1>4, <1>7, <1>9, <1>L DEF WalkIsSimple
  <2>2. tree' \subseteq SimplePaths(stack[1].uid, deep)'
    <3>1. stack'[1].uid = stack[1].uid
      BY <1>1, <1>3, <1>6
    <3>2. tree \subseteq SimplePaths(stack[1].uid, deep)
      BY <1>2, <1>3 DEF WalkIsSimple
    <3>3. SimplePaths(stack[1].uid, deep)' = SimplePaths(stack[1].uid, deep)
      BY <1>7, <3>1, SameGraph
    <3> QED BY <1>7, <3>2, <3>3
  <2>3. ASSUME NEW i \in 1..(L - 1)
        PROVE  /\ stack'[i].left \subseteq Callees(stack[i].uid)'
               /\ stack'[i].left # {} => i <= deep
    <3>1. \A u : Callees(u)' = Callees(u)
      BY <1>7, SameGraph
    <3>2. stack[i].left \subseteq Callees(stack[i].uid) /\ (stack[i].left # {} => i <= deep)
      BY <1>2, <1>3, <1>4, <1>L DEF WalkIsSimple
    <3> QED BY <1>6, <3>1, <3>2
  <2> QED BY <1>6, <1>7, <2>1, <2>2, <2>3 DEF WalkIsSimple
<1>11. /\ L <= deep + 1
       /\ \A i \in 1..L : i < L => stack[i].size < most
       /\ \A i \in 1..L : stack[i].size <= Holds((deep + 1) - i)
  BY <1>2, <1>L DEF SubtreesAreSmall
<1>12. stack'[L - 1].size <= Holds((deep + 1) - (L - 1))
  <2>p. PICK k : k = (deep + 1) - L
    OBVIOUS
  <2>1. k \in Nat /\ (deep + 1) - (L - 1) = k + 1
    BY <1>3, <1>7, <1>11, <2>p
  <2>2. stack[L - 1].size < most /\ Top.size <= Holds(k)
    BY <1>3, <1>4, <1>11, <2>p
  <2>3. stack[L - 1].size \in Nat /\ Top.size \in Nat
    <3>1. stack[L - 1] \in Frames
      BY <1>4, <1>7, <1>L
    <3> QED BY <1>4, <3>1 DEF Frames
  <2>4. most # 0
    BY <1>7, <2>2, <2>3
  <2>5. Holds(k + 1) = Holds(k) + (most - 1) /\ Holds(k) \in Nat
    BY <1>7, <2>1, <2>4, HoldsGrows, HoldsAtLeast
  <2> DEFINE a == stack[L - 1].size
             b == Top.size
             h == Holds(k)
  <2>6. a + b <= h + (most - 1)
    <3>1. a \in Nat /\ b \in Nat /\ h \in Nat /\ a < most /\ b <= h
      BY <2>2, <2>3, <2>5
    <3> HIDE DEF a, b, h
    <3> QED BY <1>7, <3>1
  <2> QED BY <1>6, <2>1, <2>5, <2>6
<1>13. SubtreesAreSmall'
  <2>1. Len(stack') <= deep' + 1
    BY <1>3, <1>6, <1>7, <1>11
  <2>2. ASSUME NEW i \in 1..(L - 1), i < L - 1 PROVE stack'[i].size < most
    <3>1. i \in 1..L /\ i < L
      BY <1>3, <2>2
    <3> QED BY <1>6, <1>11, <2>2, <3>1
  <2>3. ASSUME NEW i \in 1..(L - 1) PROVE stack'[i].size <= Holds((deep + 1) - i)
    <3>1. CASE i < L - 1
      BY <1>4, <1>6, <1>11, <3>1
    <3>2. CASE ~(i < L - 1)
      <4>1. i = L - 1
        BY <1>3, <3>2
      <4> QED BY <1>12, <4>1
    <3> QED BY <3>1, <3>2
  <2>4. \A k : Holds(k)' = Holds(k)
    BY <1>7 DEF Holds
  <2>5. ASSUME NEW i \in 1..(L - 1) PROVE stack'[i].size <= Holds((deep + 1) - i)'
    BY <1>7, <2>3, <2>4
  <2> QED BY <1>6, <1>7, <2>1, <2>2, <2>5 DEF SubtreesAreSmall
<1>14. ASSUME NEW p, NEW c, Pending(p, c) PROVE Pending(p, c)'
  <2>1. PICK i \in 1..L : p = PathTo(i) /\ \E k \in stack[i].left : relations[k][2] = c
    BY <1>14, <1>L DEF Pending
  <2>2. i \in 1..(L - 1)
    <3>1. i # L
      BY <1>1, <1>4, <2>1
    <3> QED BY <1>3, <3>1
  <2>3. stack'[i].left = stack[i].left /\ PathTo(i)' = PathTo(i)
    BY <1>6, <1>9, <2>2
  <2> QED BY <1>6, <1>7, <2>1, <2>2, <2>3 DEF Pending
<1>15. NothingIsMissed'
  <2>1. \A p, c : Extension(p, c)' <=> Extension(p, c)
    BY <1>7, SameGraph
  <2>2. CASE Top.size >= most
    <3>1. Top'.size = stack[L - 1].size + Top.size
      BY <1>6 DEF Top, Last
    <3>2. stack[L - 1].size \in Nat /\ Top.size \in Nat
      <4>1. stack[L - 1] \in Frames
        BY <1>4, <1>7, <1>L
      <4> QED BY <1>4, <4>1 DEF Frames
    <3>3. Top'.size >= most
      BY <1>7, <2>2, <3>1, <3>2
    <3> QED BY <1>7, <3>3 DEF NothingIsMissed
  <2>3. CASE ~(Top.size >= most)
    <3>1. \A p \in tree : Len(p) <= deep =>
             \A c \in Uids : Extension(p, c) => Append(p, c) \in tree \/ Pending(p, c)
      BY <1>2, <1>3, <2>3 DEF NothingIsMissed
    <3> QED BY <1>7, <1>14, <2>1, <3>1 DEF NothingIsMissed
  <2> QED BY <2>2, <2>3
<1>16. TraceIsFaithful'
  BY <1>1, <1>2 DEF TraceIsFaithful, SimplePaths, Limit, graphOf
<1> QED BY <1>8, <1>10, <1>13, <1>15, <1>16 DEF TraceInv

\* An entry point's tree begins with itself.
LEMMA TraceStep ==
  ASSUME TraceInv, Trace
  PROVE  TraceInv'
<1>1. TraceTypeOK /\ TraceIsFaithful
  BY DEF TraceInv
<1>2. PICK e \in todo : /\ todo' = todo \ {e} /\ stack' = <<Frame(e, 0)>> /\ tree' = {<<e>>}
                        /\ UNCHANGED <<graphOf, processes>>
  BY DEF Trace
<1>3. /\ relations' = relations /\ deep' = deep /\ most' = most /\ UNCHANGED graphOf
      /\ deep \in Nat /\ most \in Nat /\ relations \in Seq(Uids \X Uids) /\ e \in Uids
  BY <1>1, <1>2 DEF graphOf, TraceTypeOK
<1>f. PICK f : f = Frame(e, 0)
  OBVIOUS
<1>4. /\ f \in Frames /\ f.uid = e /\ f.size = 1
      /\ f.left = (IF 0 >= deep THEN {} ELSE Callees(e))
  <2>1. Callees(e) \subseteq DOMAIN relations
    BY DEF Callees
  <2> QED BY <1>3, <1>f, <2>1 DEF Frame, Frames
<1>5. /\ stack' = <<f>> /\ stack' \in Seq(Frames) /\ Len(stack') = 1 /\ stack'[1] = f
      /\ Top' = f
  <2>1. stack' = <<f>> /\ stack' \in Seq(Frames) /\ Len(stack') = 1 /\ stack'[1] = f
    BY <1>2, <1>4, <1>f
  <2> QED BY <2>1 DEF Top, Last
<1>6. TraceTypeOK'
  BY <1>1, <1>2, <1>3, <1>5 DEF TraceTypeOK, Frames
<1>7. PathTo(1)' = <<e>>
  BY <1>4, <1>5 DEF PathTo
<1>8. <<e>> \in SimplePaths(e, deep)
  <2>1. <<e>> \in Seq(Uids) /\ Len(<<e>>) = 1 /\ <<e>>[1] = e
    BY <1>3
  <2>2. Steps(<<e>>)
    BY <2>1 DEF Steps
  <2>3. Len(<<e>>) \in 1..(deep + 1)
    BY <1>3, <2>1
  <2>4. \A i, j \in 1..Len(<<e>>) : <<e>>[i] = <<e>>[j] => i = j
    BY <2>1
  <2> QED BY <1>3, <2>1, <2>2, <2>3, <2>4, IsSimplePath
<1>9. WalkIsSimple'
  <2>1. tree' \subseteq SimplePaths(stack[1].uid, deep)'
    <3>1. SimplePaths(stack[1].uid, deep)' = SimplePaths(e, deep)
      BY <1>3, <1>4, <1>5, SameGraph
    <3> QED BY <1>2, <1>8, <3>1
  <2>2. \A i \in 1..1 : PathTo(i)' \in tree'
    BY <1>2, <1>7
  <2>3. f.left \subseteq Callees(stack[1].uid)' /\ (f.left # {} => 1 <= deep)
    <3>1. Callees(stack[1].uid)' = Callees(e)
      BY <1>3, <1>4, <1>5, SameGraph
    <3>2. f.left \subseteq Callees(e)
      BY <1>4
    <3>3. f.left # {} => 1 <= deep
      BY <1>3, <1>4
    <3> QED BY <3>1, <3>2, <3>3
  <2>4. \A i \in 1..1 : /\ stack'[i].left \subseteq Callees(stack[i].uid)'
                        /\ stack'[i].left # {} => i <= deep'
    BY <1>3, <1>5, <2>3
  <2> QED BY <1>5, <2>1, <2>2, <2>4 DEF WalkIsSimple
<1>10. SubtreesAreSmall'
  <2>1. (deep + 1) - 1 = deep
    BY <1>3
  <2>2. Holds(deep)' \in Nat /\ Holds(deep)' >= 1
    <3>1. Holds(deep) \in Nat /\ Holds(deep) >= 1
      BY <1>3, HoldsAtLeast
    <3> QED BY <1>3, <3>1 DEF Holds
  <2>3. 1 <= Holds((deep + 1) - 1)'
    BY <1>3, <2>1, <2>2
  <2>4. \A i \in 1..1 : stack'[i].size <= Holds((deep + 1) - i)'
    BY <1>4, <1>5, <2>3
  <2> QED BY <1>3, <1>5, <2>4 DEF SubtreesAreSmall
<1>11. ASSUME 1 <= deep, NEW c, Extension(<<e>>, c) PROVE Pending(<<e>>, c)'
  <2>1. <<e, c>> \in ToSet(relations)
    BY <1>11 DEF Extension
  <2>2. PICK k \in DOMAIN relations : relations[k] = <<e, c>>
    BY <2>1 DEF ToSet
  <2>3. k \in stack'[1].left
    BY <1>3, <1>4, <1>5, <1>11, <2>2 DEF Callees
  <2> QED BY <1>3, <1>5, <1>7, <2>2, <2>3 DEF Pending
<1>12. NothingIsMissed'
  <2>1. \A p, c : Extension(p, c)' <=> Extension(p, c)
    BY <1>3, SameGraph
  <2>2. \A p \in tree' : p = <<e>> /\ Len(p) = 1
    BY <1>2
  <2> QED BY <1>3, <1>11, <2>1, <2>2 DEF NothingIsMissed
<1>13. TraceIsFaithful'
  BY <1>1, <1>2 DEF TraceIsFaithful, SimplePaths, Limit, graphOf
<1> QED BY <1>6, <1>9, <1>10, <1>12, <1>13 DEF TraceInv

\* The tree that is reported.
LEMMA TreeIsFaithful ==
  ASSUME TraceInv, Len(stack) = 1, Top.left = {}
  PROVE  /\ tree \subseteq SimplePaths(Top.uid, deep)
         /\ Top.size < most => tree = SimplePaths(Top.uid, deep)
         /\ Top.size <= Limit
<1>1. TraceTypeOK /\ WalkIsSimple /\ SubtreesAreSmall /\ NothingIsMissed
  BY DEF TraceInv
<1>2. stack # <<>> /\ stack \in Seq(Frames)
  BY <1>1 DEF TraceTypeOK
<1>3. Top = stack[1] /\ Top \in Frames /\ Top.uid \in Uids /\ Top.size \in Nat
  BY <1>1, <1>2, TopIs DEF Frames
<1>4. deep \in Nat /\ most \in Nat
  BY <1>1 DEF TraceTypeOK
<1>5. tree \subseteq SimplePaths(Top.uid, deep)
  BY <1>1, <1>2, <1>3 DEF WalkIsSimple
<1>6. Top.size <= Limit
  <2>1. stack[1].size <= Holds((deep + 1) - 1)
    BY <1>1 DEF SubtreesAreSmall
  <2>2. (deep + 1) - 1 = deep
    BY <1>4
  <2> QED BY <1>3, <2>1, <2>2 DEF Holds, Limit
<1>7. ASSUME Top.size < most PROVE SimplePaths(Top.uid, deep) \subseteq tree
  <2>1. \A p, c : ~Pending(p, c)
    BY <1>3 DEF Pending
  <2>2. \A p \in tree : Len(p) <= deep =>
           \A c \in Uids : Extension(p, c) => Append(p, c) \in tree
    <3>1. ~(Top.size >= most)
      BY <1>3, <1>4, <1>7
    <3> QED BY <1>1, <1>2, <2>1, <3>1 DEF NothingIsMissed
  <2>3. <<Top.uid>> \in tree
    <3>1. PathTo(1) \in tree
      BY <1>1, <1>2 DEF WalkIsSimple
    <3>2. PathTo(1) = <<Top.uid>>
      BY <1>3 DEF PathTo
    <3> QED BY <3>1, <3>2
  <2> QED BY <1>3, <1>4, <2>2, <2>3, SimpleClosure
<1> QED BY <1>5, <1>6, <1>7

LEMMA ReportStep ==
  ASSUME TraceInv, Report
  PROVE  TraceInv'
<1>1. /\ Len(stack) = 1 /\ Top.left = {} /\ stack' = <<>> /\ UNCHANGED <<graphOf, todo>>
  BY DEF Report
<1>2. TraceTypeOK /\ TraceIsFaithful
  BY DEF TraceInv
<1>3. /\ tree \subseteq SimplePaths(Top.uid, deep)
      /\ Top.size < most => tree = SimplePaths(Top.uid, deep)
      /\ Top.size <= Limit
  BY <1>1, TreeIsFaithful
<1>4. /\ relations' = relations /\ deep' = deep /\ most' = most /\ todo' = todo
      /\ UNCHANGED graphOf /\ deep \in Nat /\ most \in Nat
  BY <1>1, <1>2 DEF graphOf, TraceTypeOK
<1>5. TraceTypeOK'
  BY <1>1, <1>2, <1>4 DEF TraceTypeOK
<1>6. WalkIsSimple' /\ NothingIsMissed'
  BY <1>1 DEF WalkIsSimple, NothingIsMissed
<1>7. SubtreesAreSmall'
  <2>1. Len(stack') = 0 /\ deep' = deep /\ deep \in Nat
    BY <1>1, <1>4
  <2> QED BY <2>1 DEF SubtreesAreSmall
<1>8. TraceIsFaithful'
  <2>1. /\ \A e : SimplePaths(e, deep)' = SimplePaths(e, deep)
        /\ Limit' = Limit
    BY <1>4, SameGraph DEF Limit
  <2>2. CASE Top.size < 2
    <3>1. processes' = processes
      BY <2>2 DEF Report
    <3> QED BY <1>2, <1>4, <2>1, <3>1 DEF TraceIsFaithful
  <2>3. CASE ~(Top.size < 2)
    <3>r. PICK r : r = [paths |-> tree, steps |-> Top.size]
      OBVIOUS
    <3>u. PICK u : u = Top.uid
      OBVIOUS
    <3>1. processes' = [n \in DOMAIN processes \cup {u} |-> IF n = u THEN r ELSE processes[n]]
      BY <2>3, <3>r, <3>u DEF Report
    <3>2. r.paths = tree /\ r.steps = Top.size
      BY <3>r
    <3>3. ASSUME NEW e \in DOMAIN processes'
          PROVE  /\ processes'[e].paths \subseteq SimplePaths(e, deep)
                 /\ processes'[e].steps < most => processes'[e].paths = SimplePaths(e, deep)
                 /\ processes'[e].steps <= Limit
      <4>1. CASE e = u
        <5>1. processes'[e] = r
          BY <3>1, <4>1
        <5> QED BY <1>3, <3>2, <3>u, <4>1, <5>1
      <4>2. CASE e # u
        <5>1. e \in DOMAIN processes /\ processes'[e] = processes[e]
          BY <3>1, <4>2
        <5> QED BY <1>2, <5>1 DEF TraceIsFaithful
      <4> QED BY <4>1, <4>2
    <3> QED BY <1>4, <2>1, <3>3 DEF TraceIsFaithful
  <2> QED BY <2>2, <2>3
<1> QED BY <1>5, <1>6, <1>7, <1>8 DEF TraceInv

LEMMA TraceInit == ProcessInit => TraceInv
<1> SUFFICES ASSUME ProcessInit PROVE TraceInv
  OBVIOUS
<1>1. PICK k \in 0..MaxCalls : relations \in [1..k -> Uids \X Uids]
  BY DEF ProcessInit
<1>2. relations \in Seq(Uids \X Uids)
  BY <1>1
<1>3. /\ deep \in Nat /\ most \in Nat /\ stack = <<>> /\ tree = {} /\ DOMAIN processes = {}
  BY DEF ProcessInit
<1>4. todo \in SUBSET Uids
  <2>1. EntryPoints \subseteq known /\ known \in SUBSET Uids
    BY DEF ProcessInit, EntryPoints
  <2> QED BY <2>1 DEF ProcessInit
<1>5. stack \in Seq(Frames)
  BY <1>3
<1>6. TraceTypeOK
  BY <1>2, <1>3, <1>4, <1>5 DEF TraceTypeOK
<1>7. WalkIsSimple /\ NothingIsMissed /\ TraceIsFaithful
  BY <1>3 DEF WalkIsSimple, NothingIsMissed, TraceIsFaithful
<1>8. SubtreesAreSmall
  BY <1>3 DEF SubtreesAreSmall
<1> QED BY <1>6, <1>7, <1>8 DEF TraceInv

\* The invariant of the tracer, on every list of calls and with every limit.
THEOREM TracesAreSound == ProcessSpec => []TraceInv
<1>1. ProcessInit => TraceInv
  BY TraceInit
<1>2. TraceInv /\ [ProcessNext]_processVars => TraceInv'
  <2> SUFFICES ASSUME TraceInv, [ProcessNext]_processVars PROVE TraceInv'
    OBVIOUS
  <2>1. CASE UNCHANGED processVars
    <3>1. UNCHANGED graphOf /\ todo' = todo /\ stack' = stack /\ tree' = tree
          /\ processes' = processes
      BY <2>1 DEF processVars
    <3>2. relations' = relations /\ deep' = deep /\ most' = most
      BY <3>1 DEF graphOf
    <3>3. TraceTypeOK' <=> TraceTypeOK
      BY <3>1, <3>2 DEF TraceTypeOK, Frames
    <3>4. WalkIsSimple' <=> WalkIsSimple
      BY <3>1, <3>2 DEF WalkIsSimple, PathTo, SimplePaths, Callees
    <3>5. SubtreesAreSmall' <=> SubtreesAreSmall
      BY <3>1, <3>2 DEF SubtreesAreSmall, Holds
    <3>6. NothingIsMissed' <=> NothingIsMissed
      BY <3>1, <3>2 DEF NothingIsMissed, Top, Extension, Pending, PathTo
    <3>7. TraceIsFaithful' <=> TraceIsFaithful
      BY <3>1, <3>2 DEF TraceIsFaithful, SimplePaths, Limit
    <3> QED BY <3>3, <3>4, <3>5, <3>6, <3>7 DEF TraceInv
  <2> QED BY <2>1, TraceStep, SkipStep, StopStep, EnterStep, LeaveStep, ReportStep DEF ProcessNext
<1> QED BY <1>1, <1>2, PTL DEF ProcessSpec

\* A process shows nothing but paths of calls that meet no node twice, within the depth asked
\* for (build_tree); with fewer nodes than the limit it shows all of them; and its size is
\* bounded by the two limits together.
THEOREM TraceIsFaithfulAlways == ProcessSpec => []TraceIsFaithful
<1>1. TraceInv => TraceIsFaithful
  BY DEF TraceInv
<1> QED BY <1>1, TracesAreSound, PTL
=============================================================================
