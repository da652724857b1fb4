------------------------- MODULE IndexGraph_proofs -------------------------
(***************************************************************************)
(* Proofs about IndexGraph.  Whatever runs do, overlap or stop, the edges  *)
(* between files that no run re-indexed since the last full one are those  *)
(* that full run stored: a run stores edges of the files it read only, and *)
(* deletes edges of rows it collected from the file in hand only.  As long *)
(* as runs do not overlap, no symbol has two rows: a run empties the files *)
(* whose rows it stores.  If none was cut off between two tables, either,  *)
(* every edge has its ends.  And a full run that is alone makes the graph  *)
(* of what it read, whatever it found.                                     *)
(***************************************************************************)
EXTENDS IndexGraph, WellFoundedInduction, TLAPS

(* A set of numbers has a least one, so a file of a set is in it. *)

LEMMA LeastNumber ==
    ASSUME NEW T, T \subseteq Nat, T # {}
    PROVE  \E m \in T : \A n \in T : ~(n < m)
<1> DEFINE R == {ss \in Nat \X Nat : ss[1] < ss[2]}
<1>1. IsWellFoundedOn(R, Nat)
  BY NatLessThanWellFounded DEF OpToRel
<1>2. \E m \in T : \A n \in T : ~(<<n, m>> \in R)
  <2> HIDE DEF R
  <2> QED BY <1>1, WFMin
<1> QED BY <1>2

LEMMA LastIsThere ==
    ASSUME NEW ord \in Seq(Files), NEW S, \E f \in ToSet(ord) : f \in S
    PROVE  LastOf(ord, S) \in ToSet(ord) \cap S
<1> DEFINE T == {n \in Nat : \E i \in DOMAIN ord : ord[i] \in S /\ n = Len(ord) - i}
<1>1. PICK k \in DOMAIN ord : ord[k] \in S
  BY DEF ToSet
<1>2. Len(ord) - k \in T
  BY <1>1
<1>3. PICK m \in T : \A n \in T : ~(n < m)
  <2> HIDE DEF T
  <2>1. T \subseteq Nat
    BY DEF T
  <2> QED BY <1>2, <2>1, LeastNumber
<1>4. PICK i \in DOMAIN ord : ord[i] \in S /\ m = Len(ord) - i
  BY <1>3
<1>5. \A j \in DOMAIN ord : j > i => ord[j] \notin S
  <2> SUFFICES ASSUME NEW j \in DOMAIN ord, j > i, ord[j] \in S PROVE FALSE
    OBVIOUS
  <2>1. Len(ord) - j \in T /\ Len(ord) - j < m
    BY <1>4
  <2> QED BY <1>3, <2>1
<1> QED BY <1>4, <1>5 DEF LastOf, ToSet

LEMMA FirstIsThere ==
    ASSUME NEW ord \in Seq(Files), NEW S, \E f \in ToSet(ord) : f \in S
    PROVE  FirstOf(ord, S) \in ToSet(ord) \cap S
<1> DEFINE T == {i \in DOMAIN ord : ord[i] \in S}
<1>1. T # {} /\ T \subseteq Nat
  BY DEF ToSet
<1>2. PICK i \in T : \A j \in T : ~(j < i)
  <2> HIDE DEF T
  <2> QED BY <1>1, LeastNumber
<1>3. \A j \in DOMAIN ord : j < i => ord[j] \notin S
  BY <1>2
<1> QED BY <1>2, <1>3 DEF FirstOf, ToSet

-----------------------------------------------------------------------------
(* A run stores rows and edges of the files it read. *)

LEMMA RowsOfBatch ==
    ASSUME NEW r, NEW ord \in Seq(Files), NEW src, NEW u \in SymbolRows(r, ord, src)
    PROVE  u.file \in ToSet(ord)
<1>1. PICK f \in Batch(ord, src) :
        u \in {Uid(r, f, i) : i \in src[f].defs}
              \cup {PersonUid(r, ord, src, p) : p \in src[f].people}
  BY DEF SymbolRows
<1>2. ASSUME NEW i, u = Uid(r, f, i) PROVE u.file \in ToSet(ord)
  BY <1>1, <1>2 DEF Uid, Batch
<1>3. ASSUME NEW p \in src[f].people, u = PersonUid(r, ord, src, p) PROVE u.file \in ToSet(ord)
  <2>1. f \in ToSet(ord) /\ f \in Naming(ord, src, p)
    BY <1>1, <1>3 DEF Naming, Batch
  <2>2. FirstOf(ord, Naming(ord, src, p)) \in ToSet(ord)
    BY <2>1, FirstIsThere
  <2> QED BY <1>3, <2>2 DEF PersonUid, Uid
<1> QED BY <1>1, <1>2, <1>3

LEMMA EdgesOfBatch ==
    ASSUME NEW r, NEW k, NEW ord \in Seq(Files), NEW src, NEW e \in EdgeRows(r, k, ord, src)
    PROVE  e.src.file \in ToSet(ord) /\ e.dst.file \in ToSet(ord)
<1>1. CASE e \in CallEdges(r, k, ord, src)
  <2>1. PICK a, b :
          /\ Defining(ord, src, a) # {} /\ Defining(ord, src, b) # {}
          /\ e = Edge(SymbolUid(r, ord, src, a), SymbolUid(r, ord, src, b), "calls")
    BY <1>1 DEF CallEdges
  <2>2. ASSUME NEW n, Defining(ord, src, n) # {}
        PROVE  SymbolUid(r, ord, src, n).file \in ToSet(ord)
    <3>1. LastOf(ord, Defining(ord, src, n)) \in ToSet(ord)
      BY <2>2, LastIsThere DEF Defining, Batch
    <3> QED BY <3>1 DEF SymbolUid, Uid
  <2> QED BY <2>1, <2>2 DEF Edge
<1>2. CASE e \in SentEdges(r, ord, src)
  <2>1. PICK f \in Batch(ord, src) : \E q \in src[f].people :
          e = Edge(Uid(r, f, Text), PersonUid(r, ord, src, q), "sent")
    BY <1>2 DEF SentEdges
  <2>2. PICK p \in src[f].people :
          e = Edge(Uid(r, f, Text), PersonUid(r, ord, src, p), "sent")
    BY <2>1
  <2>3. PersonUid(r, ord, src, p) \in SymbolRows(r, ord, src)
    BY <2>2 DEF SymbolRows
  <2> QED BY <2>2, <2>3, RowsOfBatch DEF Edge, Uid, Batch
<1>3. CASE e \in MentionEdges(r, ord, src)
  <2>1. PICK f \in Batch(ord, src) :
          \E n : \E g \in Defining(ord, src, n) :
            e = Edge(Uid(r, f, Text), Uid(r, g, n), "mentions")
    BY <1>3 DEF MentionEdges
  <2> QED BY <2>1 DEF Edge, Uid, Defining, Batch
<1>4. CASE e \in ContainedEdges(r, ord, src)
  <2>1. PICK u \in SymbolRows(r, ord, src) : e = Edge(u, Uid(r, u.file, Node), "contained")
    BY <1>4 DEF ContainedEdges
  <2> QED BY <2>1, RowsOfBatch DEF Edge, Uid
<1> QED BY <1>1, <1>2, <1>3, <1>4 DEF EdgeRows

-----------------------------------------------------------------------------
(* Rows and edges are typed. *)

LEMMA KeptTyped ==
    ASSUME NEW k, NEW src \in Trees
    PROVE  KeptTexts(k, src) \in Trees
BY DEF KeptTexts, Trees

LEMMA WalkOrderTyped == WalkOrder \in Orders \cup {<<>>} /\ Files = ToSet(WalkOrder)
<1>1. CASE WalkOrder = <<>>
  BY <1>1 DEF Files
<1>2. CASE WalkOrder # <<>>
  <2>1. Len(WalkOrder) \in 1..Len(WalkOrder) /\ WalkOrder \in [1..Len(WalkOrder) -> Files]
    BY <1>2, IndexGraphAssumption
  <2> QED BY <2>1, IndexGraphAssumption DEF Orders, Files
<1> QED BY <1>1, <1>2

LEMMA OrdersAreSequences == Orders \subseteq Seq(Files) \ {<<>>}
<1> SUFFICES ASSUME NEW n \in 1..Len(WalkOrder), NEW s \in [1..n -> Files]
             PROVE  s \in Seq(Files) \ {<<>>}
  BY DEF Orders
<1>1. n \in Nat /\ n > 0
  BY IndexGraphAssumption
<1>2. s \in Seq(Files)
  BY <1>1
<1> QED BY <1>1, <1>2

LEMMA OneFileOrder == \A f \in Files : <<f>> \in Orders
<1> SUFFICES ASSUME NEW f \in Files PROVE <<f>> \in Orders
  OBVIOUS
<1>1. 1 \in 1..Len(WalkOrder)
  BY IndexGraphAssumption DEF Files, ToSet
<1>2. <<f>> \in [1..1 -> Files] /\ IsInjective(<<f>>)
  BY DEF IsInjective
<1> QED BY <1>1, <1>2 DEF Orders

LEMMA SymbolRowsTyped ==
    ASSUME NEW r \in 0..MaxRuns, NEW ord \in Seq(Files), NEW src \in Trees
    PROVE  SymbolRows(r, ord, src) \subseteq Uids
<1> SUFFICES ASSUME NEW u \in SymbolRows(r, ord, src) PROVE u \in Uids
  OBVIOUS
<1>1. PICK f \in Batch(ord, src) :
        u \in {Uid(r, f, i) : i \in src[f].defs}
              \cup {PersonUid(r, ord, src, p) : p \in src[f].people}
  BY DEF SymbolRows
<1>2. \A g \in ToSet(ord) : g \in Files
  BY DEF ToSet
<1>3. f \in ToSet(ord) /\ f \in Files /\ src[f] \in Contents
  BY <1>1, <1>2 DEF Batch, Trees
<1>4. ASSUME NEW i \in src[f].defs, u = Uid(r, f, i) PROVE u \in Uids
  BY <1>3, <1>4, IndexGraphAssumption DEF Uid, Uids, Items
<1>5. ASSUME NEW p \in src[f].people, u = PersonUid(r, ord, src, p) PROVE u \in Uids
  <2>1. f \in Naming(ord, src, p)
    BY <1>1, <1>5 DEF Naming
  <2>2. FirstOf(ord, Naming(ord, src, p)) \in Files
    BY <1>2, <1>3, <2>1, FirstIsThere
  <2> QED BY <1>3, <1>5, <2>2, IndexGraphAssumption DEF PersonUid, Uid, Uids, Items
<1> QED BY <1>1, <1>4, <1>5

LEMMA NodeRowsTyped ==
    ASSUME NEW r \in 0..MaxRuns, NEW ord \in Seq(Files), NEW src
    PROVE  NodeRows(r, ord, src) \subseteq Uids
BY DEF NodeRows, Batch, ToSet, Uid, Uids, Items

LEMMA EdgeRowsTyped ==
    ASSUME NEW r \in 0..MaxRuns, NEW k, NEW ord \in Seq(Files), NEW src \in Trees
    PROVE  EdgeRows(r, k, ord, src) \subseteq Edges
<1> SUFFICES ASSUME NEW e \in EdgeRows(r, k, ord, src) PROVE e \in Edges
  OBVIOUS
<1>1. \A f \in Batch(ord, src) : f \in ToSet(ord) /\ f \in Files /\ src[f] \in Contents
  BY DEF ToSet, Batch, Trees
<1>2. \A f \in Files, i \in Items : Uid(r, f, i) \in Uids
  BY DEF Uid, Uids
<1>3. \A f \in Files : Uid(r, f, Text) \in Uids /\ Uid(r, f, Node) \in Uids
  BY <1>2 DEF Items
<1>4. \A f \in Batch(ord, src) : \A p \in src[f].people : PersonUid(r, ord, src, p) \in Uids
  <2> SUFFICES ASSUME NEW f \in Batch(ord, src), NEW p \in src[f].people
               PROVE  PersonUid(r, ord, src, p) \in SymbolRows(r, ord, src)
    BY SymbolRowsTyped
  <2> QED BY DEF SymbolRows
<1>5. CASE e \in CallEdges(r, k, ord, src)
  <2>1. PICK a, b :
          /\ Defining(ord, src, a) # {} /\ Defining(ord, src, b) # {}
          /\ e = Edge(SymbolUid(r, ord, src, a), SymbolUid(r, ord, src, b), "calls")
    BY <1>5 DEF CallEdges
  <2>2. ASSUME NEW n, Defining(ord, src, n) # {}
        PROVE  SymbolUid(r, ord, src, n) \in Uids
    <3>1. LastOf(ord, Defining(ord, src, n)) \in Files
      BY <2>2, <1>1, LastIsThere DEF Defining
    <3>2. n \in Items
      BY <2>2, <1>1, IndexGraphAssumption DEF Defining, Items
    <3> QED BY <3>1, <3>2, <1>2 DEF SymbolUid
  <2> QED BY <2>1, <2>2 DEF Edge, Edges, Kinds
<1>6. CASE e \in SentEdges(r, ord, src)
  <2>1. PICK f \in Batch(ord, src) : \E p \in src[f].people :
          e = Edge(Uid(r, f, Text), PersonUid(r, ord, src, p), "sent")
    BY <1>6 DEF SentEdges
  <2> QED BY <2>1, <1>1, <1>3, <1>4 DEF Edge, Edges, Kinds
<1>7. CASE e \in MentionEdges(r, ord, src)
  <2>1. PICK f \in Batch(ord, src) :
          \E n \in src[f].mentions : \E g \in Defining(ord, src, n) :
            e = Edge(Uid(r, f, Text), Uid(r, g, n), "mentions")
    BY <1>7 DEF MentionEdges
  <2>2. \A n \in src[f].mentions : n \in Items
    BY <1>1, IndexGraphAssumption DEF Items
  <2>3. \A n \in src[f].mentions : \A g \in Defining(ord, src, n) : Uid(r, g, n) \in Uids
    BY <2>2, <1>1, <1>2 DEF Defining
  <2> QED
    <3>1. PICK n \in src[f].mentions : \E g \in Defining(ord, src, n) :
            e = Edge(Uid(r, f, Text), Uid(r, g, n), "mentions")
      BY <2>1
    <3> QED BY <3>1, <2>3, <1>1, <1>3 DEF Edge, Edges, Kinds
<1>8. CASE e \in ContainedEdges(r, ord, src)
  <2>1. PICK u \in SymbolRows(r, ord, src) : e = Edge(u, Uid(r, u.file, Node), "contained")
    BY <1>8 DEF ContainedEdges
  <2>2. u \in Uids /\ u.file \in Files
    BY SymbolRowsTyped DEF Uids
  <2> QED BY <2>1, <2>2, <1>3 DEF Edge, Edges, Kinds
<1> QED BY <1>5, <1>6, <1>7, <1>8 DEF EdgeRows

-----------------------------------------------------------------------------
(* Files are taken from the head of a list. *)

LEMMA SuffixPoints ==
    ASSUME NEW s \in Seq(Files), NEW t \in Seq(Files)
    PROVE  IsSuffix(t, s) <=> /\ Len(t) <= Len(s)
                              /\ \A i \in 1..Len(t) : t[i] = s[Len(s) - Len(t) + i]
<1> DEFINE rs == Reverse(s)
           rt == Reverse(t)
<1>1. /\ rs \in Seq(Files) /\ Len(rs) = Len(s) /\ \A i \in 1..Len(s) : rs[i] = s[Len(s) - i + 1]
      /\ rt \in Seq(Files) /\ Len(rt) = Len(t) /\ \A i \in 1..Len(t) : rt[i] = t[Len(t) - i + 1]
  BY DEF Reverse
<1> HIDE DEF rs, rt
<1>2. ASSUME Len(t) <= Len(s)
      PROVE  SubSeq(rt, 1, Len(rt)) = SubSeq(rs, 1, Len(rt))
             <=> \A i \in 1..Len(t) : rt[i] = rs[i]
  <2>1. /\ SubSeq(rt, 1, Len(rt)) = [i \in 1..Len(t) |-> rt[i]]
        /\ SubSeq(rs, 1, Len(rt)) = [i \in 1..Len(t) |-> rs[i]]
    BY <1>1, <1>2
  <2> QED BY <2>1
<1>3. ASSUME Len(t) <= Len(s), \A i \in 1..Len(t) : rt[i] = rs[i], NEW i \in 1..Len(t)
      PROVE  t[i] = s[Len(s) - Len(t) + i]
  <2>1. Len(t) - i + 1 \in 1..Len(t) /\ Len(t) - i + 1 \in 1..Len(s)
    BY <1>3
  <2>2. /\ Len(t) - (Len(t) - i + 1) + 1 = i
        /\ Len(s) - (Len(t) - i + 1) + 1 = Len(s) - Len(t) + i
    OBVIOUS
  <2>3. rt[Len(t) - i + 1] = t[i] /\ rs[Len(t) - i + 1] = s[Len(s) - Len(t) + i]
    BY <1>1, <2>1, <2>2
  <2> QED BY <1>3, <2>1, <2>3
<1>4. ASSUME Len(t) <= Len(s), \A i \in 1..Len(t) : t[i] = s[Len(s) - Len(t) + i],
             NEW i \in 1..Len(t)
      PROVE  rt[i] = rs[i]
  <2>1. Len(t) - i + 1 \in 1..Len(t) /\ i \in 1..Len(s)
    BY <1>4
  <2>2. Len(s) - Len(t) + (Len(t) - i + 1) = Len(s) - i + 1
    OBVIOUS
  <2>3. t[Len(t) - i + 1] = s[Len(s) - i + 1]
    BY <1>4, <2>1, <2>2
  <2> QED BY <1>1, <2>1, <2>3
<1> QED BY <1>1, <1>2, <1>3, <1>4 DEF IsSuffix, IsPrefix, rs, rt

LEMMA EmptyFiles == <<>> \in Seq(Files)
OBVIOUS

LEMMA TailOfMore == \A q \in Seq(Files) \ {<<>>} : Len(q) # 1 => Tail(q) # <<>>
<1> SUFFICES ASSUME NEW q \in Seq(Files), q # <<>>, Len(q) # 1 PROVE Len(Tail(q)) # 0
  OBVIOUS
<1> QED OBVIOUS

LEMMA SuffixSelf == \A s \in Seq(Files) : IsSuffix(s, s)
BY SuffixPoints

LEMMA SuffixTail ==
    ASSUME NEW s \in Seq(Files), NEW t \in Seq(Files), t # <<>>, IsSuffix(t, s)
    PROVE  Tail(t) \in Seq(Files) /\ IsSuffix(Tail(t), s)
<1>1. Tail(t) \in Seq(Files) /\ Len(Tail(t)) = Len(t) - 1
      /\ \A i \in 1..Len(Tail(t)) : Tail(t)[i] = t[i + 1]
  OBVIOUS
<1>2. Len(t) <= Len(s) /\ \A i \in 1..Len(t) : t[i] = s[Len(s) - Len(t) + i]
  BY SuffixPoints
<1>3. ASSUME NEW i \in 1..Len(Tail(t)) PROVE Tail(t)[i] = s[Len(s) - Len(Tail(t)) + i]
  <2>1. i + 1 \in 1..Len(t) /\ Len(s) - Len(t) + (i + 1) = Len(s) - Len(Tail(t)) + i
    BY <1>1
  <2> QED BY <1>1, <1>2, <2>1
<1>4. Len(Tail(t)) <= Len(s)
  BY <1>1, <1>2
<1> DEFINE q == Tail(t)
<1>5. q \in Seq(Files) /\ Len(q) <= Len(s) /\ \A i \in 1..Len(q) : q[i] = s[Len(s) - Len(q) + i]
  BY <1>1, <1>3, <1>4
<1>6. IsSuffix(q, s)
  <2> HIDE DEF q
  <2> QED BY <1>5, SuffixPoints
<1> QED BY <1>1, <1>6

-----------------------------------------------------------------------------
(* Types, and what a writer has in hand while it removes a file. *)

Removing == {"collect", "drop symbols", "drop node", "drop edges"}

\* A writer that removes a file has one at the head of its list.
HasFile == \A w \in Writers : pc[w] \in Removing => todo[w] # <<>>

\* Rows are doomed while their file is at the head of the list only.
Doomed ==
    \A w \in Writers :
        /\ pc[w] \notin Removing \ {"collect"} => doomed[w] = {}
        /\ \A u \in doomed[w] : u.file = Head(todo[w])

Hands == WritersOK /\ HasFile /\ Doomed
IInv == TablesOK /\ HistoryOK /\ Hands

LEMMA InitInv == Init => IInv /\ UntouchedKeepEdges
<1> SUFFICES ASSUME Init PROVE IInv /\ UntouchedKeepEdges
  OBVIOUS
<1> USE IndexGraphAssumption
<1> DEFINE texts == KeptTexts("full", tree)
<1>1. tree \in Trees /\ texts \in Trees
  BY KeptTyped DEF Init
<1>2. symbols \subseteq Uids /\ nodes \subseteq Uids /\ edges \subseteq Edges
  <2> HIDE DEF texts
  <2>1. 0 \in 0..MaxRuns
    OBVIOUS
  <2>2. symbols = SymbolRows(0, WalkOrder, texts) /\ nodes = NodeRows(0, WalkOrder, texts)
        /\ edges = EdgeRows(0, "full", WalkOrder, texts)
    BY DEF Init, texts
  <2> QED BY <1>1, <2>1, <2>2, SymbolRowsTyped, NodeRowsTyped, EdgeRowsTyped
<1>3. Nothing \in Trees
  BY DEF Nothing, Trees
<1>4. <<>> \in Seq(Files)
  OBVIOUS
<1>5. TypeOK
  <2>1. TablesOK
    BY <1>1, <1>2 DEF Init, TablesOK
  <2>2. WritersOK
    <3>1. \A w \in Writers : IsSuffix(todo[w], order[w])
      BY <1>4, SuffixSelf DEF Init
    <3> QED BY <1>3, <1>4, <3>1 DEF Init, WritersOK
  <2>3. HistoryOK
    BY <1>1, <1>2 DEF Init, HistoryOK
  <2> QED BY <2>1, <2>2, <2>3 DEF TypeOK
<1>6. HasFile /\ Doomed
  BY DEF Init, HasFile, Doomed, Removing
<1> QED BY <1>5, <1>6 DEF Init, IInv, Hands, TypeOK, UntouchedKeepEdges

(* The ways a writer goes on. *)

LEMMA GotoKeeps ==
    ASSUME Hands, NEW w \in Writers, NEW at, Goto(w, at),
           at \in {"wipe files", "wipe edges", "parse", "drop node", "drop edges",
                  "store symbols", "store files", "store edges"},
           at \in Removing <=> pc[w] \in Removing,
           UNCHANGED <<runs, kind, order, todo, doomed, run, parsed>>
    PROVE  Hands'
<1> USE DEF Hands, Goto
<1>1. WritersOK'
  BY DEF WritersOK
<1>2. HasFile'
  BY DEF WritersOK, HasFile
<1>3. Doomed'
  BY DEF WritersOK, Doomed, Removing
<1> QED BY <1>1, <1>2, <1>3

LEMMA NextRun ==
    ASSUME NEW m \in Nat, NEW n \in 0..m, n < m
    PROVE  n + 1 \in 0..m /\ n + 1 <= n + 1 /\ \A i \in 0..m : i <= n => i <= n + 1
OBVIOUS

LEMMA StartHands ==
    ASSUME TablesOK, Hands, NEW w \in Writers, NEW k \in {"full", "batch", "removal"},
           NEW ord \in Orders \cup {<<>>}, NEW at \in {"wipe symbols", "collect"},
           at = "collect" => ord # <<>>,
           pc[w] = "idle", runs < MaxRuns, runs' = runs + 1,
           run' = [run EXCEPT ![w] = runs + 1], kind' = [kind EXCEPT ![w] = k],
           order' = [order EXCEPT ![w] = ord], todo' = [todo EXCEPT ![w] = ord],
           pc' = [pc EXCEPT ![w] = at],
           UNCHANGED <<tree, edits, symbols, nodes, edges, doomed, parsed>>
    PROVE  TablesOK' /\ Hands'
<1> USE IndexGraphAssumption DEF Hands
<1>1. ord \in Seq(Files) /\ IsSuffix(ord, ord)
  <2>1. ord \in Seq(Files)
    BY EmptyFiles, OrdersAreSequences
  <2> QED BY <2>1, SuffixSelf
<1>2. runs \in 0..MaxRuns /\ runs + 1 \in 0..MaxRuns
      /\ runs + 1 <= runs + 1 /\ \A i \in 0..MaxRuns : i <= runs => i <= runs + 1
  <2>1. MaxRuns \in Nat /\ runs \in 0..MaxRuns
    BY Zenon DEF TablesOK, IndexGraphAssumption
  <2> QED BY <2>1, NextRun, Zenon
<1>3. TablesOK'
  BY <1>2 DEF TablesOK
<1>4. WritersOK'
  <2>1. ASSUME NEW v \in Writers PROVE run'[v] <= runs'
    <3>1. run[v] \in 0..MaxRuns /\ run[v] <= runs /\ run \in [Writers -> 0..MaxRuns]
      BY DEF WritersOK
    <3>2. run'[v] = IF v = w THEN runs + 1 ELSE run[v]
      BY <3>1
    <3> QED BY <1>2, <3>1, <3>2, Zenon
  <2>2. \A v \in Writers : IsSuffix(todo'[v], order'[v])
    BY <1>1 DEF WritersOK
  <2> QED BY <1>1, <1>2, <2>1, <2>2 DEF WritersOK
<1>5. HasFile'
  BY DEF WritersOK, HasFile, Removing
<1>6. Doomed'
  BY DEF WritersOK, Doomed, Removing
<1> QED BY <1>3, <1>4, <1>5, <1>6

LEMMA StartKeeps ==
    ASSUME IInv, NEW w \in Writers, NEW k \in {"full", "batch", "removal"},
           NEW ord \in Orders \cup {<<>>}, NEW at \in {"wipe symbols", "collect"},
           at = "collect" => ord # <<>>, Start(w, k, ord, at)
    PROVE  IInv'
<1>1. TablesOK' /\ Hands'
  BY StartHands, Zenon DEF IInv, Start, Idle, table
<1>2. HistoryOK'
  <2>1. overlapped' \in BOOLEAN
    BY DEF Start
  <2>2. alone' \in [Writers -> BOOLEAN]
    BY DEF Start
  <2> QED BY <2>1, <2>2 DEF IInv, HistoryOK, Start
<1> QED BY <1>1, <1>2 DEF IInv

LEMMA RestKeeps ==
    ASSUME Hands, NEW w \in Writers, Rest(w), runs \in Nat, runs' = runs
    PROVE  Hands' /\ (alone \in [Writers -> BOOLEAN] => alone' \in [Writers -> BOOLEAN])
<1> USE IndexGraphAssumption DEF Hands, Rest, Goto
<1>1. Nothing \in Trees
  BY DEF Nothing, Trees
<1>2. WritersOK'
  <2>1. <<>> \in Seq(Files) /\ 0 \in 0..MaxRuns /\ 0 <= runs
    OBVIOUS
  <2>2. \A v \in Writers : IsSuffix(todo'[v], order'[v])
    BY <2>1, SuffixSelf DEF WritersOK
  <2> QED BY <1>1, <2>1, <2>2 DEF WritersOK
<1>3. HasFile' /\ Doomed'
  BY DEF WritersOK, HasFile, Doomed, Removing
<1> QED BY <1>2, <1>3

LEMMA AdvanceKeeps ==
    ASSUME Hands, NEW w \in Writers, pc[w] = "drop edges", Advance(w), runs \in Nat, runs' = runs
    PROVE  Hands' /\ (alone \in [Writers -> BOOLEAN] => alone' \in [Writers -> BOOLEAN])
<1>1. CASE Rest(w)
  BY <1>1, RestKeeps
<1>2. CASE ~Rest(w)
  <2>1. /\ todo' = [todo EXCEPT ![w] = Tail(@)]
        /\ doomed' = [doomed EXCEPT ![w] = {}]
        /\ Goto(w, IF Len(todo[w]) = 1 THEN "parse" ELSE "collect")
        /\ UNCHANGED <<kind, order, run, parsed, alone>>
    BY <1>2 DEF Advance
  <2>2. todo[w] \in Seq(Files) \ {<<>>} /\ order[w] \in Seq(Files)
    <3> QED BY EmptyFiles, OrdersAreSequences DEF Hands, WritersOK, HasFile, Removing
  <2>3. Tail(todo[w]) \in Seq(Files) /\ IsSuffix(Tail(todo[w]), order[w])
    BY <2>2, SuffixTail DEF Hands, WritersOK
  <2>4. WritersOK'
    BY <2>1, <2>3 DEF Hands, WritersOK, Goto
  <2>5. HasFile'
    <3>2. Len(todo[w]) # 1 => Tail(todo[w]) # <<>>
      BY <2>2, TailOfMore
    <3> QED BY <2>1, <3>2 DEF Hands, WritersOK, HasFile, Removing, Goto
  <2>6. Doomed'
    BY <2>1 DEF Hands, WritersOK, Doomed, Removing, Goto
  <2> QED BY <2>1, <2>4, <2>5, <2>6 DEF Hands
<1> QED BY <1>1, <1>2

-----------------------------------------------------------------------------
(* Every step keeps the types, and the edges of untouched files. *)

LEMMA RunsCount == TablesOK => runs \in Nat
BY IndexGraphAssumption DEF TablesOK

LEMMA StepInv == IInv /\ [Next]_vars => IInv'
<1> SUFFICES ASSUME IInv, [Next]_vars PROVE IInv'
  OBVIOUS
<1> USE IndexGraphAssumption
<1>1. ASSUME NEW f \in Files, NEW c \in Contents \cup {NoFile}, Edit(f, c) PROVE IInv'
  <2>1. TablesOK'
    <3>1. [tree EXCEPT ![f] = c] \in Trees
      BY DEF IInv, TablesOK, Trees
    <3> QED BY <1>1, <3>1 DEF IInv, TablesOK, Edit, table
  <2>2. Hands'
    BY <1>1 DEF IInv, Hands, WritersOK, HasFile, Doomed, Edit, writer
  <2>3. HistoryOK'
    BY <1>1 DEF IInv, HistoryOK, Edit, history
  <2> QED BY <2>1, <2>2, <2>3 DEF IInv
<1>2. ASSUME NEW w \in Writers, StartFull(w) PROVE IInv'
  BY <1>2, WalkOrderTyped, StartKeeps, Zenon DEF StartFull
<1>3. ASSUME NEW w \in Writers, StartBatch(w) PROVE IInv'
  BY <1>3, OrdersAreSequences, StartKeeps, Zenon DEF StartBatch
<1>4. ASSUME NEW w \in Writers, StartRemoval(w) PROVE IInv'
  BY <1>4, OneFileOrder, OrdersAreSequences, StartKeeps, Zenon DEF StartRemoval
<1>5. ASSUME NEW w \in Writers, WipeSymbols(w) \/ WipeFiles(w) PROVE IInv'
  <2>1. Hands'
    <3>1. CASE WipeSymbols(w)
      <4>1. "wipe symbols" \notin Removing /\ "wipe files" \notin Removing
        BY DEF Removing
      <4> QED BY <3>1, <4>1, GotoKeeps, Zenon DEF IInv, WipeSymbols
    <3>2. CASE WipeFiles(w)
      <4>1. "wipe files" \notin Removing /\ "wipe edges" \notin Removing
        BY DEF Removing
      <4> QED BY <3>2, <4>1, GotoKeeps, Zenon DEF IInv, WipeFiles
    <3> QED BY <1>5, <3>1, <3>2
  <2>2. TablesOK' /\ HistoryOK'
    BY <1>5 DEF IInv, TablesOK, HistoryOK, WipeSymbols, WipeFiles, history
  <2> QED BY <2>1, <2>2 DEF IInv
<1>6. ASSUME NEW w \in Writers, WipeEdges(w) PROVE IInv'
  <2>1. Hands'
    <3>1. "wipe edges" \notin Removing /\ "parse" \notin Removing
      BY DEF Removing
    <3> QED BY <1>6, <3>1, GotoKeeps, Zenon DEF IInv, WipeEdges
  <2>2. TablesOK' /\ HistoryOK'
    BY <1>6 DEF IInv, TablesOK, HistoryOK, WipeEdges
  <2> QED BY <2>1, <2>2 DEF IInv
<1>7. ASSUME NEW w \in Writers, Collect(w) PROVE IInv'
  <2>1. WritersOK'
    BY <1>7 DEF IInv, Hands, WritersOK, TablesOK, Collect, Goto
  <2>2. HasFile' /\ Doomed'
    BY <1>7 DEF IInv, Hands, WritersOK, HasFile, Doomed, Removing, Collect, Goto
  <2>3. TablesOK' /\ HistoryOK'
    BY <1>7 DEF IInv, TablesOK, HistoryOK, Collect, table, history
  <2> QED BY <2>1, <2>2, <2>3 DEF IInv, Hands
<1>8. ASSUME NEW w \in Writers, DropSymbols(w) \/ DropNode(w) PROVE IInv'
  <2>1. Hands'
    <3>1. {"drop symbols", "drop node", "drop edges"} \subseteq Removing
      BY DEF Removing
    <3> QED BY <1>8, <3>1, GotoKeeps, Zenon DEF IInv, DropSymbols, DropNode
  <2>2. TablesOK' /\ HistoryOK'
    BY <1>8 DEF IInv, TablesOK, HistoryOK, DropSymbols, DropNode, history
  <2> QED BY <2>1, <2>2 DEF IInv
<1>9. ASSUME NEW w \in Writers, DropEdges(w) PROVE IInv'
  <2>1. runs \in Nat /\ runs' = runs
    BY <1>9, RunsCount, Zenon DEF IInv, DropEdges
  <2>2. Hands' /\ alone' \in [Writers -> BOOLEAN]
    BY <1>9, <2>1, AdvanceKeeps, Zenon DEF IInv, HistoryOK, DropEdges
  <2>3. Head(todo[w]) \in Files
    <3>1. todo[w] \in Seq(Files) /\ todo[w] # <<>>
      BY <1>9 DEF IInv, Hands, WritersOK, HasFile, Removing, DropEdges
    <3> QED BY <3>1
  <2>4. read' \in Trees /\ touched' \subseteq Files
    BY <1>9, <2>3 DEF IInv, HistoryOK, DropEdges, Trees
  <2>5. TablesOK'
    BY <1>9 DEF IInv, TablesOK, DropEdges
  <2>6. HistoryOK'
    BY <1>9, <2>2, <2>4 DEF IInv, HistoryOK, DropEdges
  <2> QED BY <2>2, <2>5, <2>6 DEF IInv
<1>10. ASSUME NEW w \in Writers, Parse(w) PROVE IInv'
  <2>1. WritersOK'
    <3>1. [f \in Files |-> IF f \in ToSet(order[w]) THEN tree[f] ELSE NoFile] \in Trees
      BY DEF IInv, TablesOK, Trees
    <3> QED BY <1>10, <3>1 DEF IInv, Hands, WritersOK, Parse, Goto
  <2>2. HasFile' /\ Doomed'
    BY <1>10 DEF IInv, Hands, WritersOK, HasFile, Doomed, Removing, Parse, Goto
  <2>3. TablesOK' /\ HistoryOK'
    BY <1>10 DEF IInv, TablesOK, HistoryOK, Parse, table, history
  <2> QED BY <2>1, <2>2, <2>3 DEF IInv, Hands
<1>11. ASSUME NEW w \in Writers
       PROVE  /\ order[w] \in Seq(Files) /\ run[w] \in 0..MaxRuns /\ Ours(w) \in Trees
              /\ SymbolRows(run[w], order[w], Ours(w)) \subseteq Uids
              /\ NodeRows(run[w], order[w], Ours(w)) \subseteq Uids
              /\ EdgeRows(run[w], kind[w], order[w], Ours(w)) \subseteq Edges
  <2>1. order[w] \in Seq(Files) /\ run[w] \in 0..MaxRuns
    BY EmptyFiles, OrdersAreSequences DEF IInv, Hands, WritersOK
  <2>2. Ours(w) \in Trees
    BY KeptTyped DEF IInv, Hands, WritersOK, Ours
  <2> QED BY <2>1, <2>2, SymbolRowsTyped, NodeRowsTyped, EdgeRowsTyped
<1>12. ASSUME NEW w \in Writers, StoreSymbols(w) \/ StoreFiles(w) PROVE IInv'
  <2>1. Hands'
    <3>1. CASE StoreSymbols(w)
      <4>1. "store symbols" \notin Removing /\ "store files" \notin Removing
        BY DEF Removing
      <4> QED BY <3>1, <4>1, GotoKeeps, Zenon DEF IInv, StoreSymbols
    <3>2. CASE StoreFiles(w)
      <4>1. "store files" \notin Removing /\ "store edges" \notin Removing
        BY DEF Removing
      <4> QED BY <3>2, <4>1, GotoKeeps, Zenon DEF IInv, StoreFiles
    <3> QED BY <1>12, <3>1, <3>2
  <2>2. TablesOK' /\ HistoryOK'
    BY <1>11, <1>12 DEF IInv, TablesOK, HistoryOK, StoreSymbols, StoreFiles, history
  <2> QED BY <2>1, <2>2 DEF IInv
<1>13. ASSUME NEW w \in Writers, StoreEdges(w) PROVE IInv'
  <2>1. runs \in Nat /\ runs' = runs
    BY <1>13, RunsCount, Zenon DEF IInv, StoreEdges
  <2>2. Hands' /\ alone' \in [Writers -> BOOLEAN]
    BY <1>13, <2>1, RestKeeps, Zenon DEF IInv, HistoryOK, StoreEdges
  <2>3. TablesOK'
    BY <1>11, <1>13 DEF IInv, TablesOK, StoreEdges
  <2>4. read' \in Trees
    BY <1>13 DEF IInv, Hands, WritersOK, HistoryOK, StoreEdges, Trees
  <2>5. touched' \subseteq Files
    <3>1. ToSet(order[w]) \subseteq Files
      BY <1>11 DEF ToSet
    <3>2. touched' = {} \/ touched' = touched \cup ToSet(order[w])
      BY <1>13 DEF StoreEdges
    <3> QED BY <3>1, <3>2 DEF IInv, HistoryOK
  <2>6. base' \subseteq Edges
    BY <1>13, <2>3 DEF IInv, HistoryOK, TablesOK, StoreEdges
  <2>7. overlapped' \in BOOLEAN /\ fresh' \in BOOLEAN /\ cut' \in {"none", "rows", "edges"}
    BY <1>13 DEF IInv, HistoryOK, StoreEdges
  <2> QED BY <2>2, <2>3, <2>4, <2>5, <2>6, <2>7 DEF IInv, HistoryOK
<1>14. ASSUME NEW w \in Writers, Interrupt(w) PROVE IInv'
  <2>1. runs \in Nat /\ runs' = runs
    BY <1>14, RunsCount, Zenon DEF IInv, Interrupt
  <2>2. Hands' /\ alone' \in [Writers -> BOOLEAN]
    BY <1>14, <2>1, RestKeeps, Zenon DEF IInv, HistoryOK, Interrupt
  <2>3. TablesOK' /\ HistoryOK'
    BY <1>14, <2>2 DEF IInv, TablesOK, HistoryOK, Interrupt, table
  <2> QED BY <2>2, <2>3 DEF IInv
<1>15. CASE UNCHANGED vars
  BY <1>15 DEF IInv, TablesOK, HistoryOK, Hands, WritersOK, HasFile, Doomed,
               vars, table, writer, history
<1> QED BY <1>1, <1>2, <1>3, <1>4, <1>5, <1>6, <1>7, <1>8, <1>9, <1>10, <1>12, <1>13, <1>14,
           <1>15 DEF Next

\* Edges that come or go have an end in a file that was just touched.
LEMMA ChangesTouch ==
    ASSUME UntouchedKeepEdges, base' = base, touched \subseteq touched',
           \A e \in edges : e \in edges' \/ e.src.file \in touched' \/ e.dst.file \in touched',
           \A e \in edges' : e \in edges \/ e.src.file \in touched' \/ e.dst.file \in touched'
    PROVE  UntouchedKeepEdges'
BY DEF UntouchedKeepEdges, Untouched

LEMMA StepKeepsEdges == IInv /\ UntouchedKeepEdges /\ [Next]_vars => UntouchedKeepEdges'
<1> SUFFICES ASSUME IInv, UntouchedKeepEdges, [Next]_vars PROVE UntouchedKeepEdges'
  OBVIOUS
<1>1. ASSUME UNCHANGED <<edges, base, touched>> PROVE UntouchedKeepEdges'
  BY <1>1 DEF UntouchedKeepEdges, Untouched
<1>2. ASSUME NEW w \in Writers, WipeEdges(w) PROVE UntouchedKeepEdges'
  <2>1. \A e \in edges : e.src.file \in Files
    BY DEF IInv, TablesOK, Edges, Uids
  <2>2. touched \subseteq Files /\ touched' = Files /\ edges' = {} /\ base' = base
    BY <1>2 DEF IInv, HistoryOK, WipeEdges
  <2> QED BY <2>1, <2>2, ChangesTouch
<1>3. ASSUME NEW w \in Writers, DropEdges(w) PROVE UntouchedKeepEdges'
  <2>1. \A u \in doomed[w] : u.file \in touched'
    BY <1>3 DEF IInv, Hands, Doomed, DropEdges
  <2>2. edges' \subseteq edges /\ base' = base /\ touched \subseteq touched'
    BY <1>3 DEF DropEdges
  <2>3. \A e \in edges : e \in edges' \/ e.src \in doomed[w] \/ e.dst \in doomed[w]
    BY <1>3 DEF DropEdges
  <2> QED BY <2>1, <2>2, <2>3, ChangesTouch
<1>4. ASSUME NEW w \in Writers, StoreEdges(w) PROVE UntouchedKeepEdges'
  <2>1. CASE kind[w] = "full"
    <3>1. base' = edges'
      BY <1>4, <2>1 DEF StoreEdges
    <3> QED BY <3>1 DEF UntouchedKeepEdges, Untouched
  <2>2. CASE kind[w] # "full"
    <3>1. order[w] \in Seq(Files)
      BY EmptyFiles, OrdersAreSequences DEF IInv, Hands, WritersOK
    <3>2. /\ base' = base /\ touched' = touched \cup ToSet(order[w])
          /\ edges' = edges \cup EdgeRows(run[w], kind[w], order[w], Ours(w))
      BY <1>4, <2>2 DEF StoreEdges
    <3>3. \A e \in edges' : e \in edges \/ e.src.file \in touched'
      BY <3>1, <3>2, EdgesOfBatch
    <3> QED BY <3>2, <3>3, ChangesTouch
  <2> QED BY <2>1, <2>2
<1>5. CASE UNCHANGED vars
  BY <1>1, <1>5 DEF vars, table, history
<1>6. ASSUME NEW f \in Files, NEW c \in Contents \cup {NoFile}, Edit(f, c)
      PROVE  UntouchedKeepEdges'
  BY <1>1, <1>6 DEF Edit, table, history
<1>7. ASSUME NEW w \in Writers, StartFull(w) \/ StartBatch(w) \/ StartRemoval(w)
      PROVE  UntouchedKeepEdges'
  BY <1>1, <1>7 DEF StartFull, StartBatch, StartRemoval, Start, table
<1>8. ASSUME NEW w \in Writers,
             WipeSymbols(w) \/ WipeFiles(w) \/ Collect(w) \/ DropSymbols(w) \/ DropNode(w)
      PROVE  UntouchedKeepEdges'
  BY <1>1, <1>8 DEF WipeSymbols, WipeFiles, Collect, DropSymbols, DropNode, table, history
<1>9. ASSUME NEW w \in Writers, Parse(w) \/ StoreSymbols(w) \/ StoreFiles(w) \/ Interrupt(w)
      PROVE  UntouchedKeepEdges'
  BY <1>1, <1>9 DEF Parse, StoreSymbols, StoreFiles, Interrupt, table, history
<1> QED BY <1>2, <1>3, <1>4, <1>5, <1>6, <1>7, <1>8, <1>9 DEF Next

\* The types of IndexGraph are invariant for every set of files and contents.
THEOREM TypeCorrect == Spec => []TypeOK
<1>1. Init => IInv
  BY InitInv
<1>2. IInv /\ [Next]_vars => IInv'
  BY StepInv
<1>3. IInv => TypeOK
  BY DEF IInv, Hands, TypeOK
<1> QED BY <1>1, <1>2, <1>3, PTL DEF Spec

\* No incremental run, of any number that overlap or stop anywhere, removes or
\* adds an edge between two files no run re-indexed since the last full one
\* (delete_file_data, analyze_files).
THEOREM UntouchedEdgesStay == Spec => []UntouchedKeepEdges
<1>1. Init => IInv /\ UntouchedKeepEdges
  BY InitInv
<1>2. IInv /\ UntouchedKeepEdges /\ [Next]_vars => (IInv /\ UntouchedKeepEdges)'
  BY StepInv, StepKeepsEdges
<1> QED BY <1>1, <1>2, PTL DEF Spec

-----------------------------------------------------------------------------
(* One row per symbol.  A run stores rows of files it emptied first, and   *)
(* no other writer is at work unless runs overlap.                         *)

Sole(w) == ~overlapped \/ alone[w]

Solo ==
    \A w \in Writers : Sole(w) /\ pc[w] # "idle" => \A v \in Writers : v # w => pc[v] = "idle"

\* A full run walks all files.
Walks == \A w \in Writers : pc[w] # "idle" /\ kind[w] = "full" => order[w] = WalkOrder

In(w, u) == u.file \in ToSet(order[w])

\* What is left of the files of w, step by step.
Emptied(w) ==
    /\ pc[w] \in {"wipe files", "wipe edges"} => symbols = {}
    /\ pc[w] = "wipe edges" => nodes = {}
    /\ pc[w] \in Removing =>
        \A u \in symbols \cup nodes : In(w, u) => u.file \in ToSet(todo[w])
    /\ pc[w] \in {"drop node", "drop edges"} => \A u \in symbols : u.file # Head(todo[w])
    /\ pc[w] = "drop edges" => \A u \in nodes : u.file # Head(todo[w])
    /\ pc[w] \in {"parse", "store symbols"} => \A u \in symbols \cup nodes : ~In(w, u)
    /\ pc[w] \in {"store files", "store edges"} =>
        \A u \in symbols : In(w, u) => u.run = run[w]
    /\ pc[w] = "store files" => \A u \in nodes : ~In(w, u)
    /\ pc[w] = "store edges" => \A u \in nodes : In(w, u) => u.run = run[w]

RInv == Solo /\ Walks /\ \A w \in Writers : Sole(w) => Emptied(w)

LEMMA RowsOfRun ==
    ASSUME NEW r, NEW ord, NEW src,
           NEW u \in SymbolRows(r, ord, src) \cup NodeRows(r, ord, src)
    PROVE  u.run = r
BY DEF SymbolRows, NodeRows, PersonUid, Uid

LEMMA SamePlace ==
    ASSUME NEW u \in Uids, NEW v \in Uids, Place(u) = Place(v)
    PROVE  u.file = v.file /\ (u.run = v.run => u = v)
BY DEF Uids, Place

LEMMA HeadOrTail ==
    ASSUME NEW s \in Seq(Files), s # <<>>
    PROVE  ToSet(s) \subseteq {Head(s)} \cup ToSet(Tail(s))
<1> SUFFICES ASSUME NEW i \in 1..Len(s), i # 1 PROVE s[i] \in ToSet(Tail(s))
  BY DEF ToSet
<1>1. i - 1 \in 1..Len(Tail(s)) /\ Tail(s)[i - 1] = s[i]
  OBVIOUS
<1>2. DOMAIN Tail(s) = 1..Len(Tail(s))
  OBVIOUS
<1> QED BY <1>1, <1>2 DEF ToSet

LEMMA InitRows == Init => RInv /\ OneRowPerSymbol
<1> SUFFICES ASSUME Init PROVE RInv /\ OneRowPerSymbol
  OBVIOUS
<1>1. RInv
  BY DEF Init, RInv, Solo, Walks, Emptied, Removing
<1>2. ASSUME NEW u \in symbols \cup nodes, NEW v \in symbols \cup nodes, Place(u) = Place(v)
      PROVE  u = v
  <2>1. u \in Uids /\ v \in Uids
    BY InitInv DEF IInv, TablesOK
  <2>2. u.run = 0 /\ v.run = 0
    BY RowsOfRun DEF Init
  <2> QED BY <1>2, <2>1, <2>2, SamePlace, Zenon
<1> QED BY <1>1, <1>2 DEF OneRowPerSymbol

LEMMA IdleIsEmptied == \A w \in Writers : pc[w] = "idle" => Emptied(w)
BY DEF Emptied, Removing

\* A writer at work goes on: nobody else counts as the only one.
LEMMA SoleStep ==
    ASSUME WritersOK, HistoryOK, Solo, NEW w \in Writers, pc[w] # "idle", NEW at, Goto(w, at),
           \A v \in Writers : alone'[v] = alone[v] \/ (v = w /\ at = "idle"),
           overlapped' = overlapped \/ alone[w]
    PROVE  /\ Solo'
           /\ \A v \in Writers : v # w /\ Sole(v)' => pc'[v] = "idle"
           /\ at # "idle" /\ Sole(w)' => Sole(w)
<1>1. \A v \in Writers : pc'[v] = IF v = w THEN at ELSE pc[v]
  BY DEF WritersOK, Goto
<1>2. ASSUME NEW v \in Writers, v # w, Sole(v)' PROVE pc'[v] = "idle"
  <2>1. alone'[v] = alone[v]
    BY <1>2, Zenon
  <2>2. CASE Sole(v)
    BY <1>1, <1>2, <2>2, Zenon DEF Solo
  <2>3. CASE Sole(w)
    BY <1>1, <1>2, <2>3, Zenon DEF Solo
  <2>4. alone[w] => Sole(w)
    BY Zenon DEF Sole
  <2>5. ASSUME overlapped' = overlapped PROVE Sole(v)
    <3>1. ~overlapped' => ~overlapped
      BY <2>5, Zenon
    <3>2. alone'[v] => alone[v]
      BY <2>1, Zenon
    <3> QED BY <1>2, <3>1, <3>2, Zenon DEF Sole
  <2> QED BY <2>2, <2>3, <2>4, <2>5, Zenon
<1>3. ASSUME at # "idle", Sole(w)' PROVE Sole(w)
  <2>1. alone'[w] = alone[w]
    BY <1>3, Zenon
  <2> QED BY <1>3, <2>1, Zenon DEF Sole
<1>4. Solo'
  <2> SUFFICES ASSUME NEW v \in Writers, Sole(v)', pc'[v] # "idle",
                      NEW x \in Writers, x # v
               PROVE  pc'[x] = "idle"
    BY Zenon DEF Solo
  <2>1. v = w /\ at # "idle"
    BY <1>1, <1>2, Zenon
  <2> QED BY <1>1, <1>3, <2>1, Zenon DEF Solo
<1> QED BY <1>2, <1>3, <1>4

LEMMA StartRows ==
    ASSUME IInv, RInv, NEW w \in Writers, NEW k, NEW ord, NEW at \in {"wipe symbols", "collect"},
           k = "full" => ord = WalkOrder, Start(w, k, ord, at)
    PROVE  RInv'
<1>1. /\ \A v \in Writers : pc'[v] = IF v = w THEN at ELSE pc[v]
      /\ \A v \in Writers : kind'[v] = IF v = w THEN k ELSE kind[v]
      /\ \A v \in Writers : order'[v] = IF v = w THEN ord ELSE order[v]
      /\ todo'[w] = ord
  BY DEF Start, IInv, Hands, WritersOK
<1>2. ASSUME NEW v \in Writers, v # w, Sole(v)', NEW x \in Writers PROVE pc[x] = "idle"
  <2>1. ~alone'[v]
    BY <1>2 DEF Start
  <2> QED BY <1>2, <2>1, Zenon DEF Sole, Start, Idle
<1>3. ASSUME Sole(w)', NEW x \in Writers PROVE pc[x] = "idle"
  <2>1. alone'[w] <=> Quiet
    BY DEF Start
  <2> QED BY <1>3, <2>1, Zenon DEF Sole, Start, Idle, Quiet
<1>4. Solo'
  BY <1>1, <1>2, <1>3, Zenon DEF Solo
<1>5. Walks'
  BY <1>1, Zenon DEF Walks, RInv
<1>6. ASSUME NEW v \in Writers, Sole(v)' PROVE Emptied(v)'
  <2>1. CASE v = w
    BY <1>1, <2>1 DEF Emptied, Removing, In
  <2>2. CASE v # w
    BY <1>1, <1>2, <1>6, <2>2 DEF Emptied, Removing
  <2> QED BY <2>1, <2>2
<1> QED BY <1>4, <1>5, <1>6 DEF RInv

LEMMA WorkRows ==
    ASSUME IInv, RInv, NEW w \in Writers, pc[w] # "idle", NEW at, Goto(w, at),
           \A v \in Writers : v # w \/ at # "idle" =>
                alone'[v] = alone[v] /\ kind'[v] = kind[v] /\ order'[v] = order[v],
           overlapped' = overlapped \/ alone[w],
           at # "idle" /\ Sole(w) /\ Emptied(w) => Emptied(w)'
    PROVE  RInv'
<1>1. \A v \in Writers : pc'[v] = IF v = w THEN at ELSE pc[v]
  BY DEF IInv, Hands, WritersOK, Goto
<1>2. /\ Solo'
      /\ \A v \in Writers : v # w /\ Sole(v)' => pc'[v] = "idle"
      /\ at # "idle" /\ Sole(w)' => Sole(w)
  BY SoleStep, Zenon DEF IInv, Hands, RInv
<1>3. Walks'
  BY <1>1, Zenon DEF RInv, Walks
<1>4. \A v \in Writers : pc'[v] = "idle" => Emptied(v)'
  BY DEF Emptied, Removing
<1>5. ASSUME NEW v \in Writers, Sole(v)' PROVE Emptied(v)'
  <2>1. CASE pc'[v] = "idle"
    BY <1>4, <2>1
  <2>2. CASE pc'[v] # "idle"
    BY <1>1, <1>2, <1>5, <2>2, Zenon DEF RInv
  <2> QED BY <2>1, <2>2
<1> QED BY <1>2, <1>3, <1>5, Zenon DEF RInv

LEMMA StepRows == IInv /\ RInv /\ [Next]_vars => RInv'
<1> SUFFICES ASSUME IInv, RInv, [Next]_vars PROVE RInv'
  OBVIOUS
<1>1. ASSUME NEW f \in Files, NEW c \in Contents \cup {NoFile}, Edit(f, c) PROVE RInv'
  BY <1>1 DEF Edit, RInv, Solo, Sole, Walks, Emptied, In, table, writer, history
<1>2. ASSUME NEW w \in Writers, StartFull(w) \/ StartBatch(w) \/ StartRemoval(w) PROVE RInv'
  BY <1>2, StartRows, Zenon DEF StartFull, StartBatch, StartRemoval
<1>3. ASSUME NEW w \in Writers, WipeSymbols(w) PROVE RInv'
  <2>1. Emptied(w)'
    BY <1>3 DEF WipeSymbols, Goto, IInv, Hands, WritersOK, Emptied, Removing
  <2> QED BY <1>3, <2>1, WorkRows DEF WipeSymbols, history
<1>4. ASSUME NEW w \in Writers, WipeFiles(w) PROVE RInv'
  <2>1. Emptied(w) => Emptied(w)'
    BY <1>4 DEF WipeFiles, Goto, IInv, Hands, WritersOK, Emptied, Removing
  <2> QED BY <1>4, <2>1, WorkRows DEF WipeFiles, history
<1>5. ASSUME NEW w \in Writers, WipeEdges(w) PROVE RInv'
  <2>1. Emptied(w) => Emptied(w)'
    BY <1>5 DEF WipeEdges, Goto, IInv, Hands, WritersOK, Emptied, Removing
  <2> QED BY <1>5, <2>1, WorkRows DEF WipeEdges
<1>6. ASSUME NEW w \in Writers, Collect(w) PROVE RInv'
  <2>1. Emptied(w) => Emptied(w)'
    BY <1>6 DEF Collect, Goto, IInv, Hands, WritersOK, Emptied, Removing, In, table
  <2> QED BY <1>6, <2>1, WorkRows DEF Collect, history
<1>7. ASSUME NEW w \in Writers, DropSymbols(w) PROVE RInv'
  <2>1. Emptied(w) => Emptied(w)'
    BY <1>7 DEF DropSymbols, Goto, IInv, Hands, WritersOK, Emptied, Removing, In
  <2> QED BY <1>7, <2>1, WorkRows DEF DropSymbols, history
<1>8. ASSUME NEW w \in Writers, DropNode(w) PROVE RInv'
  <2>1. Emptied(w) => Emptied(w)'
    BY <1>8 DEF DropNode, Goto, IInv, Hands, WritersOK, Emptied, Removing, In
  <2> QED BY <1>8, <2>1, WorkRows DEF DropNode, history
<1>9. ASSUME NEW w \in Writers, DropEdges(w) PROVE RInv'
  <2>1. CASE Rest(w)
    BY <1>9, <2>1, WorkRows DEF DropEdges, Rest, IInv, Hands, WritersOK, HistoryOK
  <2>2. CASE ~Rest(w)
    <3> DEFINE at == IF Len(todo[w]) = 1 THEN "parse" ELSE "collect"
    <3>1. /\ todo' = [todo EXCEPT ![w] = Tail(@)] /\ Goto(w, at)
          /\ UNCHANGED <<symbols, nodes, overlapped, kind, order, run, alone>>
      BY <1>9, <2>2, Zenon DEF DropEdges, Advance
    <3>2. todo[w] \in Seq(Files) /\ todo[w] # <<>> /\ todo'[w] = Tail(todo[w])
      BY <1>9, <3>1 DEF DropEdges, IInv, Hands, WritersOK, HasFile, Removing
    <3>3. ASSUME Emptied(w) PROVE Emptied(w)'
      <4>1. \A u \in symbols \cup nodes : In(w, u) => u.file \in ToSet(Tail(todo[w]))
        <5>1. \A u \in symbols \cup nodes :
                (In(w, u) => u.file \in ToSet(todo[w])) /\ u.file # Head(todo[w])
          BY <1>9, <3>3 DEF DropEdges, Emptied, Removing
        <5> QED BY <3>2, <5>1, HeadOrTail
      <4>2. Len(todo[w]) = 1 => ToSet(Tail(todo[w])) = {}
        BY <3>2 DEF ToSet
      <4>3. pc'[w] = at
        BY <3>1 DEF Goto, IInv, Hands, WritersOK
      <4>4. CASE at = "parse"
        <5>1. \A u \in symbols \cup nodes : ~In(w, u)
          BY <4>1, <4>2, <4>4
        <5> QED BY <3>1, <4>3, <4>4, <5>1 DEF Emptied, Removing, In
      <4>5. CASE at = "collect"
        BY <3>1, <3>2, <4>1, <4>3, <4>5 DEF Emptied, Removing, In
      <4> QED BY <4>4, <4>5
    <3> HIDE DEF at
    <3> QED BY <1>9, <3>1, <3>3, WorkRows DEF DropEdges
  <2> QED BY <2>1, <2>2
<1>10. ASSUME NEW w \in Writers, Parse(w) PROVE RInv'
  <2>1. Emptied(w) => Emptied(w)'
    BY <1>10 DEF Parse, Goto, IInv, Hands, WritersOK, Emptied, Removing, In, table
  <2> QED BY <1>10, <2>1, WorkRows DEF Parse, history
<1>11. ASSUME NEW w \in Writers, StoreSymbols(w) PROVE RInv'
  <2>1. \A u \in SymbolRows(run[w], order[w], Ours(w)) : u.run = run[w]
    BY RowsOfRun
  <2>2. Emptied(w) => Emptied(w)'
    BY <1>11, <2>1 DEF StoreSymbols, Goto, IInv, Hands, WritersOK, Emptied, Removing, In
  <2> QED BY <1>11, <2>2, WorkRows DEF StoreSymbols, history
<1>12. ASSUME NEW w \in Writers, StoreFiles(w) PROVE RInv'
  <2>1. \A u \in NodeRows(run[w], order[w], Ours(w)) : u.run = run[w]
    BY RowsOfRun
  <2>2. Emptied(w) => Emptied(w)'
    BY <1>12, <2>1 DEF StoreFiles, Goto, IInv, Hands, WritersOK, Emptied, Removing, In
  <2> QED BY <1>12, <2>2, WorkRows DEF StoreFiles, history
<1>13. ASSUME NEW w \in Writers, StoreEdges(w) PROVE RInv'
  <2>1. overlapped' = overlapped \/ alone[w]
    BY <1>13 DEF StoreEdges, IInv, HistoryOK
  <2> QED BY <1>13, <2>1, WorkRows DEF StoreEdges, Rest, IInv, Hands, WritersOK, HistoryOK
<1>14. ASSUME NEW w \in Writers, Interrupt(w) PROVE RInv'
  BY <1>14, WorkRows DEF Interrupt, Rest, Idle, IInv, Hands, WritersOK, HistoryOK
<1>15. CASE UNCHANGED vars
  BY <1>15 DEF RInv, Solo, Sole, Walks, Emptied, In, vars, table, writer, history
<1> QED BY <1>1, <1>2, <1>3, <1>4, <1>5, <1>6, <1>7, <1>8, <1>9, <1>10, <1>11, <1>12, <1>13,
           <1>14, <1>15 DEF Next

Unique(A)      == A \subseteq Uids /\ \A u, v \in A : Place(u) = Place(v) => u = v
RunIn(A, F, r) == \A u \in A : u.file \in F => u.run = r
AllOf(B, F, r) == B \subseteq Uids /\ \A u \in B : u.file \in F /\ u.run = r

\* New rows of one run, beside older rows of other files, are distinct.
LEMMA Distinct ==
    ASSUME NEW A, NEW B, NEW F, NEW r, Unique(A), RunIn(A, F, r), AllOf(B, F, r)
    PROVE  Unique(A \cup B)
<1> SUFFICES ASSUME NEW u \in A \cup B, NEW v \in A \cup B, Place(u) = Place(v) PROVE u = v
  BY DEF Unique, AllOf
<1>1. u \in Uids /\ v \in Uids
  BY DEF Unique, AllOf
<1>2. u.file = v.file /\ (u.run = v.run => u = v)
  BY <1>1, SamePlace
<1>3. CASE u \in A /\ v \in A
  BY <1>3 DEF Unique
<1>4. CASE u \in B \/ v \in B
  BY <1>2, <1>4 DEF RunIn, AllOf
<1> QED BY <1>3, <1>4

LEMMA StepUnique == IInv /\ RInv /\ OneRowPerSymbol /\ [Next]_vars => OneRowPerSymbol'
<1> SUFFICES ASSUME IInv, RInv, OneRowPerSymbol, [Next]_vars PROVE OneRowPerSymbol'
  OBVIOUS
<1>1. ASSUME symbols' \subseteq symbols, nodes' \subseteq nodes, overlapped => overlapped'
      PROVE  OneRowPerSymbol'
  BY <1>1 DEF OneRowPerSymbol, Place
<1>2. ASSUME NEW w \in Writers
      PROVE  /\ SymbolRows(run[w], order[w], Ours(w)) \subseteq Uids
             /\ NodeRows(run[w], order[w], Ours(w)) \subseteq Uids
             /\ \A u \in SymbolRows(run[w], order[w], Ours(w))
                        \cup NodeRows(run[w], order[w], Ours(w)) :
                    u.file \in ToSet(order[w]) /\ u.run = run[w]
  <2>1. order[w] \in Seq(Files) /\ run[w] \in 0..MaxRuns
    BY EmptyFiles, OrdersAreSequences DEF IInv, Hands, WritersOK
  <2>2. Ours(w) \in Trees
    BY KeptTyped DEF IInv, Hands, WritersOK, Ours
  <2>3. \A u \in NodeRows(run[w], order[w], Ours(w)) : u.file \in ToSet(order[w])
    BY DEF NodeRows, Batch, Uid
  <2> QED BY <2>1, <2>2, <2>3, SymbolRowsTyped, NodeRowsTyped, RowsOfBatch, RowsOfRun
<1>3. symbols \cup nodes \subseteq Uids
  BY DEF IInv, TablesOK
<1>4. ASSUME NEW w \in Writers, StoreSymbols(w) PROVE OneRowPerSymbol'
  <2>1. overlapped' = overlapped /\ nodes' = nodes
        /\ symbols' = symbols \cup SymbolRows(run[w], order[w], Ours(w))
    BY <1>4 DEF StoreSymbols, history
  <2>2. CASE overlapped
    BY <2>1, <2>2, Zenon DEF OneRowPerSymbol
  <2>3. CASE ~overlapped
    <3>1. \A u \in symbols \cup nodes : u.file \notin ToSet(order[w])
      BY <1>4, <2>3 DEF StoreSymbols, RInv, Sole, Emptied, In
    <3>2. \A u, v \in symbols \cup nodes : Place(u) = Place(v) => u = v
      BY <2>3, Zenon DEF OneRowPerSymbol
    <3>3. \A u, v \in (symbols \cup nodes) \cup SymbolRows(run[w], order[w], Ours(w)) :
            Place(u) = Place(v) => u = v
      <4>1. Unique(symbols \cup nodes)
        BY <1>3, <3>2 DEF Unique
      <4>2. RunIn(symbols \cup nodes, ToSet(order[w]), run[w])
        BY <3>1 DEF RunIn
      <4>3. AllOf(SymbolRows(run[w], order[w], Ours(w)), ToSet(order[w]), run[w])
        BY <1>2 DEF AllOf
      <4>4. Unique((symbols \cup nodes) \cup SymbolRows(run[w], order[w], Ours(w)))
        BY <4>1, <4>2, <4>3, Distinct, Zenon
      <4> QED BY <4>4, Zenon DEF Unique
    <3> QED BY <2>1, <3>3 DEF OneRowPerSymbol, Place
  <2> QED BY <2>2, <2>3
<1>5. ASSUME NEW w \in Writers, StoreFiles(w) PROVE OneRowPerSymbol'
  <2>1. overlapped' = overlapped /\ symbols' = symbols
        /\ nodes' = nodes \cup NodeRows(run[w], order[w], Ours(w))
    BY <1>5 DEF StoreFiles, history
  <2>2. CASE overlapped
    BY <2>1, <2>2, Zenon DEF OneRowPerSymbol
  <2>3. CASE ~overlapped
    <3>1. \A u \in symbols \cup nodes : u.file \in ToSet(order[w]) => u.run = run[w]
      BY <1>5, <2>3 DEF StoreFiles, RInv, Sole, Emptied, In
    <3>2. \A u, v \in symbols \cup nodes : Place(u) = Place(v) => u = v
      BY <2>3, Zenon DEF OneRowPerSymbol
    <3>3. \A u, v \in (symbols \cup nodes) \cup NodeRows(run[w], order[w], Ours(w)) :
            Place(u) = Place(v) => u = v
      <4>1. Unique(symbols \cup nodes)
        BY <1>3, <3>2 DEF Unique
      <4>2. RunIn(symbols \cup nodes, ToSet(order[w]), run[w])
        BY <3>1 DEF RunIn
      <4>3. AllOf(NodeRows(run[w], order[w], Ours(w)), ToSet(order[w]), run[w])
        BY <1>2 DEF AllOf
      <4>4. Unique((symbols \cup nodes) \cup NodeRows(run[w], order[w], Ours(w)))
        BY <4>1, <4>2, <4>3, Distinct, Zenon
      <4> QED BY <4>4, Zenon DEF Unique
    <3> QED BY <2>1, <3>3 DEF OneRowPerSymbol, Place
  <2> QED BY <2>2, <2>3
<1>6. ASSUME NEW w \in Writers, StoreEdges(w) PROVE OneRowPerSymbol'
  <2>1. UNCHANGED <<symbols, nodes>>
    BY <1>6 DEF StoreEdges
  <2>2. CASE overlapped => overlapped'
    BY <1>1, <2>1, <2>2, Zenon
  <2>3. CASE ~(overlapped => overlapped')
    <3>1. kind[w] = "full" /\ alone[w] /\ pc[w] = "store edges"
      BY <1>6, <2>3 DEF StoreEdges
    <3>2. \A u \in symbols \cup nodes : In(w, u) => u.run = run[w]
      BY <3>1 DEF RInv, Sole, Emptied
    <3>3. order[w] = WalkOrder
      BY <3>1 DEF RInv, Walks
    <3>4. \A u \in symbols \cup nodes : u \in Uids /\ In(w, u)
      BY <1>3, <3>3 DEF In, Files, Uids
    <3>5. \A u, v \in symbols \cup nodes : Place(u) = Place(v) => u = v
      BY <3>2, <3>4, SamePlace
    <3> QED BY <2>1, <3>5 DEF OneRowPerSymbol, Place
  <2> QED BY <2>2, <2>3, Zenon
<1>7. ASSUME NEW f \in Files, NEW c \in Contents \cup {NoFile}, Edit(f, c) PROVE OneRowPerSymbol'
  BY <1>1, <1>7 DEF Edit, table, history
<1>8. ASSUME NEW w \in Writers, StartFull(w) \/ StartBatch(w) \/ StartRemoval(w)
      PROVE  OneRowPerSymbol'
  <2>1. PICK k, ord, at : Start(w, k, ord, at)
    BY <1>8, Zenon DEF StartFull, StartBatch, StartRemoval
  <2>2. symbols' = symbols /\ nodes' = nodes
    BY <2>1 DEF Start, table
  <2>3. overlapped => overlapped'
    BY <2>1, Zenon DEF Start
  <2> QED BY <1>1, <2>2, <2>3, Zenon
<1>9. ASSUME NEW w \in Writers, WipeSymbols(w) \/ WipeFiles(w) \/ WipeEdges(w) \/ Collect(w)
      PROVE  OneRowPerSymbol'
  BY <1>1, <1>9 DEF WipeSymbols, WipeFiles, WipeEdges, Collect, table, history
<1>10. ASSUME NEW w \in Writers, DropSymbols(w) \/ DropNode(w) \/ DropEdges(w)
       PROVE  OneRowPerSymbol'
  BY <1>1, <1>10 DEF DropSymbols, DropNode, DropEdges, table, history
<1>11. ASSUME NEW w \in Writers, Parse(w) \/ Interrupt(w) PROVE OneRowPerSymbol'
  BY <1>1, <1>11 DEF Parse, Interrupt, table, history
<1>12. CASE UNCHANGED vars
  BY <1>1, <1>12 DEF vars, table, history
<1> QED BY <1>4, <1>5, <1>6, <1>7, <1>8, <1>9, <1>10, <1>11, <1>12 DEF Next

\* However often files are indexed anew, removed or given up on, a symbol has
\* one row, unless two runs overlapped: delete_file_data empties each file of
\* a run before anything of it is stored.
THEOREM OneRow == Spec => []OneRowPerSymbol
<1>1. Init => IInv /\ RInv /\ OneRowPerSymbol
  BY InitInv, InitRows
<1>2. IInv /\ RInv /\ OneRowPerSymbol /\ [Next]_vars => (IInv /\ RInv /\ OneRowPerSymbol)'
  BY StepInv, StepRows, StepUnique
<1> QED BY <1>1, <1>2, PTL DEF Spec

-----------------------------------------------------------------------------
(* Edges have their ends.  A run deletes edges of the rows it collected    *)
(* before it deleted any, and stores edges between rows it stored before.  *)

\* Files are told from symbols, and a file's node is an end of the edges to
\* its own symbols only.
NodesApart ==
    /\ \A u \in symbols : u.item # Node
    /\ \A u \in nodes : u.item = Node
    /\ \A e \in edges : e.src.item # Node /\ (e.dst.item = Node => e.dst.file = e.src.file)

OurRows(w) == SymbolRows(run[w], order[w], Ours(w))
OurNodes(w) == NodeRows(run[w], order[w], Ours(w))

\* What w deletes it has collected, and what it stored is there; a full run
\* that is alone makes the whole tables.
Keeps(w) ==
    /\ pc[w] \in Removing => kind[w] # "full"
    /\ pc[w] \in {"drop symbols", "drop node", "drop edges"} =>
        \A u \in symbols \cup nodes : u.file = Head(todo[w]) => u \in doomed[w]
    /\ pc[w] = "drop symbols" => doomed[w] \subseteq symbols \cup nodes
    /\ pc[w] \in {"store files", "store edges"} => OurRows(w) \subseteq symbols
    /\ pc[w] = "store edges" => OurNodes(w) \subseteq nodes
    /\ kind[w] = "full" =>
        /\ pc[w] \in {"parse", "store symbols", "store files", "store edges"} => edges = {}
        /\ pc[w] \in {"parse", "store symbols"} => symbols = {}
        /\ pc[w] \in {"parse", "store symbols", "store files"} => nodes = {}
        /\ pc[w] \in {"store files", "store edges"} => symbols \subseteq OurRows(w)
        /\ pc[w] = "store edges" => nodes \subseteq OurNodes(w)

EInv == NodesApart /\ \A w \in Writers : Sole(w) => Keeps(w)

\* A fresh index is what a full run made, and nobody works on it.
FreshInv == fresh => Quiet /\ IsGraphOf(read)

LEMMA NameIsRow ==
    ASSUME NEW r, NEW ord \in Seq(Files), NEW src, NEW n, Defining(ord, src, n) # {}
    PROVE  SymbolUid(r, ord, src, n) \in SymbolRows(r, ord, src)
<1>1. LastOf(ord, Defining(ord, src, n)) \in Defining(ord, src, n)
  BY LastIsThere DEF Defining, Batch
<1>2. \A f \in Defining(ord, src, n) : Uid(r, f, n) \in SymbolRows(r, ord, src)
  BY DEF SymbolRows, Defining
<1> QED BY <1>1, <1>2 DEF SymbolUid

LEMMA PersonIsRow ==
    ASSUME NEW r, NEW ord, NEW src, NEW f \in Batch(ord, src), NEW p \in src[f].people
    PROVE  PersonUid(r, ord, src, p) \in SymbolRows(r, ord, src)
BY DEF SymbolRows

LEMMA RowHasNode ==
    ASSUME NEW r, NEW ord \in Seq(Files), NEW src, NEW u \in SymbolRows(r, ord, src)
    PROVE  Uid(r, u.file, Node) \in NodeRows(r, ord, src)
<1>1. PICK f \in Batch(ord, src) :
        u \in {Uid(r, f, i) : i \in src[f].defs}
              \cup {PersonUid(r, ord, src, p) : p \in src[f].people}
  BY DEF SymbolRows
<1>2. ASSUME NEW i, u = Uid(r, f, i) PROVE u.file \in Batch(ord, src)
  BY <1>1, <1>2 DEF Uid
<1>3. ASSUME NEW p \in src[f].people, u = PersonUid(r, ord, src, p)
      PROVE  u.file \in Batch(ord, src)
  <2>1. f \in ToSet(ord) /\ f \in Naming(ord, src, p)
    BY <1>1, <1>3 DEF Naming, Batch
  <2>2. FirstOf(ord, Naming(ord, src, p)) \in Naming(ord, src, p)
    BY <2>1, FirstIsThere
  <2> QED BY <1>3, <2>2 DEF PersonUid, Uid, Naming
<1> QED BY <1>1, <1>2, <1>3 DEF NodeRows

\* A symbol is never taken for a file.
LEMMA RowsAreSymbols ==
    ASSUME NEW r, NEW ord \in Seq(Files), NEW src \in Trees, NEW u \in SymbolRows(r, ord, src)
    PROVE  u.item # Node
<1>1. PICK f \in Batch(ord, src) :
        u \in {Uid(r, f, i) : i \in src[f].defs}
              \cup {PersonUid(r, ord, src, p) : p \in src[f].people}
  BY DEF SymbolRows
<1>2. src[f] \in Contents
  BY <1>1 DEF Batch, ToSet, Trees
<1>3. src[f].defs \subseteq Symbols \cup {Text} /\ src[f].people \subseteq People
  BY <1>2, IndexGraphAssumption
<1>4. Node \notin Symbols \cup People \cup {Text}
  BY IndexGraphAssumption
<1> QED BY <1>1, <1>3, <1>4 DEF Uid, PersonUid

\* The ends of an edge a run stores are rows that run stores.
LEMMA EdgeEnds ==
    ASSUME NEW r, NEW k, NEW ord \in Seq(Files), NEW src \in Trees,
           NEW e \in EdgeRows(r, k, ord, src)
    PROVE  /\ e.src \in SymbolRows(r, ord, src)
           /\ \/ e.dst \in SymbolRows(r, ord, src)
              \/ e.dst \in NodeRows(r, ord, src) /\ e.dst.file = e.src.file
<1>1. CASE e \in CallEdges(r, k, ord, src)
  <2>1. PICK a, b :
          /\ Defining(ord, src, a) # {} /\ Defining(ord, src, b) # {}
          /\ e = Edge(SymbolUid(r, ord, src, a), SymbolUid(r, ord, src, b), "calls")
    BY <1>1 DEF CallEdges
  <2> QED BY <2>1, NameIsRow DEF Edge
<1>2. \A f \in Batch(ord, src) : src[f].people \cup src[f].mentions # {} =>
        Uid(r, f, Text) \in SymbolRows(r, ord, src)
  <2>1. \A f \in Batch(ord, src) : src[f] \in Contents
    BY DEF Batch, ToSet, Trees
  <2>2. \A f \in Batch(ord, src) : src[f].people \cup src[f].mentions # {} => Text \in src[f].defs
    BY <2>1, IndexGraphAssumption
  <2> QED BY <2>2 DEF SymbolRows
<1>3. CASE e \in SentEdges(r, ord, src)
  <2>1. PICK f \in Batch(ord, src) : \E q \in src[f].people :
          e = Edge(Uid(r, f, Text), PersonUid(r, ord, src, q), "sent")
    BY <1>3 DEF SentEdges
  <2>2. PICK p \in src[f].people :
          e = Edge(Uid(r, f, Text), PersonUid(r, ord, src, p), "sent")
    BY <2>1
  <2> QED BY <1>2, <2>2, PersonIsRow DEF Edge
<1>4. CASE e \in MentionEdges(r, ord, src)
  <2>1. PICK f \in Batch(ord, src) :
          \E n \in src[f].mentions : \E g \in Defining(ord, src, n) :
            e = Edge(Uid(r, f, Text), Uid(r, g, n), "mentions")
    BY <1>4 DEF MentionEdges
  <2>2. PICK n \in src[f].mentions : \E g \in Defining(ord, src, n) :
            e = Edge(Uid(r, f, Text), Uid(r, g, n), "mentions")
    BY <2>1
  <2>3. PICK g \in Defining(ord, src, n) : e = Edge(Uid(r, f, Text), Uid(r, g, n), "mentions")
    BY <2>2
  <2>4. Uid(r, g, n) \in SymbolRows(r, ord, src)
    BY DEF SymbolRows, Defining
  <2> QED BY <1>2, <2>3, <2>4 DEF Edge
<1>5. CASE e \in ContainedEdges(r, ord, src)
  <2>1. PICK u \in SymbolRows(r, ord, src) : e = Edge(u, Uid(r, u.file, Node), "contained")
    BY <1>5 DEF ContainedEdges
  <2> QED BY <2>1, RowHasNode DEF Edge, Uid
<1> QED BY <1>1, <1>3, <1>4, <1>5 DEF EdgeRows

LEMMA EdgesApart ==
    ASSUME NEW r, NEW k, NEW ord \in Seq(Files), NEW src \in Trees
    PROVE  \A e \in EdgeRows(r, k, ord, src) :
                e.src.item # Node /\ (e.dst.item = Node => e.dst.file = e.src.file)
BY EdgeEnds, RowsAreSymbols

LEMMA OursTyped ==
    ASSUME IInv, NEW w \in Writers
    PROVE  order[w] \in Seq(Files) /\ Ours(w) \in Trees
BY EmptyFiles, OrdersAreSequences, KeptTyped DEF IInv, Hands, WritersOK, Ours

LEMMA KeepsIdle == \A w \in Writers : pc[w] = "idle" => Keeps(w)
BY DEF Keeps, Removing

\* A step of a writer at work leaves the others with nothing to keep.
LEMMA WorkKeeps ==
    ASSUME IInv, RInv, EInv, NEW w \in Writers, pc[w] # "idle", NEW at, Goto(w, at),
           \A v \in Writers : alone'[v] = alone[v] \/ (v = w /\ at = "idle"),
           overlapped' = overlapped \/ alone[w],
           at # "idle" /\ Sole(w) /\ Keeps(w) => Keeps(w)'
    PROVE  \A v \in Writers : Sole(v)' => Keeps(v)'
<1>1. \A v \in Writers : pc'[v] = IF v = w THEN at ELSE pc[v]
  BY DEF IInv, Hands, WritersOK, Goto
<1>2. /\ \A v \in Writers : v # w /\ Sole(v)' => pc'[v] = "idle"
      /\ at # "idle" /\ Sole(w)' => Sole(w)
  BY SoleStep, Zenon DEF IInv, Hands, RInv
<1>3. \A v \in Writers : pc'[v] = "idle" => Keeps(v)'
  BY DEF Keeps, Removing
<1> SUFFICES ASSUME NEW v \in Writers, Sole(v)' PROVE Keeps(v)'
  OBVIOUS
<1>4. CASE pc'[v] = "idle"
  BY <1>3, <1>4
<1>5. CASE pc'[v] # "idle"
  BY <1>1, <1>2, <1>5, Zenon DEF EInv
<1> QED BY <1>4, <1>5

LEMMA StartKept ==
    ASSUME IInv, EInv, NEW w \in Writers, NEW k, NEW ord, NEW at \in {"wipe symbols", "collect"},
           at = "collect" => k # "full", Start(w, k, ord, at)
    PROVE  EInv'
<1>1. NodesApart'
  BY DEF Start, table, EInv, NodesApart
<1>2. ASSUME NEW v \in Writers, v # w, Sole(v)' PROVE pc[v] = "idle"
  <2>1. ~alone'[v]
    BY <1>2 DEF Start
  <2> QED BY <1>2, <2>1, Zenon DEF Sole, Start, Idle
<1>3. \A v \in Writers : v # w => pc'[v] = pc[v]
  BY DEF Start, IInv, Hands, WritersOK
<1>4. Keeps(w)'
  BY DEF Start, IInv, Hands, WritersOK, Keeps, Removing
<1>5. \A v \in Writers : pc'[v] = "idle" => Keeps(v)'
  BY DEF Keeps, Removing
<1> QED BY <1>1, <1>2, <1>3, <1>4, <1>5, Zenon DEF EInv

LEMMA StepKeeps == IInv /\ RInv /\ EInv /\ [Next]_vars => EInv'
<1> SUFFICES ASSUME IInv, RInv, EInv, [Next]_vars PROVE EInv'
  OBVIOUS
<1>1. ASSUME NEW f \in Files, NEW c \in Contents \cup {NoFile}, Edit(f, c) PROVE EInv'
  BY <1>1 DEF Edit, EInv, NodesApart, Keeps, Sole, OurRows, OurNodes, Ours, table, writer, history
<1>2. ASSUME NEW w \in Writers, StartFull(w) \/ StartBatch(w) \/ StartRemoval(w) PROVE EInv'
  <2>1. "batch" # "full" /\ "removal" # "full" /\ "wipe symbols" # "collect"
    OBVIOUS
  <2> QED BY <1>2, <2>1, StartKept, Zenon DEF StartFull, StartBatch, StartRemoval
<1>3. ASSUME NEW w \in Writers, WipeSymbols(w) PROVE EInv'
  <2>1. NodesApart' /\ Keeps(w)'
    BY <1>3 DEF WipeSymbols, Goto, IInv, Hands, WritersOK, EInv, NodesApart, Keeps, Removing
  <2> QED BY <1>3, <2>1, WorkKeeps DEF WipeSymbols, history, EInv
<1>4. ASSUME NEW w \in Writers, WipeFiles(w) PROVE EInv'
  <2>1. NodesApart' /\ Keeps(w)'
    BY <1>4 DEF WipeFiles, Goto, IInv, Hands, WritersOK, EInv, NodesApart, Keeps, Removing
  <2> QED BY <1>4, <2>1, WorkKeeps DEF WipeFiles, history, EInv
<1>5. ASSUME NEW w \in Writers, WipeEdges(w) PROVE EInv'
  <2>1. NodesApart'
    BY <1>5 DEF WipeEdges, EInv, NodesApart
  <2>2. Sole(w) => Keeps(w)'
    BY <1>5 DEF WipeEdges, Goto, IInv, Hands, WritersOK, RInv, Emptied, Keeps, Removing
  <2> QED BY <1>5, <2>1, <2>2, WorkKeeps DEF WipeEdges, EInv
<1>6. ASSUME NEW w \in Writers, Collect(w) PROVE EInv'
  <2>1. NodesApart'
    BY <1>6 DEF Collect, table, EInv, NodesApart
  <2>2. Keeps(w) => Keeps(w)'
    BY <1>6 DEF Collect, Goto, IInv, Hands, WritersOK, TablesOK, Keeps, Removing, table
  <2> QED BY <1>6, <2>1, <2>2, WorkKeeps DEF Collect, history, EInv
<1>7. ASSUME NEW w \in Writers, DropSymbols(w) PROVE EInv'
  <2>1. NodesApart'
    BY <1>7 DEF DropSymbols, EInv, NodesApart
  <2>2. Keeps(w) => Keeps(w)'
    BY <1>7 DEF DropSymbols, Goto, IInv, Hands, WritersOK, Keeps, Removing
  <2> QED BY <1>7, <2>1, <2>2, WorkKeeps DEF DropSymbols, history, EInv
<1>8. ASSUME NEW w \in Writers, DropNode(w) PROVE EInv'
  <2>1. NodesApart'
    BY <1>8 DEF DropNode, EInv, NodesApart
  <2>2. Keeps(w) => Keeps(w)'
    BY <1>8 DEF DropNode, Goto, IInv, Hands, WritersOK, Keeps, Removing
  <2> QED BY <1>8, <2>1, <2>2, WorkKeeps DEF DropNode, history, EInv
<1>9. ASSUME NEW w \in Writers, DropEdges(w) PROVE EInv'
  <2>1. NodesApart'
    BY <1>9 DEF DropEdges, EInv, NodesApart
  <2>2. CASE Rest(w)
    BY <1>9, <2>1, <2>2, WorkKeeps DEF DropEdges, Rest, IInv, HistoryOK, EInv
  <2>3. CASE ~Rest(w)
    <3> DEFINE at == IF Len(todo[w]) = 1 THEN "parse" ELSE "collect"
    <3>1. Goto(w, at) /\ UNCHANGED <<overlapped, kind, alone>>
      BY <1>9, <2>3, Zenon DEF DropEdges, Advance
    <3>2. pc'[w] = at /\ at \in {"parse", "collect"}
      BY <3>1 DEF Goto, IInv, Hands, WritersOK
    <3>3. Keeps(w) => Keeps(w)'
      BY <1>9, <3>1, <3>2 DEF DropEdges, Keeps, Removing
    <3> HIDE DEF at
    <3> QED BY <1>9, <2>1, <3>1, <3>3, WorkKeeps DEF DropEdges, EInv
  <2> QED BY <2>2, <2>3
<1>10. ASSUME NEW w \in Writers, Parse(w) PROVE EInv'
  <2>1. NodesApart'
    BY <1>10 DEF Parse, table, EInv, NodesApart
  <2>2. Keeps(w) => Keeps(w)'
    BY <1>10 DEF Parse, Goto, IInv, Hands, WritersOK, Keeps, Removing, table
  <2> QED BY <1>10, <2>1, <2>2, WorkKeeps DEF Parse, history, EInv
<1>11. ASSUME NEW w \in Writers, StoreSymbols(w) PROVE EInv'
  <2>1. OurRows(w)' = OurRows(w) /\ symbols' = symbols \cup OurRows(w)
    BY <1>11 DEF StoreSymbols, OurRows, Ours
  <2>2. NodesApart'
    <3>1. \A u \in OurRows(w) : u.item # Node
      BY OursTyped, RowsAreSymbols DEF OurRows
    <3> QED BY <1>11, <2>1, <3>1 DEF StoreSymbols, EInv, NodesApart
  <2>3. Keeps(w) => Keeps(w)'
    BY <1>11, <2>1 DEF StoreSymbols, Goto, IInv, Hands, WritersOK, Keeps, Removing
  <2> QED BY <1>11, <2>2, <2>3, WorkKeeps DEF StoreSymbols, history, EInv
<1>12. ASSUME NEW w \in Writers, StoreFiles(w) PROVE EInv'
  <2>1. OurRows(w)' = OurRows(w) /\ OurNodes(w)' = OurNodes(w) /\ nodes' = nodes \cup OurNodes(w)
    BY <1>12 DEF StoreFiles, OurRows, OurNodes, Ours
  <2>2. NodesApart'
    <3>1. \A u \in OurNodes(w) : u.item = Node
      BY DEF OurNodes, NodeRows, Uid
    <3> QED BY <1>12, <2>1, <3>1 DEF StoreFiles, EInv, NodesApart
  <2>3. Keeps(w) => Keeps(w)'
    BY <1>12, <2>1 DEF StoreFiles, Goto, IInv, Hands, WritersOK, Keeps, Removing
  <2> QED BY <1>12, <2>2, <2>3, WorkKeeps DEF StoreFiles, history, EInv
<1>13. ASSUME NEW w \in Writers, StoreEdges(w) PROVE EInv'
  <2>1. overlapped' = overlapped \/ alone[w]
    BY <1>13 DEF StoreEdges, IInv, HistoryOK
  <2>2. NodesApart'
    <3> DEFINE new == EdgeRows(run[w], kind[w], order[w], Ours(w))
    <3>1. \A e \in new : e.src.item # Node /\ (e.dst.item = Node => e.dst.file = e.src.file)
      BY OursTyped, EdgesApart, Zenon
    <3>2. edges' = edges \cup new /\ UNCHANGED <<symbols, nodes>>
      BY <1>13 DEF StoreEdges
    <3> HIDE DEF new
    <3> QED BY <3>1, <3>2 DEF EInv, NodesApart
  <2> QED BY <1>13, <2>1, <2>2, WorkKeeps DEF StoreEdges, Rest, IInv, HistoryOK, EInv
<1>14. ASSUME NEW w \in Writers, Interrupt(w) PROVE EInv'
  <2>1. NodesApart'
    BY <1>14 DEF Interrupt, table, EInv, NodesApart
  <2> QED BY <1>14, <2>1, WorkKeeps DEF Interrupt, Rest, Idle, IInv, HistoryOK, EInv
<1>15. CASE UNCHANGED vars
  BY <1>15 DEF EInv, NodesApart, Keeps, Sole, OurRows, OurNodes, Ours, vars, table, writer, history
<1> QED BY <1>1, <1>2, <1>3, <1>4, <1>5, <1>6, <1>7, <1>8, <1>9, <1>10, <1>11, <1>12, <1>13,
           <1>14, <1>15 DEF Next

LEMMA InitKeeps == Init => EInv /\ NoDanglingEdges /\ FreshInv
<1> SUFFICES ASSUME Init PROVE EInv /\ NoDanglingEdges /\ FreshInv
  OBVIOUS
<1> DEFINE texts == KeptTexts("full", tree)
<1>1. texts \in Trees
  BY InitInv, KeptTyped DEF IInv, TablesOK
<1>2. WalkOrder \in Seq(Files)
  BY IndexGraphAssumption
<1>3. /\ symbols = SymbolRows(0, WalkOrder, texts) /\ nodes = NodeRows(0, WalkOrder, texts)
      /\ edges = EdgeRows(0, "full", WalkOrder, texts)
  BY DEF Init
<1> HIDE DEF texts
<1>4. NodesApart
  <2>1. \A u \in symbols : u.item # Node
    BY <1>1, <1>2, <1>3, RowsAreSymbols
  <2>2. \A u \in nodes : u.item = Node
    BY <1>3 DEF NodeRows, Uid
  <2>3. \A e \in edges : e.src.item # Node /\ (e.dst.item = Node => e.dst.file = e.src.file)
    BY <1>1, <1>2, <1>3, EdgesApart, Zenon
  <2> QED BY <2>1, <2>2, <2>3 DEF NodesApart
<1>5. \A w \in Writers : pc[w] = "idle"
  BY DEF Init
<1>6. EInv
  BY <1>4, <1>5, KeepsIdle DEF EInv
<1>7. NoDanglingEdges
  <2>1. \A e \in edges : e.src \in symbols \cup nodes /\ e.dst \in symbols \cup nodes
    BY <1>1, <1>2, <1>3, EdgeEnds
  <2> QED BY <2>1 DEF NoDanglingEdges
<1>8. FreshInv
  <2>1. IsGraphOf(read)
    BY <1>3 DEF IsGraphOf, Init, texts
  <2> QED BY <1>5, <2>1 DEF FreshInv, Quiet, Idle
<1> QED BY <1>6, <1>7, <1>8

\* A step that is not cut off, and of a writer that is the only one, keeps ends.
Sound == cut # "edges" /\ ~overlapped
Ended == \A e \in edges : \A u \in {e.src, e.dst} : u \in symbols \cup nodes \/ Going(u)

\* Rows and edges stay, or edges come with their rows, and what goes is going.
LEMMA EndsStay ==
    ASSUME Sound' => Sound, NoDanglingEdges,
           Sound => /\ \A u \in symbols \cup nodes : u \in symbols' \cup nodes' \/ Going(u)'
                    /\ \A u : Going(u) => u \in symbols' \cup nodes' \/ Going(u)',
           edges' \subseteq edges
    PROVE  NoDanglingEdges'
<1> SUFFICES ASSUME Sound' PROVE Ended'
  BY DEF Sound, NoDanglingEdges, Ended
<1>1. Ended
  BY DEF Sound, NoDanglingEdges, Ended
<1> SUFFICES ASSUME NEW e \in edges', NEW u \in {e.src, e.dst}
             PROVE  u \in symbols' \cup nodes' \/ Going(u)'
  BY DEF Ended
<1>2. u \in symbols \cup nodes \/ Going(u)
  BY <1>1 DEF Ended
<1> QED BY <1>2

LEMMA OthersRest ==
    ASSUME IInv, RInv, ~overlapped, NEW w \in Writers, pc[w] # "idle"
    PROVE  \A v \in Writers : v # w => pc[v] = "idle" /\ doomed[v] = {}
<1>1. \A v \in Writers : v # w => pc[v] = "idle"
  BY Zenon DEF RInv, Solo, Sole
<1>2. \A v \in Writers : pc[v] = "idle" => doomed[v] = {}
  BY DEF IInv, Hands, Doomed, Removing
<1> QED BY <1>1, <1>2

\* Edges are deleted unless only a file without symbols was collected, and
\* then no edge has an end in it.
LEMMA DropEnds ==
    ASSUME IInv, RInv, EInv, NoDanglingEdges, NEW w \in Writers, DropEdges(w)
    PROVE  NoDanglingEdges'
<1> SUFFICES ASSUME Sound' PROVE Ended'
  BY DEF Sound, NoDanglingEdges, Ended
<1>1. Sound /\ Ended /\ pc[w] = "drop edges" /\ edges' \subseteq edges
      /\ UNCHANGED <<symbols, nodes>>
  BY DEF Sound, NoDanglingEdges, Ended, DropEdges
<1>2. Sole(w) /\ Emptied(w)
  BY <1>1 DEF Sound, Sole, RInv
<1>3. \A u : Going(u) => u \in doomed[w]
  BY <1>1, OthersRest DEF Sound, Going
<1>4. \A u \in doomed[w] : u.file = Head(todo[w])
  BY DEF IInv, Hands, Doomed
<1>5. ASSUME NEW e \in edges' PROVE {e.src, e.dst} \cap doomed[w] = {}
  <2>1. CASE \E u \in doomed[w] : u.item # Node
    BY <1>5, <2>1 DEF DropEdges
  <2>2. CASE \A u \in doomed[w] : u.item = Node
    <3>1. e \in edges /\ e.src.item # Node /\ (e.dst.item = Node => e.dst.file = e.src.file)
      BY <1>1, <1>5 DEF EInv, NodesApart
    <3>2. e.src \notin doomed[w] /\ e.src \in symbols
      <4>1. e.src \in symbols \cup nodes \/ Going(e.src)
        BY <1>1, <3>1 DEF Ended
      <4> QED BY <1>3, <2>2, <3>1, <4>1 DEF EInv, NodesApart
    <3>3. e.src.file # Head(todo[w])
      BY <1>1, <1>2, <3>2 DEF Emptied
    <3> QED BY <1>4, <2>2, <3>1, <3>2, <3>3
  <2> QED BY <2>1, <2>2
<1> SUFFICES ASSUME NEW e \in edges', NEW u \in {e.src, e.dst}
             PROVE  u \in symbols' \cup nodes'
  BY DEF Ended
<1>6. u \notin doomed[w]
  BY <1>5
<1>7. u \in symbols \cup nodes \/ Going(u)
  BY <1>1 DEF Ended
<1> QED BY <1>1, <1>3, <1>6, <1>7

\* What a run stores last are edges between its rows.
LEMMA StoreEnds ==
    ASSUME IInv, RInv, EInv, NoDanglingEdges, NEW w \in Writers, StoreEdges(w)
    PROVE  NoDanglingEdges'
<1> DEFINE new == EdgeRows(run[w], kind[w], order[w], Ours(w))
<1> SUFFICES ASSUME Sound' PROVE Ended'
  BY DEF Sound, NoDanglingEdges, Ended
<1>1. pc[w] = "store edges" /\ edges' = edges \cup new /\ UNCHANGED <<symbols, nodes>>
  BY DEF StoreEdges
<1>2. Sole(w) /\ (Sound \/ (kind[w] = "full" /\ alone[w]))
  BY DEF StoreEdges, Sound, Sole
<1>3. Keeps(w)
  BY <1>2 DEF EInv
<1>4. \A e \in new : e.src \in symbols \cup nodes /\ e.dst \in symbols \cup nodes
  <2>1. \A e \in new : e.src \in OurRows(w) /\ e.dst \in OurRows(w) \cup OurNodes(w)
    BY OursTyped, EdgeEnds DEF OurRows, OurNodes
  <2>2. OurRows(w) \subseteq symbols /\ OurNodes(w) \subseteq nodes
    BY <1>1, <1>3 DEF Keeps
  <2> QED BY <2>1, <2>2
<1>5. \A e \in edges : e.src \in symbols \cup nodes /\ e.dst \in symbols \cup nodes
  <2>1. CASE kind[w] = "full"
    BY <1>1, <1>3, <2>1 DEF Keeps
  <2>2. CASE kind[w] # "full"
    <3>1. Sound /\ Ended
      BY <1>2, <2>2 DEF Sound, NoDanglingEdges, Ended
    <3>2. doomed[w] = {}
      BY <1>1 DEF IInv, Hands, Doomed, Removing
    <3>3. \A u : ~Going(u)
      BY <1>1, <3>1, <3>2, OthersRest DEF Sound, Going
    <3> QED BY <3>1, <3>3 DEF Ended
  <2> QED BY <2>1, <2>2
<1> HIDE DEF new
<1> QED BY <1>1, <1>4, <1>5 DEF Ended

LEMMA StepEnds == IInv /\ RInv /\ EInv /\ NoDanglingEdges /\ [Next]_vars => NoDanglingEdges'
<1> SUFFICES ASSUME IInv, RInv, EInv, NoDanglingEdges, [Next]_vars PROVE NoDanglingEdges'
  OBVIOUS
<1>1. ASSUME UNCHANGED <<symbols, nodes, edges, doomed, pc>>, Sound' => Sound
      PROVE  NoDanglingEdges'
  BY <1>1 DEF NoDanglingEdges, Sound, Going
<1>2. ASSUME NEW f \in Files, NEW c \in Contents \cup {NoFile}, Edit(f, c)
      PROVE  NoDanglingEdges'
  BY <1>1, <1>2 DEF Edit, table, writer, history, Sound
<1>3. ASSUME NEW w \in Writers, StartFull(w) \/ StartBatch(w) \/ StartRemoval(w)
      PROVE  NoDanglingEdges'
  <2>1. PICK k, ord, at : Start(w, k, ord, at)
    BY <1>3, Zenon DEF StartFull, StartBatch, StartRemoval
  <2>2. UNCHANGED <<symbols, nodes, edges, doomed>>
    BY <2>1 DEF Start, table
  <2>3. Sound' => Sound /\ \A v \in Writers : pc[v] = "idle"
    BY <2>1, Zenon DEF Start, Sound, Idle
  <2>4. \A v \in Writers : pc[v] = "idle" => doomed[v] = {}
    BY DEF IInv, Hands, Doomed, Removing
  <2>5. (\A v \in Writers : pc[v] = "idle") => \A u : ~Going(u)
    BY <2>4 DEF Going
  <2>6. Sound' => Ended /\ \A u : ~Going(u)
    BY <2>3, <2>5 DEF Sound, NoDanglingEdges, Ended
  <2>7. Sound' => Ended'
    BY <2>2, <2>6 DEF Ended
  <2> QED BY <2>7 DEF Sound, NoDanglingEdges, Ended
<1>4. ASSUME NEW w \in Writers, WipeSymbols(w) \/ WipeFiles(w) PROVE NoDanglingEdges'
  <2>1. pc'[w] \in {"wipe files", "wipe edges"}
    BY <1>4 DEF WipeSymbols, WipeFiles, Goto, IInv, Hands, WritersOK
  <2>2. \A u : Going(u)'
    BY <2>1 DEF Going
  <2> QED BY <2>2 DEF NoDanglingEdges
<1>5. ASSUME NEW w \in Writers, WipeEdges(w) PROVE NoDanglingEdges'
  BY <1>5 DEF WipeEdges, NoDanglingEdges
<1>6. ASSUME NEW w \in Writers, Collect(w) PROVE NoDanglingEdges'
  <2>1. doomed[w] = {} /\ pc[w] = "collect"
    BY <1>6 DEF Collect, IInv, Hands, Doomed, Removing
  <2>2. \A v \in Writers : v # w => doomed'[v] = doomed[v] /\ pc'[v] = pc[v]
    BY <1>6 DEF Collect, Goto, IInv, Hands, WritersOK
  <2>3. \A u : Going(u) => Going(u)'
    BY <2>1, <2>2 DEF Going
  <2>4. UNCHANGED <<symbols, nodes, edges>> /\ (Sound' <=> Sound)
    BY <1>6 DEF Collect, table, history, Sound
  <2> QED BY <2>3, <2>4, EndsStay
<1>7. ASSUME NEW w \in Writers, DropSymbols(w) \/ DropNode(w) PROVE NoDanglingEdges'
  <2>1. pc[w] \in {"drop symbols", "drop node"} /\ doomed' = doomed
        /\ edges' = edges
    BY <1>7 DEF DropSymbols, DropNode
  <2>0. Sound' <=> Sound
    <3>1. cut' = cut /\ overlapped' = overlapped
      BY <1>7 DEF DropSymbols, DropNode, history
    <3> QED BY <3>1, Zenon DEF Sound
  <2>2. \A v \in Writers : v # w => pc'[v] = pc[v]
    BY <1>7 DEF DropSymbols, DropNode, Goto, IInv, Hands, WritersOK
  <2>3. \A u : Going(u) => Going(u)'
    BY <2>1, <2>2 DEF Going
  <2>4. Sound => \A u \in symbols \cup nodes : u \in symbols' \cup nodes' \/ u \in doomed[w]
    <3>1. Sound => Keeps(w)
      BY DEF Sound, Sole, EInv
    <3>2. \A u \in symbols \cup nodes : u \in symbols' \cup nodes' \/ u.file = Head(todo[w])
      BY <1>7 DEF DropSymbols, DropNode
    <3> QED BY <2>1, <3>1, <3>2 DEF Keeps
  <2>5. \A u \in doomed[w] : Going(u)'
    BY <2>1 DEF Going
  <2> QED BY <2>0, <2>1, <2>3, <2>4, <2>5, EndsStay
<1>8. ASSUME NEW w \in Writers, DropEdges(w) PROVE NoDanglingEdges'
  BY <1>8, DropEnds
<1>9. ASSUME NEW w \in Writers, Parse(w) \/ StoreSymbols(w) \/ StoreFiles(w)
      PROVE  NoDanglingEdges'
  <2>1. pc[w] \in {"parse", "store symbols", "store files"} /\ doomed' = doomed
        /\ edges' = edges
    BY <1>9 DEF Parse, StoreSymbols, StoreFiles, table
  <2>0. Sound' <=> Sound
    <3>1. cut' = cut /\ overlapped' = overlapped
      BY <1>9 DEF Parse, StoreSymbols, StoreFiles, table, history
    <3> QED BY <3>1, Zenon DEF Sound
  <2>2. \A v \in Writers : v # w => pc'[v] = pc[v]
    BY <1>9 DEF Parse, StoreSymbols, StoreFiles, Goto, IInv, Hands, WritersOK
  <2>3. \A u : Going(u) => Going(u)'
    BY <2>1, <2>2 DEF Going
  <2>4. symbols \cup nodes \subseteq symbols' \cup nodes'
    BY <1>9 DEF Parse, StoreSymbols, StoreFiles, table
  <2> QED BY <2>0, <2>1, <2>3, <2>4, EndsStay
<1>10. ASSUME NEW w \in Writers, StoreEdges(w) PROVE NoDanglingEdges'
  BY <1>10, StoreEnds
<1>11. ASSUME NEW w \in Writers, Interrupt(w) PROVE NoDanglingEdges'
  <2>1. /\ UNCHANGED <<symbols, nodes, edges, overlapped>>
        /\ Sound' => Sound /\ pc[w] \notin {"wipe files", "wipe edges", "drop node", "drop edges"}
    BY <1>11 DEF Interrupt, table, Sound
  <2>2. \A v \in Writers : v # w => doomed'[v] = doomed[v] /\ pc'[v] = pc[v]
    BY <1>11 DEF Interrupt, Rest, Goto, IInv, Hands, WritersOK
  <2>3. Sound' => doomed[w] \subseteq symbols \cup nodes
    <3>1. Sound => Keeps(w)
      BY DEF Sound, Sole, EInv
    <3>2. pc[w] \notin {"drop symbols", "drop node", "drop edges"} => doomed[w] = {}
      BY DEF IInv, Hands, Doomed, Removing
    <3> QED BY <2>1, <3>1, <3>2 DEF Keeps
  <2>4. Sound' => \A u : Going(u) => u \in symbols \cup nodes \/ Going(u)'
    BY <2>1, <2>2, <2>3 DEF Going
  <2>5. Sound' => Ended
    BY <2>1 DEF Sound, NoDanglingEdges, Ended
  <2>6. Sound' => Ended'
    BY <2>1, <2>4, <2>5 DEF Ended
  <2> QED BY <2>6 DEF Sound, NoDanglingEdges, Ended
<1>12. CASE UNCHANGED vars
  BY <1>1, <1>12 DEF vars, table, writer, history, Sound
<1> QED BY <1>2, <1>3, <1>4, <1>5, <1>6, <1>7, <1>8, <1>9, <1>10, <1>11, <1>12 DEF Next

\* No edge is left without its ends, however files are removed, analyzed anew
\* or given up on, unless a run stopped between two tables or runs overlapped:
\* delete_file_data deletes the edges of every uid it read before it deleted
\* any (store.rs), and a run stores its edges after their ends.
THEOREM NoDanglingEdgesAlways == Spec => []NoDanglingEdges
<1>1. Init => IInv /\ RInv /\ EInv /\ NoDanglingEdges
  BY InitInv, InitRows, InitKeeps
<1>2. IInv /\ RInv /\ EInv /\ NoDanglingEdges /\ [Next]_vars
        => (IInv /\ RInv /\ EInv /\ NoDanglingEdges)'
  BY StepInv, StepRows, StepKeeps, StepEnds
<1> QED BY <1>1, <1>2, PTL DEF Spec

-----------------------------------------------------------------------------
(* A full run that is alone makes the graph of what it read.  What two     *)
(* runs make of the same texts differs in its uids only.                   *)

\* The row of another run, in the same place.
Renamed(q, u) == Uid(q, u.file, u.item)
RenamedEdge(q, e) == Edge(Renamed(q, e.src), Renamed(q, e.dst), e.kind)

LEMMA RenamedPlace ==
    /\ \A q, u : Place(Renamed(q, u)) = Place(u)
    /\ \A q, e : Shape(RenamedEdge(q, e)) = Shape(e)
BY DEF Place, Renamed, RenamedEdge, Uid, Edge, Shape

LEMMA RenamedUid == \A q, r, f, i : Renamed(q, Uid(r, f, i)) = Uid(q, f, i)
BY DEF Renamed, Uid

LEMMA RenamedPair ==
    \A q, r, f, i, g, j, x :
        RenamedEdge(q, Edge(Uid(r, f, i), Uid(r, g, j), x)) = Edge(Uid(q, f, i), Uid(q, g, j), x)
BY DEF Edge, Uid, Renamed, RenamedEdge

LEMMA RenamedRows ==
    ASSUME NEW r, NEW q, NEW ord, NEW src
    PROVE  /\ \A u \in SymbolRows(r, ord, src) : Renamed(q, u) \in SymbolRows(q, ord, src)
           /\ \A u \in NodeRows(r, ord, src) : Renamed(q, u) \in NodeRows(q, ord, src)
<1>1. ASSUME NEW u \in SymbolRows(r, ord, src) PROVE Renamed(q, u) \in SymbolRows(q, ord, src)
  <2>1. PICK f \in Batch(ord, src) :
          u \in {Uid(r, f, i) : i \in src[f].defs}
                \cup {PersonUid(r, ord, src, p) : p \in src[f].people}
    BY DEF SymbolRows
  <2>2. ASSUME NEW i \in src[f].defs, u = Uid(r, f, i)
        PROVE  Renamed(q, u) \in SymbolRows(q, ord, src)
    BY <2>2, RenamedUid DEF SymbolRows
  <2>3. ASSUME NEW p \in src[f].people, u = PersonUid(r, ord, src, p)
        PROVE  Renamed(q, u) \in SymbolRows(q, ord, src)
    <3>1. Renamed(q, u) = PersonUid(q, ord, src, p)
      BY <2>3, RenamedUid DEF PersonUid
    <3> QED BY <3>1, PersonIsRow
  <2> QED BY <2>1, <2>2, <2>3
<1>2. ASSUME NEW u \in NodeRows(r, ord, src) PROVE Renamed(q, u) \in NodeRows(q, ord, src)
  BY RenamedUid DEF NodeRows
<1> QED BY <1>1, <1>2

LEMMA RenamedEdges ==
    ASSUME NEW r, NEW q, NEW k, NEW ord, NEW src, NEW e \in EdgeRows(r, k, ord, src)
    PROVE  RenamedEdge(q, e) \in EdgeRows(q, k, ord, src)
<1> DEFINE To(n) == Original(k, ord, src, n)
<1>1. CASE e \in CallEdges(r, k, ord, src)
  <2>1. PICK f \in Batch(ord, src) : \E c \in src[f].calls :
          /\ Defining(ord, src, c[1]) # {} /\ Defining(ord, src, To(c[2])) # {}
          /\ e = Edge(SymbolUid(r, ord, src, c[1]), SymbolUid(r, ord, src, To(c[2])), "calls")
    BY <1>1 DEF CallEdges
  <2>2. PICK c \in src[f].calls :
          /\ Defining(ord, src, c[1]) # {} /\ Defining(ord, src, To(c[2])) # {}
          /\ e = Edge(SymbolUid(r, ord, src, c[1]), SymbolUid(r, ord, src, To(c[2])), "calls")
    BY <2>1
  <2>3. RenamedEdge(q, e)
          = Edge(SymbolUid(q, ord, src, c[1]), SymbolUid(q, ord, src, To(c[2])), "calls")
    BY <2>2, RenamedPair DEF SymbolUid
  <2>4. RenamedEdge(q, e) \in CallEdges(q, k, ord, src)
    BY <2>2, <2>3 DEF CallEdges
  <2> QED BY <2>4 DEF EdgeRows
<1>2. CASE e \in SentEdges(r, ord, src)
  <2>1. PICK f \in Batch(ord, src) : \E p \in src[f].people :
          e = Edge(Uid(r, f, Text), PersonUid(r, ord, src, p), "sent")
    BY <1>2 DEF SentEdges
  <2>2. PICK p \in src[f].people : e = Edge(Uid(r, f, Text), PersonUid(r, ord, src, p), "sent")
    BY <2>1
  <2>3. RenamedEdge(q, e) = Edge(Uid(q, f, Text), PersonUid(q, ord, src, p), "sent")
    BY <2>2, RenamedPair DEF PersonUid
  <2>4. RenamedEdge(q, e) \in SentEdges(q, ord, src)
    BY <2>2, <2>3 DEF SentEdges
  <2> QED BY <2>4 DEF EdgeRows
<1>3. CASE e \in MentionEdges(r, ord, src)
  <2>1. PICK f \in Batch(ord, src) :
          \E n \in src[f].mentions : \E g \in Defining(ord, src, n) :
            e = Edge(Uid(r, f, Text), Uid(r, g, n), "mentions")
    BY <1>3 DEF MentionEdges
  <2>2. PICK n \in src[f].mentions : \E g \in Defining(ord, src, n) :
            e = Edge(Uid(r, f, Text), Uid(r, g, n), "mentions")
    BY <2>1
  <2>3. PICK g \in Defining(ord, src, n) : e = Edge(Uid(r, f, Text), Uid(r, g, n), "mentions")
    BY <2>2
  <2>4. RenamedEdge(q, e) = Edge(Uid(q, f, Text), Uid(q, g, n), "mentions")
    BY <2>3, RenamedPair
  <2>5. RenamedEdge(q, e) \in MentionEdges(q, ord, src)
    BY <2>4 DEF MentionEdges
  <2> QED BY <2>5 DEF EdgeRows
<1>4. CASE e \in ContainedEdges(r, ord, src)
  <2>1. PICK u \in SymbolRows(r, ord, src) : e = Edge(u, Uid(r, u.file, Node), "contained")
    BY <1>4 DEF ContainedEdges
  <2>2. Renamed(q, u).file = u.file
    BY DEF Renamed, Uid
  <2>3. RenamedEdge(q, e) = Edge(Renamed(q, u), Uid(q, Renamed(q, u).file, Node), "contained")
    BY <2>1 DEF RenamedEdge, Renamed, Edge, Uid
  <2>4. RenamedEdge(q, e) \in ContainedEdges(q, ord, src)
    BY <2>3, RenamedRows DEF ContainedEdges
  <2> QED BY <2>4 DEF EdgeRows
<1> QED BY <1>1, <1>2, <1>3, <1>4 DEF EdgeRows

Places(A) == {Place(u) : u \in A}
Shapes(A) == {Shape(e) : e \in A}

\* What two runs make of the same texts is in the same places.
LEMMA SamePlaces ==
    ASSUME NEW r, NEW q, NEW k, NEW ord, NEW src
    PROVE  /\ Places(SymbolRows(r, ord, src)) = Places(SymbolRows(q, ord, src))
           /\ Places(NodeRows(r, ord, src)) = Places(NodeRows(q, ord, src))
           /\ Shapes(EdgeRows(r, k, ord, src)) = Shapes(EdgeRows(q, k, ord, src))
<1>1. ASSUME NEW a, NEW b
      PROVE  /\ Places(SymbolRows(a, ord, src)) \subseteq Places(SymbolRows(b, ord, src))
             /\ Places(NodeRows(a, ord, src)) \subseteq Places(NodeRows(b, ord, src))
             /\ Shapes(EdgeRows(a, k, ord, src)) \subseteq Shapes(EdgeRows(b, k, ord, src))
  <2>1. \A u \in SymbolRows(a, ord, src) :
          Renamed(b, u) \in SymbolRows(b, ord, src) /\ Place(Renamed(b, u)) = Place(u)
    BY RenamedRows, RenamedPlace
  <2>2. \A u \in NodeRows(a, ord, src) :
          Renamed(b, u) \in NodeRows(b, ord, src) /\ Place(Renamed(b, u)) = Place(u)
    BY RenamedRows, RenamedPlace
  <2>3. \A e \in EdgeRows(a, k, ord, src) :
          RenamedEdge(b, e) \in EdgeRows(b, k, ord, src) /\ Shape(RenamedEdge(b, e)) = Shape(e)
    BY RenamedEdges, RenamedPlace
  <2>4. Places(SymbolRows(a, ord, src)) \subseteq Places(SymbolRows(b, ord, src))
    BY <2>1 DEF Places
  <2>5. Places(NodeRows(a, ord, src)) \subseteq Places(NodeRows(b, ord, src))
    BY <2>2 DEF Places
  <2>6. Shapes(EdgeRows(a, k, ord, src)) \subseteq Shapes(EdgeRows(b, k, ord, src))
    BY <2>3 DEF Shapes
  <2> QED BY <2>4, <2>5, <2>6
<1>2. /\ Places(SymbolRows(r, ord, src)) \subseteq Places(SymbolRows(q, ord, src))
      /\ Places(NodeRows(r, ord, src)) \subseteq Places(NodeRows(q, ord, src))
      /\ Shapes(EdgeRows(r, k, ord, src)) \subseteq Shapes(EdgeRows(q, k, ord, src))
  BY <1>1, Zenon
<1>3. /\ Places(SymbolRows(q, ord, src)) \subseteq Places(SymbolRows(r, ord, src))
      /\ Places(NodeRows(q, ord, src)) \subseteq Places(NodeRows(r, ord, src))
      /\ Shapes(EdgeRows(q, k, ord, src)) \subseteq Shapes(EdgeRows(r, k, ord, src))
  BY <1>1, Zenon
<1> QED BY <1>2, <1>3

LEMMA StepFresh == IInv /\ RInv /\ EInv /\ FreshInv /\ [Next]_vars => FreshInv'
<1> SUFFICES ASSUME IInv, RInv, EInv, FreshInv, [Next]_vars, fresh' PROVE Quiet' /\ IsGraphOf(read)'
  BY DEF FreshInv
<1>1. ASSUME UNCHANGED <<symbols, nodes, edges, read, pc, fresh>> PROVE Quiet' /\ IsGraphOf(read)'
  BY <1>1 DEF FreshInv, Quiet, Idle, IsGraphOf
<1>2. ASSUME NEW f \in Files, NEW c \in Contents \cup {NoFile}, Edit(f, c)
      PROVE  Quiet' /\ IsGraphOf(read)'
  BY <1>1, <1>2 DEF Edit, table, writer, history
<1>3. ASSUME NEW w \in Writers, StartFull(w) \/ StartBatch(w) \/ StartRemoval(w) PROVE FALSE
  BY <1>3 DEF StartFull, StartBatch, StartRemoval, Start
<1>4. ASSUME NEW w \in Writers, pc[w] # "idle" PROVE ~fresh
  BY <1>4 DEF FreshInv, Quiet, Idle
<1>5. ASSUME NEW w \in Writers,
             \/ WipeSymbols(w) \/ WipeFiles(w) \/ WipeEdges(w)
             \/ Collect(w) \/ DropSymbols(w) \/ DropNode(w) \/ DropEdges(w)
             \/ Parse(w) \/ StoreSymbols(w) \/ StoreFiles(w) \/ Interrupt(w)
      PROVE  FALSE
  <2>1. pc[w] # "idle" /\ fresh' = fresh
    BY <1>5 DEF WipeSymbols, WipeFiles, WipeEdges, Collect, DropSymbols, DropNode, DropEdges,
         Parse, StoreSymbols, StoreFiles, Interrupt, Idle, history
  <2> QED BY <1>4, <2>1
<1>6. ASSUME NEW w \in Writers, StoreEdges(w) PROVE Quiet' /\ IsGraphOf(read)'
  <2>1. pc[w] = "store edges" /\ kind[w] = "full" /\ alone[w]
    <3>1. pc[w] = "store edges" /\ (kind[w] = "full" => fresh' = alone[w])
          /\ (kind[w] # "full" => fresh' = fresh)
      BY <1>6 DEF StoreEdges
    <3> QED BY <1>4, <3>1
  <2>2. Sole(w)
    BY <2>1, Zenon DEF Sole
  <2>3. Quiet'
    <3>1. \A v \in Writers : v # w => pc[v] = "idle"
      BY <2>1, <2>2 DEF RInv, Solo
    <3> QED BY <1>6, <3>1 DEF StoreEdges, Rest, Goto, Quiet, Idle, IInv, Hands, WritersOK
  <2>4. order[w] = WalkOrder /\ read' = parsed[w]
    <3>1. order[w] = WalkOrder
      BY <2>1 DEF RInv, Walks
    <3>2. parsed[w] \in [Files -> Contents \cup {NoFile}]
      BY DEF IInv, Hands, WritersOK, Trees
    <3>3. read' = [f \in Files |-> IF f \in Files THEN parsed[w][f] ELSE read[f]]
      BY <1>6, <3>1 DEF StoreEdges, Files
    <3> QED BY <3>1, <3>2, <3>3
  <2>5. Ours(w) = KeptTexts("full", read')
    BY <2>1, <2>4 DEF Ours
  <2>6. /\ symbols = SymbolRows(run[w], WalkOrder, KeptTexts("full", read'))
        /\ nodes = NodeRows(run[w], WalkOrder, KeptTexts("full", read'))
        /\ edges = {}
    <3>1. symbols = OurRows(w) /\ nodes = OurNodes(w) /\ edges = {}
      BY <2>1, <2>2 DEF EInv, Keeps
    <3> QED BY <2>4, <2>5, <3>1 DEF OurRows, OurNodes
  <2> DEFINE texts == KeptTexts("full", read')
  <2>7. /\ symbols' = SymbolRows(run[w], WalkOrder, KeptTexts("full", read'))
        /\ nodes' = NodeRows(run[w], WalkOrder, KeptTexts("full", read'))
        /\ edges' = EdgeRows(run[w], "full", WalkOrder, KeptTexts("full", read'))
    BY <1>6, <2>1, <2>4, <2>5, <2>6 DEF StoreEdges
  <2>8. IsGraphOf(read)'
    <3>1. /\ Places(symbols') = Places(SymbolRows(0, WalkOrder, texts))
          /\ Places(nodes') = Places(NodeRows(0, WalkOrder, texts))
          /\ Shapes(edges') = Shapes(EdgeRows(0, "full", WalkOrder, texts))
      BY <2>7, SamePlaces
    <3> QED BY <3>1 DEF IsGraphOf, Places, Shapes
  <2> QED BY <2>3, <2>8
<1>7. CASE UNCHANGED vars
  BY <1>1, <1>7 DEF vars, table, writer, history
<1> QED BY <1>2, <1>3, <1>5, <1>6, <1>7 DEF Next

\* A full run that is alone settles the index: whatever interrupted or
\* overlapping runs left, the tables are the graph of the tree it read
\* (delete_repo_data, then Analyzer::analyze).
THEOREM FullRunRebuildsAlways == Spec => []FullRunRebuilds
<1>1. Init => IInv /\ RInv /\ EInv /\ FreshInv
  BY InitInv, InitRows, InitKeeps
<1>2. IInv /\ RInv /\ EInv /\ FreshInv /\ [Next]_vars => (IInv /\ RInv /\ EInv /\ FreshInv)'
  BY StepInv, StepRows, StepKeeps, StepFresh
<1>3. FreshInv => FullRunRebuilds
  BY DEF FreshInv, FullRunRebuilds
<1> QED BY <1>1, <1>2, <1>3, PTL DEF Spec
=============================================================================
