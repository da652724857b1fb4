-------------------------- MODULE IndexReaders_proofs -------------------------
(***************************************************************************)
(* Proofs about IndexReaders, for any writers, files and number of runs.   *)
(*                                                                         *)
(* The invariant RunsInv follows the one writer that is alone since it     *)
(* started, if there is one: FullIsOn and UpdateIsOn say, step by step,    *)
(* what its run has already done to the tables, and Calm that what such a  *)
(* run leaves behind is whole (Kept) until another run starts.  A call     *)
(* starts on a trusted index and is closed by the first write, so that     *)
(* what it has read is what the tables still hold (CallStands), and the    *)
(* two properties of answers are properties of the tables.                 *)
(***************************************************************************)
EXTENDS IndexReaders, TLAPS

\* The index as a run that was alone leaves it: a graph with both ends of every edge and
\* the file of every symbol; after a full run also groups of symbols that are there, and
\* the very graph that run built.
Coherent ==
    /\ index["relationships"] \subseteq Each(index["symbols"])
    /\ index["symbols"] \subseteq index["files"]
GroupsKnown == \A g \in index["communities"] \cup index["processes"] : g \subseteq index["symbols"]
Kept(level) ==
    /\ level # "none" => Coherent
    /\ level = "whole" => GroupsKnown /\ Graph(index) = built

\* While it is trusted no run is at work, unless it has only its snapshot to save.
LoneIsAlone == \A v, w \in Indexers : lone = w /\ stage[w] # 0 /\ v # w => stage[v] = 0
Calm ==
    trust # "none" =>
        /\ Kept(trust) /\ (saved => snapshot = built)
        /\ \A w \in Indexers : stage[w] # 0 =>
              lone = w /\ work[w].kind = "full" /\ stage[w] = 13

\* What a full run that is alone has done before the step it takes next.
FullIsOn(w) ==
    LET i == stage[w]
        found == Found(w)
    IN  /\ i \in 2..6 => index["symbols"] = {}
        /\ i \in 7..13 => index["symbols"] = found
        /\ i \in 3..7 => index["files"] = {}
        /\ i \in 8..13 => index["files"] = found
        /\ i \in 4..8 => index["relationships"] = {}
        /\ i \in 9..13 => index["relationships"] = Each(found)
        /\ i \in 5..11 => index["communities"] = {}
        /\ i \in 12..13 => \A g \in index["communities"] : g \subseteq found
        /\ i \in 6..12 => index["processes"] = {}
        /\ i \in 10..13 => loaded[w].symbols = found
        /\ i \in 11..13 => loaded[w].relationships = Each(found)
        /\ i = 13 => loaded[w] = built /\ ~saved

\* The same for the update or the removal of files, on an index that was trusted.
UpdateIsOn(w) ==
    LET i == stage[w]
        gone == loaded[w].symbols
    IN  /\ saved => snapshot = built
        /\ i \in {1, 2, 5, 7} => Coherent
        /\ i = 2 => gone = OfFiles(w, index["symbols"])
        /\ i = 3 => OfFiles(w, index["symbols"]) = {}
        /\ i \in {3, 4} => /\ index["symbols"] \subseteq index["files"]
                           /\ index["relationships"] \subseteq Each(index["symbols"] \cup gone)
        /\ i \in {6, 7} => Found(w) \subseteq index["symbols"]
        /\ i = 6 => /\ index["symbols"] \subseteq index["files"] \cup Found(w)
                    /\ index["relationships"] \subseteq Each(index["symbols"])
RunFacts(w) ==
    /\ work[w].kind = "full" => FullIsOn(w)
    /\ work[w].kind # "full" /\ before # "none" => UpdateIsOn(w)
RunIsOn == \A w \in Indexers : lone = w /\ stage[w] # 0 => RunFacts(w)

\* What the call in progress has read is still so.
CallStands ==
    call.open =>
        /\ call.trust # "none" /\ Kept(call.trust)
        /\ call.saved => snapshot = built
        /\ ~call.holes =>
              \A x \in call.seen : \/ x[1] \in Tables /\ x = <<x[1], index[x[1]]>>
                                   \/ x = <<"snapshot", snapshot>>

\* How far a run of each kind goes.
InRun ==
    \A w \in Indexers :
        /\ stage[w] <= Len(Steps(w))
        /\ work[w].kind = "full" /\ stage[w] # 0 => work[w].files = CodeFiles
CallTyped ==
    /\ call = [open |-> call.open, left |-> call.left, lenient |-> call.lenient,
               seen |-> call.seen, short |-> call.short, trust |-> call.trust,
               saved |-> call.saved, full |-> call.full, holes |-> call.holes]
    /\ {call.open, call.saved, call.holes} \subseteq BOOLEAN

ReadInv ==
    ReadersTypeOK /\ CallTyped /\ InRun /\ LoneIsAlone /\ Calm /\ RunIsOn /\ CallStands

-----------------------------------------------------------------------------
(* The steps of a run. *)

LEMMA Lengths ==
  /\ Len(FullRun) = 13 /\ Len(Update) = 7 /\ Len(Removal) = 4
  /\ DOMAIN StepsOf = {"full", "update", "removal"}
  /\ StepsOf["full"] = FullRun /\ StepsOf["update"] = Update /\ StepsOf["removal"] = Removal
BY DEF FullRun, Update, Removal, StepsOf

LEMMA FullAt ==
  ASSUME NEW i \in 1..13, NEW what, NEW t, FullRun[i] = <<what, t>>
  PROVE  /\ what = "wipe" => i = CASE t = "symbols" -> 1 [] t = "files" -> 2
                                   [] t = "relationships" -> 3 [] t = "communities" -> 4
                                   [] OTHER -> 5
         /\ what = "store" => i = IF t = "symbols" THEN 6 ELSE IF t = "files" THEN 7 ELSE 8
         /\ what = "load" => i = IF t = "symbols" THEN 9 ELSE 10
         /\ what = "derive" => i = IF t = "communities" THEN 11 ELSE 12
         /\ what = "save" => i = 13
         /\ what \in {"wipe", "store", "load", "derive", "save"}
BY DEF FullRun

LEMMA UpdateAt ==
  ASSUME NEW i \in 1..7, NEW what, NEW t, Update[i] = <<what, t>>
  PROVE  /\ what = "collect" => i = 1
         /\ what = "drop" => i = IF t = "symbols" THEN 2 ELSE IF t = "files" THEN 3 ELSE 4
         /\ what = "store" => i = IF t = "symbols" THEN 5 ELSE IF t = "files" THEN 6 ELSE 7
         /\ what \in {"collect", "drop", "store"}
BY DEF Update

LEMMA RemovalAt ==
  ASSUME NEW i \in 1..4, NEW what, NEW t, Removal[i] = <<what, t>>
  PROVE  /\ what = "collect" => i = 1
         /\ what = "drop" => i = IF t = "symbols" THEN 2 ELSE IF t = "files" THEN 3 ELSE 4
         /\ what \in {"collect", "drop"}
BY DEF Removal

\* Where a run is, by what it does next.
At(w, what, t) ==
    \/ work[w].kind = "full" /\ stage[w] \in 1..13 /\ FullRun[stage[w]] = <<what, t>>
    \/ work[w].kind = "update" /\ stage[w] \in 1..7 /\ Update[stage[w]] = <<what, t>>
    \/ work[w].kind = "removal" /\ stage[w] \in 1..4 /\ Removal[stage[w]] = <<what, t>>

LEMMA StepIs ==
  ASSUME ReadersTypeOK, InRun, NEW w \in Indexers, NEW what, NEW t, NEW rows,
         Step(w, what, t, rows)
  PROVE  /\ At(w, what, t) /\ stage[w] # 0
         /\ AtLast(w) <=> stage[w] = CASE work[w].kind = "full" -> 13
                                       [] work[w].kind = "update" -> 7
                                       [] OTHER -> 4
<1>1. stage[w] \in 0..13 /\ stage[w] # 0 /\ stage[w] <= Len(Steps(w))
      /\ Steps(w)[stage[w]] = <<what, t>>
  BY DEF ReadersTypeOK, InRun, Step
<1>2. work[w].kind \in {"full", "update", "removal"}
  BY Lengths DEF ReadersTypeOK
<1>3. CASE work[w].kind = "full"
  <2>1. Steps(w) = FullRun /\ Len(Steps(w)) = 13
    BY <1>3, Lengths DEF Steps
  <2>2. stage[w] \in 1..13 /\ FullRun[stage[w]] = <<what, t>> /\ (AtLast(w) <=> stage[w] = 13)
    BY <1>1, <2>1 DEF AtLast
  <2> QED BY <1>1, <1>3, <2>2 DEF At
<1>4. CASE work[w].kind = "update"
  <2>1. Steps(w) = Update /\ Len(Steps(w)) = 7
    BY <1>4, Lengths DEF Steps
  <2>2. stage[w] \in 1..7 /\ Update[stage[w]] = <<what, t>> /\ (AtLast(w) <=> stage[w] = 7)
    BY <1>1, <2>1 DEF AtLast
  <2> QED BY <1>1, <1>4, <2>2 DEF At
<1>5. CASE work[w].kind = "removal"
  <2>1. Steps(w) = Removal /\ Len(Steps(w)) = 4
    BY <1>5, Lengths DEF Steps
  <2>2. stage[w] \in 1..4 /\ Removal[stage[w]] = <<what, t>> /\ (AtLast(w) <=> stage[w] = 4)
    BY <1>1, <2>1 DEF AtLast
  <2> QED BY <1>1, <1>5, <2>2 DEF At
<1> QED BY <1>2, <1>3, <1>4, <1>5

-----------------------------------------------------------------------------
(* Types. *)

LocalTyped ==
    /\ work \in [Indexers -> [kind : {"full", "update", "removal"}, run : 0..MaxStarts,
                              files : SUBSET CodeFiles]]
    /\ stage \in [Indexers -> 0..13] /\ loaded \in [Indexers -> Graphs]

LEMMA NoWorkIs ==
  /\ NoWork \in [kind : {"full", "update", "removal"}, run : 0..MaxStarts, files : SUBSET CodeFiles]
  /\ NoRows \in Graphs /\ NoWork.kind = "full"
BY ReadersAssumption DEF NoWork, NoRows, Graphs

LEMMA EndTyped ==
  ASSUME LocalTyped, InRun, NEW w \in Indexers, EndRun(w) PROVE LocalTyped' /\ InRun'
<1>1. LocalTyped'
  <2>1. /\ stage' = [stage EXCEPT ![w] = 0] /\ work' = [work EXCEPT ![w] = NoWork]
        /\ loaded' = [loaded EXCEPT ![w] = NoRows]
    BY DEF EndRun
  <2> QED BY <2>1, NoWorkIs DEF LocalTyped
<1>2. ASSUME NEW v \in Indexers
      PROVE  /\ stage'[v] <= Len(Steps(v)')
             /\ work'[v].kind = "full" /\ stage'[v] # 0 => work'[v].files = CodeFiles
  <2>1. CASE v = w
    <3>1. stage'[v] = 0 /\ Steps(v)' = FullRun
      BY <2>1, NoWorkIs, Lengths DEF LocalTyped, EndRun, Steps
    <3> QED BY <3>1, Lengths
  <2>2. CASE v # w
    <3>1. stage'[v] = stage[v] /\ work'[v] = work[v]
      BY <2>2 DEF LocalTyped, EndRun
    <3> QED BY <3>1 DEF InRun, Steps
  <2> QED BY <2>1, <2>2
<1> QED BY <1>1, <1>2 DEF InRun

LEMMA StepTyped ==
  ASSUME LocalTyped, InRun, NEW w \in Indexers, NEW what, NEW t, NEW rows \in Graphs,
         Step(w, what, t, rows)
  PROVE  LocalTyped' /\ InRun'
<1>1. CASE AtLast(w)
  BY <1>1, EndTyped DEF Step
<1>2. CASE ~AtLast(w)
  <2>0. /\ stage' = [stage EXCEPT ![w] = @ + 1] /\ loaded' = [loaded EXCEPT ![w] = rows]
        /\ work' = work
    BY <1>2 DEF Step
  <2>1. Len(Steps(w)) \in {4, 7, 13} /\ stage[w] <= Len(Steps(w)) /\ stage[w] # Len(Steps(w))
    BY <1>2, Lengths DEF LocalTyped, Steps, InRun, AtLast
  <2>2. stage[w] + 1 \in 0..13 /\ stage[w] + 1 <= Len(Steps(w))
    <3> DEFINE n == Len(Steps(w))
    <3>1. n \in {4, 7, 13} /\ stage[w] <= n /\ stage[w] # n /\ stage[w] \in 0..13
      BY <2>1 DEF LocalTyped
    <3> HIDE DEF n
    <3>2. stage[w] + 1 \in 0..13 /\ stage[w] + 1 <= n
      BY <3>1
    <3> QED BY <3>2 DEF n
  <2>3. LocalTyped'
    BY <2>0, <2>2 DEF LocalTyped
  <2>4. ASSUME NEW v \in Indexers
        PROVE  /\ stage'[v] <= Len(Steps(v)')
               /\ work'[v].kind = "full" /\ stage'[v] # 0 => work'[v].files = CodeFiles
    <3>1. Steps(v)' = Steps(v) /\ work'[v] = work[v]
      BY <2>0 DEF Steps
    <3>2. CASE v = w
      <4>1. stage'[v] = stage[v] + 1 /\ stage[v] # 0
        BY <2>0, <3>2 DEF LocalTyped, Step
      <4> QED BY <2>2, <3>1, <3>2, <4>1 DEF InRun
    <3>3. CASE v # w
      BY <2>0, <3>1, <3>3 DEF LocalTyped, InRun
    <3> QED BY <3>2, <3>3
  <2> QED BY <2>3, <2>4 DEF InRun
<1> QED BY <1>1, <1>2

LEMMA NotEmpty == ASSUME NEW n \in {4, 7, 13} PROVE 1 <= n
OBVIOUS

LEMMA LaunchTyped ==
  ASSUME LocalTyped, InRun, starts \in 0..MaxStarts, NEW w \in Indexers,
         NEW kind \in {"full", "update", "removal"}, NEW files \in SUBSET CodeFiles,
         kind = "full" => files = CodeFiles, Launch(w, kind, files)
  PROVE  LocalTyped' /\ InRun' /\ starts' \in 0..MaxStarts
<1> DEFINE job == [kind |-> kind, run |-> starts + 1, files |-> files]
<1>1. starts' \in 0..MaxStarts /\ starts + 1 \in 0..MaxStarts
  BY ReadersAssumption DEF Launch
<1>2. stage' = [stage EXCEPT ![w] = 1] /\ work' = [work EXCEPT ![w] = job] /\ loaded' = loaded
  BY DEF Launch
<1>3. LocalTyped'
  BY <1>1, <1>2 DEF LocalTyped
<1>4. ASSUME NEW v \in Indexers
      PROVE  /\ stage'[v] <= Len(Steps(v)')
             /\ work'[v].kind = "full" /\ stage'[v] # 0 => work'[v].files = CodeFiles
  <2>1. CASE v = w
    <3>1. stage'[v] = 1 /\ work'[v] = job
      BY <1>2, <2>1 DEF LocalTyped
    <3>2. Len(Steps(v)') \in {4, 7, 13}
      BY <3>1, Lengths DEF Steps
    <3>3. 1 <= Len(Steps(v)')
      BY <3>2, NotEmpty, Zenon
    <3>4. job.kind = "full" => job.files = CodeFiles
      OBVIOUS
    <3> HIDE DEF job
    <3> QED BY <3>1, <3>3, <3>4
  <2>2. CASE v # w
    <3>1. stage'[v] = stage[v] /\ work'[v] = work[v]
      BY <1>2, <2>2 DEF LocalTyped
    <3> QED BY <3>1 DEF InRun, Steps
  <2> QED BY <2>1, <2>2
<1> QED BY <1>1, <1>3, <1>4 DEF InRun

IndexTyped ==
    /\ index = [t \in Tables |-> index[t]]
    /\ index["symbols"] \subseteq Rows /\ index["files"] \subseteq Rows
    /\ index["relationships"] \subseteq Rows \X Rows
    /\ index["communities"] \subseteq SUBSET Rows /\ index["processes"] \subseteq SUBSET Rows

LEMMA TypedIs ==
  ReadersTypeOK <=> /\ LocalTyped /\ IndexTyped
                    /\ snapshot \in Graphs \cup {NoSnapshot} /\ starts \in 0..MaxStarts
                    /\ built \in Graphs /\ saved \in BOOLEAN
                    /\ {trust, before} \subseteq {"whole", "updated", "none"}
BY Lengths DEF ReadersTypeOK, LocalTyped, IndexTyped

\* The rows a table may hold.
RowsOf(t) == IF t \in {"symbols", "files"} THEN Rows
             ELSE IF t = "relationships" THEN Rows \X Rows ELSE SUBSET Rows

LEMMA WriteTyped ==
  ASSUME IndexTyped, NEW t \in Tables, NEW rows, rows \subseteq RowsOf(t), Write(t, rows)
  PROVE  IndexTyped'
<1>1. index' = [index EXCEPT ![t] = rows]
  BY DEF Write
<1>2. index' = [u \in Tables |-> IF u = t THEN rows ELSE index[u]]
  BY <1>1 DEF IndexTyped
<1>3. \A u \in Tables : index'[u] = IF u = t THEN rows ELSE index[u]
  BY <1>2
<1>4. index' = [u \in Tables |-> index'[u]]
  BY <1>2, <1>3, Zenon
<1>5. /\ index'["symbols"] \subseteq Rows /\ index'["files"] \subseteq Rows
      /\ index'["relationships"] \subseteq Rows \X Rows
      /\ index'["communities"] \subseteq SUBSET Rows /\ index'["processes"] \subseteq SUBSET Rows
  BY <1>3 DEF IndexTyped, Tables, RowsOf
<1> QED BY <1>4, <1>5 DEF IndexTyped

LEMMA RowsTyped ==
  ASSUME IndexTyped, NEW t \in Tables PROVE index[t] \subseteq RowsOf(t)
BY DEF IndexTyped, Tables, RowsOf

LEMMA FoundTyped ==
  ASSUME LocalTyped, NEW w \in Indexers
  PROVE  Found(w) \subseteq Rows /\ Each(Found(w)) \subseteq Rows \X Rows
BY ReadersAssumption DEF LocalTyped, Found, Each, Rows

LEMMA NoCallTyped == ASSUME call' = NoCall PROVE CallTyped'
BY DEF CallTyped, NoCall

LEMMA LoadedTyped ==
  ASSUME LocalTyped, NEW w \in Indexers
  PROVE  /\ loaded[w] \in Graphs /\ loaded[w].symbols \subseteq Rows
         /\ loaded[w].relationships \subseteq Rows \X Rows
         /\ loaded[w] = [symbols |-> loaded[w].symbols,
                         relationships |-> loaded[w].relationships]
BY DEF LocalTyped, Graphs

TypedInv == ReadersTypeOK /\ CallTyped /\ InRun

LEMMA ReadTypedInit == ReadersInit => TypedInv
<1> SUFFICES ASSUME ReadersInit PROVE TypedInv
  OBVIOUS
<1>1. LocalTyped /\ starts \in 0..MaxStarts
  BY NoWorkIs, ReadersAssumption DEF ReadersInit, LocalTyped
<1>2. IndexTyped
  <2>1. CASE full = 1
    <3>1. index = Built(0)
      BY <2>1 DEF ReadersInit
    <3>2. index = [t \in Tables |-> index[t]]
      BY <3>1 DEF Built, Tables
    <3>3. {0} \X CodeFiles \subseteq Rows
      BY ReadersAssumption DEF Rows
    <3> QED BY <3>1, <3>2, <3>3 DEF IndexTyped, Built, Each
  <2>2. CASE full # 1
    <3>1. index = [t \in Tables |-> {}]
      BY <2>2 DEF ReadersInit
    <3> QED BY <3>1 DEF IndexTyped, Tables
  <2> QED BY <2>1, <2>2
<1>3. built \in Graphs
  BY <1>2 DEF ReadersInit, IndexTyped, Graph, Graphs
<1>4. ReadersTypeOK
  BY <1>1, <1>2, <1>3, TypedIs DEF ReadersInit
<1>5. InRun
  <2>1. ASSUME NEW w \in Indexers PROVE stage[w] = 0 /\ Steps(w) = FullRun
    BY NoWorkIs, Lengths DEF ReadersInit, Steps
  <2> QED BY <2>1, Lengths DEF InRun
<1> QED BY <1>4, <1>5 DEF TypedInv, CallTyped, ReadersInit, NoCall

LEMMA ReadTypedStep == TypedInv /\ [ReadersNext]_readerVars => TypedInv'
<1> SUFFICES ASSUME TypedInv, [ReadersNext]_readerVars PROVE TypedInv'
  OBVIOUS
<1>0. /\ LocalTyped /\ IndexTyped /\ InRun /\ CallTyped
      /\ snapshot \in Graphs \cup {NoSnapshot} /\ starts \in 0..MaxStarts
      /\ built \in Graphs /\ saved \in BOOLEAN
      /\ {trust, before} \subseteq {"whole", "updated", "none"}
  BY TypedIs DEF TypedInv
<1> DEFINE Others == /\ snapshot' \in Graphs \cup {NoSnapshot} /\ starts' \in 0..MaxStarts
                     /\ built' \in Graphs /\ saved' \in BOOLEAN
                     /\ {trust', before'} \subseteq {"whole", "updated", "none"}
<1>A. ASSUME LocalTyped', IndexTyped', InRun', CallTyped', Others PROVE TypedInv'
  BY <1>A, Lengths DEF TypedInv, ReadersTypeOK, LocalTyped, IndexTyped
<1>B. ASSUME UNCHANGED index PROVE IndexTyped'
  BY <1>0, <1>B DEF IndexTyped
<1>C. ASSUME UNCHANGED call PROVE CallTyped'
  BY <1>0, <1>C DEF CallTyped
<1>D. ASSUME UNCHANGED <<stage, work, loaded>> PROVE LocalTyped' /\ InRun'
  BY <1>0, <1>D DEF LocalTyped, InRun, Steps
<1>1. ASSUME NEW w \in Indexers, NEW kind \in {"full", "update", "removal"},
             NEW files \in SUBSET CodeFiles, kind = "full" => files = CodeFiles,
             Launch(w, kind, files)
      PROVE  TypedInv'
  <2>1. LocalTyped' /\ InRun' /\ starts' \in 0..MaxStarts
    BY <1>0, <1>1, LaunchTyped
  <2>2. Others /\ UNCHANGED <<index, call>>
    BY <1>0, <1>1, <2>1 DEF Launch, shared
  <2> QED BY <1>A, <1>B, <1>C, <2>1, <2>2
<1>2. ASSUME NEW w \in Indexers, LaunchFull(w) \/ LaunchUpdate(w) \/ LaunchRemoval(w)
      PROVE  TypedInv'
  BY <1>1, <1>2 DEF LaunchFull, LaunchUpdate, LaunchRemoval
<1>3. ASSUME NEW w \in Indexers, Wipe(w) PROVE TypedInv'
  <2>1. PICK t \in Tables : Step(w, "wipe", t, loaded[w]) /\ Write(t, {})
    BY <1>3 DEF Wipe
  <2>2. LocalTyped' /\ InRun'
    BY <1>0, <2>1, StepTyped, LoadedTyped
  <2>3. IndexTyped' /\ CallTyped'
    <3>1. {} \subseteq RowsOf(t)
      OBVIOUS
    <3>2. IndexTyped'
      BY <1>0, <2>1, <3>1, WriteTyped
    <3>3. call' = NoCall
      BY <2>1 DEF Write
    <3> QED BY <3>2, <3>3, NoCallTyped
  <2>4. Others
    BY <1>0, <1>3, <2>1 DEF Wipe, readHistory, Step, Write
  <2> QED BY <1>A, <2>2, <2>3, <2>4
<1>4. ASSUME NEW w \in Indexers, Store(w) PROVE TypedInv'
  <2> DEFINE new(t) == IF t = "relationships" THEN Each(Found(w)) ELSE Found(w)
  <2>1. PICK t \in {"symbols", "files", "relationships"} :
           Step(w, "store", t, loaded[w]) /\ Write(t, index[t] \cup new(t))
    BY <1>4 DEF Store
  <2>2. LocalTyped' /\ InRun'
    BY <1>0, <2>1, StepTyped, LoadedTyped
  <2>3. t \in Tables /\ index[t] \cup new(t) \subseteq RowsOf(t)
    BY <1>0, FoundTyped, RowsTyped DEF Tables, RowsOf
  <2>4. IndexTyped' /\ CallTyped'
    <3> HIDE DEF new
    <3> QED BY <1>0, <2>1, <2>3, WriteTyped, NoCallTyped DEF Write
  <2>5. Others
    <3> HIDE DEF new
    <3> QED BY <1>0, <1>4, <2>1 DEF Store, EndUpdate, Step, Write
  <2> QED BY <1>A, <2>2, <2>4, <2>5
<1>5. ASSUME NEW w \in Indexers, Load(w) PROVE TypedInv'
  <2>1. PICK t \in {"symbols", "relationships"} :
           Step(w, "load", t, [loaded[w] EXCEPT ![t] = index[t]])
    BY <1>5 DEF Load
  <2>2. [loaded[w] EXCEPT ![t] = index[t]] \in Graphs
    BY <1>0, LoadedTyped DEF IndexTyped, Graphs
  <2>3. LocalTyped' /\ InRun'
    BY <1>0, <2>1, <2>2, StepTyped
  <2>4. Others /\ UNCHANGED <<index, call>>
    BY <1>0, <1>5, <2>1 DEF Load, shared, readHistory, Step
  <2> QED BY <1>A, <1>B, <1>C, <2>3, <2>4
<1>6. ASSUME NEW w \in Indexers, Derive(w) PROVE TypedInv'
  <2>1. PICK t \in {"communities", "processes"} :
           /\ Step(w, "derive", t, loaded[w])
           /\ Write(t, index[t] \cup ({Members(w, t)} \ {{}}))
    BY <1>6 DEF Derive
  <2>2. LocalTyped' /\ InRun'
    BY <1>0, <2>1, StepTyped, LoadedTyped
  <2>3. Members(w, t) \subseteq Rows
    BY <1>0, LoadedTyped DEF Members
  <2>4. t \in Tables /\ index[t] \cup ({Members(w, t)} \ {{}}) \subseteq RowsOf(t)
    BY <1>0, <2>3, RowsTyped DEF Tables, RowsOf
  <2>5. IndexTyped' /\ CallTyped'
    BY <1>0, <2>1, <2>4, WriteTyped, NoCallTyped DEF Write
  <2>6. Others
    BY <1>0, <1>6, <2>1, LoadedTyped DEF Derive, Step, Write
  <2> QED BY <1>A, <2>2, <2>5, <2>6
<1>7. ASSUME NEW w \in Indexers, Save(w) PROVE TypedInv'
  <2>1. LocalTyped' /\ InRun' /\ UNCHANGED index /\ CallTyped'
    BY <1>0, <1>7, StepTyped, LoadedTyped, NoCallTyped DEF Save
  <2>2. Others
    BY <1>0, <1>7, LoadedTyped DEF Save, Step
  <2> QED BY <1>A, <1>B, <2>1, <2>2
<1>8. ASSUME NEW w \in Indexers, SaveFails(w) PROVE TypedInv'
  <2>1. LocalTyped' /\ InRun' /\ UNCHANGED <<index, call>>
    BY <1>0, <1>8, StepTyped, LoadedTyped DEF SaveFails, shared
  <2>2. Others
    BY <1>0, <1>8 DEF SaveFails, Step, shared
  <2> QED BY <1>A, <1>B, <1>C, <2>1, <2>2
<1>9. ASSUME NEW w \in Indexers, CollectUids(w) PROVE TypedInv'
  <2>1. [loaded[w] EXCEPT !.symbols = OfFiles(w, index["symbols"])] \in Graphs
    BY <1>0, LoadedTyped DEF IndexTyped, OfFiles, Graphs
  <2>2. LocalTyped' /\ InRun' /\ UNCHANGED <<index, call>>
    BY <1>0, <1>9, <2>1, StepTyped DEF CollectUids, shared
  <2>3. Others
    BY <1>0, <1>9 DEF CollectUids, Step, shared, readHistory
  <2> QED BY <1>A, <1>B, <1>C, <2>2, <2>3
<1>10. ASSUME NEW w \in Indexers, Drop(w) PROVE TypedInv'
  <2> DEFINE doomed(t) == IF t = "relationships" THEN Touching(w, index[t])
                          ELSE OfFiles(w, index[t])
  <2>1. PICK t \in {"symbols", "files", "relationships"} :
           Step(w, "drop", t, loaded[w]) /\ Write(t, index[t] \ doomed(t))
    BY <1>10 DEF Drop
  <2> HIDE DEF doomed
  <2>2. LocalTyped' /\ InRun'
    BY <1>0, <2>1, StepTyped, LoadedTyped
  <2>3. t \in Tables /\ index[t] \ doomed(t) \subseteq RowsOf(t)
    BY <1>0, RowsTyped DEF Tables
  <2>4. IndexTyped' /\ CallTyped'
    BY <1>0, <2>1, <2>3, WriteTyped, NoCallTyped DEF Write
  <2>5. Others
    BY <1>0, <1>10, <2>1 DEF Drop, EndUpdate, Step, Write
  <2> QED BY <1>A, <2>2, <2>4, <2>5
<1>11. ASSUME NEW w \in Indexers, CutOff(w) PROVE TypedInv'
  <2>1. LocalTyped' /\ InRun' /\ UNCHANGED <<index, call>>
    BY <1>0, <1>11, EndTyped DEF CutOff, shared
  <2>2. Others
    BY <1>0, <1>11 DEF CutOff, shared, readHistory
  <2> QED BY <1>A, <1>B, <1>C, <2>1, <2>2
<1>12. ASSUME Ask \/ Read \/ ReadFails \/ ReadSnapshot \/ ReadVersions \/ Answer PROVE TypedInv'
  <2>1. UNCHANGED <<shared, runState, readHistory>>
    BY <1>12 DEF Ask, Read, ReadFails, ReadSnapshot, ReadVersions, Answer
  <2>2. CallTyped'
    <3>1. CASE Ask
      BY <1>0, <3>1 DEF Ask, CallTyped, NoCall
    <3>2. CASE Read
      BY <1>0, <3>2 DEF Read, AfterRead, CallTyped
    <3>3. CASE ReadFails
      BY <1>0, <3>3, NoCallTyped DEF ReadFails, AfterRead, CallTyped
    <3>4. CASE ReadSnapshot
      BY <1>0, <3>4, NoCallTyped DEF ReadSnapshot, AfterRead, CallTyped
    <3>5. CASE ReadVersions
      BY <1>0, <3>5 DEF ReadVersions, AfterRead, CallTyped
    <3>6. CASE Answer
      BY <3>6, NoCallTyped DEF Answer
    <3> QED BY <1>12, <3>1, <3>2, <3>3, <3>4, <3>5, <3>6
  <2>3. Others
    BY <1>0, <2>1 DEF shared, runState, readHistory
  <2> QED BY <1>A, <1>B, <1>D, <2>1, <2>2, <2>3 DEF shared, runState
<1>14. ASSUME NEW w \in Indexers, SaveTorn(w) PROVE TypedInv'
  <2>1. LocalTyped' /\ InRun' /\ UNCHANGED index /\ CallTyped'
    BY <1>0, <1>14, StepTyped, LoadedTyped, NoCallTyped DEF SaveTorn
  <2>2. Others
    BY <1>0, <1>14 DEF SaveTorn, Step
  <2> QED BY <1>A, <1>B, <2>1, <2>2
<1>13. CASE UNCHANGED readerVars
  <2>1. UNCHANGED <<shared, runState, call, readHistory>>
    BY <1>13 DEF readerVars
  <2>2. Others
    BY <1>0, <2>1 DEF shared, runState, readHistory
  <2> QED BY <1>A, <1>B, <1>C, <1>D, <2>1, <2>2 DEF shared, runState
<1> QED BY <1>2, <1>3, <1>4, <1>5, <1>6, <1>7, <1>8, <1>9, <1>10, <1>11, <1>12, <1>13, <1>14
        DEF ReadersNext

-----------------------------------------------------------------------------
(* The run of a writer that is alone. *)

LEMMA EachIs ==
  ASSUME NEW S, NEW e PROVE e \in Each(S) => e = <<e[1], e[2]>> /\ e[1] \in S /\ e[2] \in S
BY DEF Each

LEMMA EachGrows == ASSUME NEW S, NEW T, S \subseteq T PROVE Each(S) \subseteq Each(T)
BY DEF Each

LEMMA StepMoves ==
  ASSUME LocalTyped, NEW w \in Indexers, NEW what, NEW t, NEW rows, Step(w, what, t, rows)
  PROVE  /\ \A v \in Indexers : v # w => /\ stage'[v] = stage[v] /\ work'[v] = work[v]
                                         /\ loaded'[v] = loaded[v]
         /\ AtLast(w) => stage'[w] = 0
         /\ ~AtLast(w) => /\ stage'[w] = stage[w] + 1 /\ work'[w] = work[w]
                          /\ loaded'[w] = rows
BY DEF LocalTyped, Step, EndRun

\* Who is alone stays so, and only its own run has to be looked at.
LEMMA RunOfOne ==
  ASSUME LocalTyped, LoneIsAlone, NEW w \in Indexers, NEW what, NEW t, NEW rows,
         Step(w, what, t, rows), lone' = lone,
         lone = w /\ stage'[w] # 0 => RunFacts(w)'
  PROVE  LoneIsAlone' /\ RunIsOn'
<1>1. \A v \in Indexers : v # w => stage'[v] = stage[v]
  BY StepMoves
<1>2. stage[w] # 0
  BY DEF Step
<1>3. \A v \in Indexers : v # w /\ lone = v => stage[v] = 0
  BY <1>2 DEF LoneIsAlone
<1>4. LoneIsAlone'
  <2>1. ASSUME NEW u \in Indexers, NEW v \in Indexers, lone' = v, stage'[v] # 0, u # v
        PROVE  stage'[u] = 0
    <3>1. v = w
      BY <1>1, <1>3, <2>1
    <3>2. stage[u] = 0 /\ stage'[u] = stage[u]
      BY <1>1, <1>2, <2>1, <3>1 DEF LoneIsAlone
    <3> QED BY <3>2
  <2> QED BY <2>1 DEF LoneIsAlone
<1>5. ASSUME NEW v \in Indexers, lone' = v, stage'[v] # 0 PROVE RunFacts(v)'
  BY <1>1, <1>3, <1>5
<1> QED BY <1>4, <1>5 DEF RunIsOn

LEMMA WriteIs ==
  ASSUME IndexTyped, NEW t \in Tables, NEW rows, Write(t, rows)
  PROVE  /\ index'[t] = rows /\ \A u \in Tables : u # t => index'[u] = index[u]
         /\ snapshot' = snapshot
BY DEF Write, IndexTyped

LEMMA FullWipe ==
  ASSUME TypedInv, NEW w \in Indexers, NEW t \in Tables, work[w].kind = "full", FullIsOn(w),
         Step(w, "wipe", t, loaded[w]), Write(t, {})
  PROVE  FullIsOn(w)'
<1>0. LocalTyped /\ IndexTyped /\ InRun
  BY TypedIs DEF TypedInv
<1>1. At(w, "wipe", t) /\ (AtLast(w) <=> stage[w] = 13)
  BY StepIs DEF TypedInv
<1>2. \/ t = "symbols" /\ stage[w] = 1
      \/ t = "files" /\ stage[w] = 2
      \/ t = "relationships" /\ stage[w] = 3
      \/ t = "communities" /\ stage[w] = 4
      \/ t = "processes" /\ stage[w] = 5
  BY <1>1, FullAt DEF At, Tables
<1>3. stage'[w] = stage[w] + 1 /\ Found(w)' = Found(w)
  BY <1>0, <1>1, <1>2, StepMoves DEF Found
<1>4. index'[t] = {} /\ \A u \in Tables : u # t => index'[u] = index[u]
  BY <1>0, WriteIs
<1>5. CASE t = "symbols" /\ stage[w] = 1
  BY <1>3, <1>4, <1>5 DEF FullIsOn, Tables
<1>6. CASE t = "files" /\ stage[w] = 2
  BY <1>3, <1>4, <1>6 DEF FullIsOn, Tables
<1>7. CASE t = "relationships" /\ stage[w] = 3
  BY <1>3, <1>4, <1>7 DEF FullIsOn, Tables
<1>8. CASE t = "communities" /\ stage[w] = 4
  BY <1>3, <1>4, <1>8 DEF FullIsOn, Tables
<1>9. CASE t = "processes" /\ stage[w] = 5
  BY <1>3, <1>4, <1>9 DEF FullIsOn, Tables
<1> QED BY <1>2, <1>5, <1>6, <1>7, <1>8, <1>9

LEMMA FullStore ==
  ASSUME TypedInv, NEW w \in Indexers, NEW t \in {"symbols", "files", "relationships"},
         work[w].kind = "full", FullIsOn(w), Step(w, "store", t, loaded[w]),
         Write(t, index[t] \cup IF t = "relationships" THEN Each(Found(w)) ELSE Found(w))
  PROVE  FullIsOn(w)'
<1>0. LocalTyped /\ IndexTyped /\ InRun /\ t \in Tables
  BY TypedIs DEF TypedInv, Tables
<1>1. At(w, "store", t) /\ (AtLast(w) <=> stage[w] = 13)
  BY StepIs DEF TypedInv
<1>2. \/ t = "symbols" /\ stage[w] = 6
      \/ t = "files" /\ stage[w] = 7
      \/ t = "relationships" /\ stage[w] = 8
  BY <1>1, FullAt DEF At
<1>3. stage'[w] = stage[w] + 1 /\ Found(w)' = Found(w)
  BY <1>0, <1>1, <1>2, StepMoves DEF Found
<1>4. /\ index'[t] = index[t] \cup IF t = "relationships" THEN Each(Found(w)) ELSE Found(w)
      /\ \A u \in Tables : u # t => index'[u] = index[u]
  BY <1>0, WriteIs
<1>5. CASE t = "symbols" /\ stage[w] = 6
  BY <1>3, <1>4, <1>5 DEF FullIsOn, Tables
<1>6. CASE t = "files" /\ stage[w] = 7
  BY <1>3, <1>4, <1>6 DEF FullIsOn, Tables
<1>7. CASE t = "relationships" /\ stage[w] = 8
  BY <1>3, <1>4, <1>7 DEF FullIsOn, Tables
<1> QED BY <1>2, <1>5, <1>6, <1>7

LEMMA FullLoad ==
  ASSUME TypedInv, NEW w \in Indexers, NEW t \in {"symbols", "relationships"},
         work[w].kind = "full", FullIsOn(w),
         Step(w, "load", t, [loaded[w] EXCEPT ![t] = index[t]]), index' = index
  PROVE  FullIsOn(w)'
<1>0. LocalTyped /\ IndexTyped /\ InRun
  BY TypedIs DEF TypedInv
<1>1. At(w, "load", t) /\ (AtLast(w) <=> stage[w] = 13)
  BY StepIs DEF TypedInv
<1>2. \/ t = "symbols" /\ stage[w] = 9
      \/ t = "relationships" /\ stage[w] = 10
  BY <1>1, FullAt DEF At
<1>3. /\ stage'[w] = stage[w] + 1 /\ Found(w)' = Found(w)
      /\ loaded'[w] = [loaded[w] EXCEPT ![t] = index[t]]
  BY <1>0, <1>1, <1>2, StepMoves DEF Found
<1>4. loaded[w] = [symbols |-> loaded[w].symbols, relationships |-> loaded[w].relationships]
  BY <1>0, LoadedTyped
<1>5. CASE t = "symbols" /\ stage[w] = 9
  <2>1. loaded'[w].symbols = index["symbols"]
    BY <1>3, <1>4, <1>5
  <2> QED BY <1>3, <1>5, <2>1 DEF FullIsOn
<1>6. CASE t = "relationships" /\ stage[w] = 10
  <2>1. /\ loaded'[w].symbols = loaded[w].symbols
        /\ loaded'[w].relationships = index["relationships"]
    BY <1>3, <1>4, <1>6
  <2> QED BY <1>3, <1>6, <2>1 DEF FullIsOn
<1> QED BY <1>2, <1>5, <1>6

LEMMA FullDerive ==
  ASSUME TypedInv, NEW w \in Indexers, NEW t \in {"communities", "processes"},
         work[w].kind = "full", FullIsOn(w), Step(w, "derive", t, loaded[w]),
         Write(t, index[t] \cup ({Members(w, t)} \ {{}})),
         IF t = "processes" THEN built' = loaded[w] /\ saved' = FALSE
         ELSE UNCHANGED <<built, saved>>
  PROVE  /\ FullIsOn(w)'
         /\ t = "processes" => Kept("whole")'
<1>0. LocalTyped /\ IndexTyped /\ InRun /\ t \in Tables
  BY TypedIs DEF TypedInv, Tables
<1>1. At(w, "derive", t) /\ (AtLast(w) <=> stage[w] = 13)
  BY StepIs DEF TypedInv
<1>2. \/ t = "communities" /\ stage[w] = 11
      \/ t = "processes" /\ stage[w] = 12
  BY <1>1, FullAt DEF At
<1>3. stage'[w] = stage[w] + 1 /\ Found(w)' = Found(w) /\ loaded'[w] = loaded[w]
  BY <1>0, <1>1, <1>2, StepMoves DEF Found
<1>4. /\ index'[t] = index[t] \cup ({Members(w, t)} \ {{}})
      /\ \A u \in Tables : u # t => index'[u] = index[u]
  BY <1>0, WriteIs
<1>5. loaded[w].symbols = Found(w) /\ loaded[w].relationships = Each(Found(w))
      /\ index["symbols"] = Found(w) /\ index["files"] = Found(w)
      /\ index["relationships"] = Each(Found(w))
  BY <1>2 DEF FullIsOn
<1>6. Members(w, t) \subseteq Found(w)
  BY <1>5 DEF Members
<1>7. CASE t = "communities" /\ stage[w] = 11
  <2>1. \A g \in index'["communities"] : g \subseteq Found(w)
    BY <1>4, <1>6, <1>7 DEF FullIsOn
  <2> QED BY <1>3, <1>4, <1>5, <1>7, <2>1 DEF FullIsOn, Tables
<1>8. CASE t = "processes" /\ stage[w] = 12
  <2>1. /\ \A g \in index'["processes"] : g \subseteq Found(w)
        /\ \A g \in index'["communities"] : g \subseteq Found(w)
    BY <1>4, <1>6, <1>8 DEF FullIsOn, Tables
  <2>2. /\ index'["symbols"] = Found(w) /\ index'["files"] = Found(w)
        /\ index'["relationships"] = Each(Found(w))
    BY <1>4, <1>5, <1>8 DEF Tables
  <2>3. FullIsOn(w)'
    BY <1>3, <1>5, <1>8, <2>1, <2>2 DEF FullIsOn
  <2>4. Coherent' /\ GroupsKnown'
    BY <2>1, <2>2 DEF Coherent, GroupsKnown
  <2>5. loaded[w] = [symbols |-> loaded[w].symbols, relationships |-> loaded[w].relationships]
    BY <1>0, LoadedTyped
  <2>6. Graph(index') = loaded[w] /\ built' = loaded[w]
    BY <1>5, <1>8, <2>2, <2>5 DEF Graph
  <2>7. Graph(index)' = built'
    BY <2>6 DEF Graph
  <2> QED BY <1>8, <2>3, <2>4, <2>7 DEF Kept
<1> QED BY <1>2, <1>7, <1>8

LEMMA UpdateCollect ==
  ASSUME TypedInv, NEW w \in Indexers, work[w].kind # "full", UpdateIsOn(w), CollectUids(w)
  PROVE  UpdateIsOn(w)'
<1> DEFINE rows == [loaded[w] EXCEPT !.symbols = OfFiles(w, index["symbols"])]
<1>0. LocalTyped /\ Step(w, "collect", "symbols", rows)
      /\ UNCHANGED <<index, snapshot, built, saved>>
  BY TypedIs DEF TypedInv, CollectUids, shared, readHistory
<1>1. /\ At(w, "collect", "symbols")
      /\ AtLast(w) <=> stage[w] = IF work[w].kind = "update" THEN 7 ELSE 4
  BY <1>0, StepIs DEF TypedInv
<1>2. stage[w] = 1
  BY <1>1, UpdateAt, RemovalAt DEF At
<1>3. stage'[w] = 2 /\ work'[w] = work[w] /\ loaded'[w] = rows
  BY <1>0, <1>1, <1>2, StepMoves
<1>4. rows.symbols = OfFiles(w, index["symbols"])
  BY <1>0, LoadedTyped
<1>5. OfFiles(w, index["symbols"])' = OfFiles(w, index["symbols"])
  BY <1>0, <1>3 DEF OfFiles
<1>7. Coherent'
  BY <1>0, <1>2 DEF UpdateIsOn, Coherent
<1> HIDE DEF rows
<1> QED BY <1>0, <1>2, <1>3, <1>4, <1>5, <1>7 DEF UpdateIsOn

LEMMA UpdateDrop ==
  ASSUME TypedInv, NEW w \in Indexers, NEW t \in {"symbols", "files", "relationships"},
         work[w].kind # "full", UpdateIsOn(w), Step(w, "drop", t, loaded[w]),
         Write(t, index[t] \ IF t = "relationships" THEN Touching(w, index[t])
                             ELSE OfFiles(w, index[t])),
         UNCHANGED <<built, saved>>
  PROVE  /\ ~AtLast(w) => UpdateIsOn(w)'
         /\ AtLast(w) => Coherent'
<1>0. LocalTyped /\ IndexTyped /\ InRun /\ t \in Tables
  BY TypedIs DEF TypedInv, Tables
<1>1. /\ At(w, "drop", t)
      /\ AtLast(w) <=> stage[w] = IF work[w].kind = "update" THEN 7 ELSE 4
  BY StepIs DEF TypedInv
<1>2. \/ t = "symbols" /\ stage[w] = 2
      \/ t = "files" /\ stage[w] = 3
      \/ t = "relationships" /\ stage[w] = 4
  BY <1>1, UpdateAt, RemovalAt DEF At
<1>3. ~AtLast(w) => /\ stage'[w] = stage[w] + 1 /\ work'[w] = work[w]
                    /\ loaded'[w] = loaded[w]
  BY <1>0, StepMoves
<1>4. /\ index'[t] = index[t] \ IF t = "relationships" THEN Touching(w, index[t])
                                ELSE OfFiles(w, index[t])
      /\ \A u \in Tables : u # t => index'[u] = index[u]
      /\ snapshot' = snapshot
  BY <1>0, WriteIs
<1>5. saved' => snapshot' = built'
  BY <1>4 DEF UpdateIsOn
<1> DEFINE gone == loaded[w].symbols
<1>6. CASE t = "symbols" /\ stage[w] = 2
  <2>1. stage'[w] = 3 /\ work'[w] = work[w] /\ loaded'[w] = loaded[w] /\ ~AtLast(w)
    BY <1>1, <1>3, <1>6
  <2>2. /\ index'["symbols"] = index["symbols"] \ OfFiles(w, index["symbols"])
        /\ index'["files"] = index["files"]
        /\ index'["relationships"] = index["relationships"]
    BY <1>4, <1>6 DEF Tables
  <2>3. Coherent /\ gone = OfFiles(w, index["symbols"])
    BY <1>6 DEF UpdateIsOn
  <2>4. OfFiles(w, index["symbols"])' = {}
    BY <2>1, <2>2 DEF OfFiles
  <2>5. index["symbols"] \subseteq index'["symbols"] \cup gone
    BY <2>2, <2>3
  <2>6. index'["relationships"] \subseteq Each(index'["symbols"] \cup gone)
    BY <2>2, <2>3, <2>5, EachGrows DEF Coherent
  <2>7. index'["symbols"] \subseteq index'["files"]
    BY <2>2, <2>3 DEF Coherent
  <2>8. index'["relationships"] \subseteq Each(index'["symbols"] \cup loaded'[w].symbols)
    BY <2>1, <2>6
  <2>9. UpdateIsOn(w)'
    <3> HIDE DEF gone
    <3>1. stage'[w] = 3
      BY <2>1
    <3> QED BY <1>5, <2>4, <2>7, <2>8, <3>1 DEF UpdateIsOn
  <2> QED BY <2>1, <2>9
<1>7. CASE t = "files" /\ stage[w] = 3
  <2>1. stage'[w] = 4 /\ work'[w] = work[w] /\ loaded'[w] = loaded[w] /\ ~AtLast(w)
    BY <1>1, <1>3, <1>7
  <2>2. /\ index'["symbols"] = index["symbols"]
        /\ index'["files"] = index["files"] \ OfFiles(w, index["files"])
        /\ index'["relationships"] = index["relationships"]
    BY <1>4, <1>7 DEF Tables
  <2>3. /\ OfFiles(w, index["symbols"]) = {} /\ index["symbols"] \subseteq index["files"]
        /\ index["relationships"] \subseteq Each(index["symbols"] \cup gone)
    BY <1>7 DEF UpdateIsOn
  <2>4. index'["symbols"] \subseteq index'["files"]
    BY <2>2, <2>3 DEF OfFiles
  <2> QED BY <1>5, <2>1, <2>2, <2>3, <2>4 DEF UpdateIsOn
<1>8. CASE t = "relationships" /\ stage[w] = 4
  <2>1. /\ index'["symbols"] = index["symbols"] /\ index'["files"] = index["files"]
        /\ index'["relationships"] = index["relationships"]
                                     \ Touching(w, index["relationships"])
    BY <1>4, <1>8 DEF Tables
  <2>2. /\ index["symbols"] \subseteq index["files"]
        /\ index["relationships"] \subseteq Each(index["symbols"] \cup gone)
    BY <1>8 DEF UpdateIsOn
  <2>3. index'["relationships"] \subseteq Each(index["symbols"])
    <3>1. ASSUME NEW e \in index'["relationships"] PROVE e \in Each(index["symbols"])
      <4>1. e \in Each(index["symbols"] \cup gone) /\ e \notin Touching(w, index["relationships"])
        BY <2>1, <2>2
      <4>2. /\ e = <<e[1], e[2]>> /\ e[1] \in index["symbols"] \cup gone
            /\ e[2] \in index["symbols"] \cup gone
        BY <4>1, EachIs
      <4>3. e[1] \notin gone /\ e[2] \notin gone
        BY <2>1, <4>1 DEF Touching
      <4>4. e[1] \in index["symbols"] /\ e[2] \in index["symbols"]
        BY <4>2, <4>3
      <4> HIDE DEF gone
      <4> QED BY <4>2, <4>4 DEF Each
    <3> QED BY <3>1
  <2>4. Coherent'
    BY <2>1, <2>2, <2>3 DEF Coherent
  <2>5. ASSUME ~AtLast(w) PROVE UpdateIsOn(w)'
    <3>1. stage'[w] = 5
      BY <1>3, <1>8, <2>5
    <3> QED BY <1>5, <2>4, <3>1 DEF UpdateIsOn
  <2> QED BY <2>4, <2>5
<1> QED BY <1>2, <1>6, <1>7, <1>8

LEMMA UpdateStore ==
  ASSUME TypedInv, NEW w \in Indexers, NEW t \in {"symbols", "files", "relationships"},
         work[w].kind # "full", UpdateIsOn(w), Step(w, "store", t, loaded[w]),
         Write(t, index[t] \cup IF t = "relationships" THEN Each(Found(w)) ELSE Found(w)),
         UNCHANGED <<built, saved>>
  PROVE  /\ ~AtLast(w) => UpdateIsOn(w)'
         /\ AtLast(w) => Coherent'
<1>0. LocalTyped /\ IndexTyped /\ InRun /\ t \in Tables
  BY TypedIs DEF TypedInv, Tables
<1>1. /\ At(w, "store", t)
      /\ AtLast(w) <=> stage[w] = IF work[w].kind = "update" THEN 7 ELSE 4
  BY StepIs DEF TypedInv
<1>2. /\ work[w].kind = "update"
      /\ \/ t = "symbols" /\ stage[w] = 5
         \/ t = "files" /\ stage[w] = 6
         \/ t = "relationships" /\ stage[w] = 7
  BY <1>1, UpdateAt, RemovalAt DEF At
<1>3. ~AtLast(w) => stage'[w] = stage[w] + 1 /\ Found(w)' = Found(w)
  BY <1>0, StepMoves DEF Found
<1>4. /\ index'[t] = index[t] \cup IF t = "relationships" THEN Each(Found(w)) ELSE Found(w)
      /\ \A u \in Tables : u # t => index'[u] = index[u]
      /\ snapshot' = snapshot
  BY <1>0, WriteIs
<1>5. saved' => snapshot' = built'
  BY <1>4 DEF UpdateIsOn
<1>6. CASE t = "symbols" /\ stage[w] = 5
  <2>1. stage'[w] = 6 /\ Found(w)' = Found(w) /\ ~AtLast(w)
    BY <1>1, <1>2, <1>3, <1>6
  <2>2. /\ index'["symbols"] = index["symbols"] \cup Found(w)
        /\ index'["files"] = index["files"]
        /\ index'["relationships"] = index["relationships"]
    BY <1>4, <1>6 DEF Tables
  <2>3. Coherent
    BY <1>6 DEF UpdateIsOn
  <2>4. Each(index["symbols"]) \subseteq Each(index'["symbols"])
    BY <2>2, EachGrows
  <2> QED BY <1>5, <2>1, <2>2, <2>3, <2>4 DEF UpdateIsOn, Coherent
<1>7. CASE t = "files" /\ stage[w] = 6
  <2>1. stage'[w] = 7 /\ Found(w)' = Found(w) /\ ~AtLast(w)
    BY <1>1, <1>2, <1>3, <1>7
  <2>2. /\ index'["symbols"] = index["symbols"]
        /\ index'["files"] = index["files"] \cup Found(w)
        /\ index'["relationships"] = index["relationships"]
    BY <1>4, <1>7 DEF Tables
  <2>3. /\ Found(w) \subseteq index["symbols"]
        /\ index["symbols"] \subseteq index["files"] \cup Found(w)
        /\ index["relationships"] \subseteq Each(index["symbols"])
    BY <1>7 DEF UpdateIsOn
  <2> QED BY <1>5, <2>1, <2>2, <2>3 DEF UpdateIsOn, Coherent
<1>8. CASE t = "relationships" /\ stage[w] = 7
  <2>1. AtLast(w)
    BY <1>1, <1>2, <1>8
  <2>2. /\ index'["symbols"] = index["symbols"] /\ index'["files"] = index["files"]
        /\ index'["relationships"] = index["relationships"] \cup Each(Found(w))
    BY <1>4, <1>8 DEF Tables
  <2>3. Coherent /\ Found(w) \subseteq index["symbols"]
    BY <1>8 DEF UpdateIsOn
  <2>4. Each(Found(w)) \subseteq Each(index["symbols"])
    BY <2>3, EachGrows
  <2> QED BY <2>1, <2>2, <2>3, <2>4 DEF Coherent
<1> QED BY <1>2, <1>6, <1>7, <1>8

-----------------------------------------------------------------------------
(* Everything else. *)

RunsInv == TypedInv /\ LoneIsAlone /\ Calm /\ RunIsOn /\ CallStands

\* A step that writes a table is of a run, and while one is at work nothing is trusted.
LEMMA NotTrusted ==
  ASSUME TypedInv, Calm, NEW w \in Indexers, NEW what, NEW t, NEW rows,
         Step(w, what, t, rows), what # "save"
  PROVE  trust = "none"
<1>1. At(w, what, t) /\ stage[w] # 0
  BY StepIs DEF TypedInv
<1>2. ~(work[w].kind = "full" /\ stage[w] = 13)
  <2> SUFFICES ASSUME work[w].kind = "full", stage[w] = 13 PROVE FALSE
    OBVIOUS
  <2>1. FullRun[13] = <<what, t>>
    BY <1>1 DEF At
  <2> QED BY <2>1 DEF FullRun
<1> QED BY <1>1, <1>2 DEF Calm

LEMMA CallIsClosed == ASSUME call' = NoCall PROVE CallStands'
BY DEF CallStands, NoCall

LEMMA CallIsOpen ==
  ASSUME CallStands, UNCHANGED <<call, index, snapshot, built>> PROVE CallStands'
BY DEF CallStands, Kept, Coherent, GroupsKnown, Graph

LEMMA RunsInvInit == ReadersInit => RunsInv
<1> SUFFICES ASSUME ReadersInit PROVE RunsInv
  OBVIOUS
<1>1. TypedInv /\ \A w \in Indexers : stage[w] = 0 /\ lone # w
  BY ReadTypedInit, ReadersAssumption DEF ReadersInit
<1>2. LoneIsAlone /\ RunIsOn /\ CallStands
  BY <1>1 DEF LoneIsAlone, RunIsOn, CallStands, ReadersInit, NoCall
<1>3. Coherent /\ GroupsKnown /\ Graph(index) = built
  <2>1. CASE full = 1
    <3>1. index = Built(0)
      BY <2>1 DEF ReadersInit
    <3>2. /\ index["symbols"] = {0} \X CodeFiles /\ index["files"] = {0} \X CodeFiles
          /\ index["relationships"] = Each({0} \X CodeFiles)
          /\ index["communities"] = {{0} \X CodeFiles} /\ index["processes"] = {{0} \X CodeFiles}
      BY <3>1 DEF Built
    <3> QED BY <3>2 DEF Coherent, GroupsKnown, ReadersInit
  <2>2. CASE full # 1
    <3>1. \A t \in Tables : index[t] = {}
      BY <2>2 DEF ReadersInit
    <3> QED BY <3>1 DEF Coherent, GroupsKnown, ReadersInit, Tables
  <2> QED BY <2>1, <2>2
<1>4. Calm
  BY <1>1, <1>3 DEF Calm, Kept, ReadersInit
<1> QED BY <1>1, <1>2, <1>4 DEF RunsInv

\* What was trusted when an update starts is what its steps go from.
LEMMA LaunchKeeps ==
  ASSUME RunsInv, TypedInv', NEW w \in Indexers, NEW kind \in {"full", "update", "removal"},
         NEW files \in SUBSET CodeFiles, Launch(w, kind, files)
  PROVE  RunsInv'
<1>0. LocalTyped /\ Calm /\ CallStands /\ LoneIsAlone
  BY TypedIs DEF RunsInv, TypedInv
<1>1. /\ stage'[w] = 1 /\ work'[w] = [kind |-> kind, run |-> starts + 1, files |-> files]
      /\ stage[w] = 0 /\ \A v \in Indexers : v # w => stage'[v] = stage[v]
      /\ lone' = IF \A v \in Indexers : stage[v] = 0 THEN w ELSE NoOne
      /\ before' = trust /\ trust' = "none" /\ UNCHANGED <<index, snapshot, call, built, saved>>
  BY <1>0 DEF Launch, LocalTyped, shared
<1>2. LoneIsAlone'
  BY <1>1, ReadersAssumption DEF LoneIsAlone
<1>3. Calm' /\ CallStands'
  BY <1>0, <1>1, CallIsOpen DEF Calm
<1>4. ASSUME NEW v \in Indexers, lone' = v PROVE RunFacts(v)'
  <2>1. v = w /\ \A u \in Indexers : stage[u] = 0
    BY <1>1, <1>4, ReadersAssumption
  <2>2. ASSUME before' # "none" PROVE UpdateIsOn(w)'
    <3>1. Kept(trust) /\ (saved => snapshot = built) /\ trust # "none"
      BY <1>0, <1>1, <2>2 DEF Calm
    <3>2. Coherent'
      BY <1>1, <3>1 DEF Kept, Coherent
    <3> QED BY <1>1, <3>1, <3>2 DEF UpdateIsOn
  <2>3. FullIsOn(w)'
    BY <1>1 DEF FullIsOn
  <2> QED BY <2>1, <2>2, <2>3 DEF RunFacts
<1> QED BY <1>2, <1>3, <1>4 DEF RunsInv, RunIsOn

\* A run ends: the rest of the invariant when nothing else changes.
LEMMA EndKeeps ==
  ASSUME LocalTyped, LoneIsAlone, RunIsOn, NEW w \in Indexers,
         \A v \in Indexers : v # w => /\ stage'[v] = stage[v] /\ work'[v] = work[v]
                                      /\ loaded'[v] = loaded[v],
         stage'[w] = 0, stage[w] # 0, lone' = lone
  PROVE  LoneIsAlone' /\ RunIsOn'
<1>1. ASSUME NEW u \in Indexers, NEW v \in Indexers, lone' = v, stage'[v] # 0, u # v
      PROVE  stage'[u] = 0
  <2>1. v # w /\ lone = v /\ stage[v] # 0
    BY <1>1
  <2>2. stage[w] = 0
    BY <2>1 DEF LoneIsAlone
  <2> QED BY <2>2
<1>2. ASSUME NEW v \in Indexers, lone' = v, stage'[v] # 0 PROVE FALSE
  <2>1. v # w /\ lone = v /\ stage[v] # 0
    BY <1>2
  <2>2. stage[w] = 0
    BY <2>1 DEF LoneIsAlone
  <2> QED BY <2>2
<1> QED BY <1>1, <1>2 DEF LoneIsAlone, RunIsOn

\* The last step of an update: the index is trusted if it was when the update began.
LEMMA UpdateEnds ==
  ASSUME RunsInv, NEW w \in Indexers, NEW what, NEW t, Step(w, what, t, loaded[w]),
         EndUpdate(w), what # "save", work[w].kind # "full", AtLast(w), trust = "none",
         lone = w /\ before # "none" => Coherent' /\ (saved' => snapshot' = built')
  PROVE  Calm'
<1> SUFFICES ASSUME trust' # "none" PROVE Calm'
  BY DEF Calm
<1>1. trust' = "updated" /\ lone = w /\ before # "none"
  BY DEF EndUpdate
<1>2. LocalTyped /\ LoneIsAlone
  BY TypedIs DEF RunsInv, TypedInv
<1>3. stage[w] # 0 /\ stage'[w] = 0 /\ \A v \in Indexers : v # w => stage'[v] = stage[v]
  BY <1>2, StepMoves DEF Step
<1>4. \A v \in Indexers : stage'[v] = 0
  BY <1>1, <1>2, <1>3 DEF LoneIsAlone
<1> QED BY <1>1, <1>4 DEF Calm, Kept

LEMMA KindOf ==
  ASSUME LocalTyped, NEW w \in Indexers, NEW what, NEW t, At(w, what, t)
  PROVE  /\ what \in {"wipe", "load", "derive", "save"} => work[w].kind = "full"
         /\ what \in {"collect", "drop"} => work[w].kind # "full"
<1>1. CASE work[w].kind = "full"
  <2>1. what \in {"wipe", "store", "load", "derive", "save"}
    BY <1>1, FullAt DEF At
  <2> QED BY <1>1, <2>1
<1>2. CASE work[w].kind # "full"
  <2>1. what \in {"collect", "drop", "store"}
    BY <1>2, UpdateAt, RemovalAt DEF At
  <2> QED BY <1>2, <2>1
<1> QED BY <1>1, <1>2

\* A run that goes on is of the same kind: its own facts are all there is to show.
LEMMA StepKeeps ==
  ASSUME RunsInv, TypedInv', NEW w \in Indexers, NEW what, NEW t, NEW rows,
         Step(w, what, t, rows), lone' = lone, before' = before, Calm', CallStands',
         lone = w /\ work[w].kind = "full" /\ FullIsOn(w) /\ ~AtLast(w) => FullIsOn(w)',
         lone = w /\ work[w].kind # "full" /\ before # "none" /\ UpdateIsOn(w) /\ ~AtLast(w)
            => UpdateIsOn(w)'
  PROVE  RunsInv'
<1>0. LocalTyped /\ LoneIsAlone /\ RunIsOn
  BY TypedIs DEF RunsInv, TypedInv
<1>1. ASSUME lone = w, stage'[w] # 0 PROVE RunFacts(w)'
  <2>1. ~AtLast(w) /\ work'[w] = work[w]
    BY <1>0, <1>1, StepMoves
  <2>2. RunFacts(w)
    BY <1>0, <1>1 DEF RunIsOn, Step
  <2>3. work[w].kind = "full" => FullIsOn(w)'
    BY <1>1, <2>1, <2>2 DEF RunFacts
  <2>4. work[w].kind # "full" /\ before # "none" => UpdateIsOn(w)'
    BY <1>1, <2>1, <2>2 DEF RunFacts
  <2>5. work'[w].kind = work[w].kind
    BY <2>1
  <2> QED BY <2>3, <2>4, <2>5 DEF RunFacts
<1>2. LoneIsAlone' /\ RunIsOn'
  BY <1>0, <1>1, RunOfOne
<1> QED BY <1>2 DEF RunsInv

LEMMA WipeKeeps ==
  ASSUME RunsInv, TypedInv', NEW w \in Indexers, Wipe(w) PROVE RunsInv'
<1>1. PICK t \in Tables : Step(w, "wipe", t, loaded[w]) /\ Write(t, {})
  BY DEF Wipe
<1>2. lone' = lone /\ before' = before /\ trust' = trust
  BY DEF Wipe, readHistory
<1>3. trust = "none" /\ At(w, "wipe", t) /\ LocalTyped
  BY <1>1, NotTrusted, StepIs, TypedIs DEF RunsInv, TypedInv
<1>4. Calm' /\ CallStands'
  BY <1>1, <1>2, <1>3, CallIsClosed DEF Calm, Write
<1>5. work[w].kind = "full"
  BY <1>3, KindOf
<1>6. FullIsOn(w) => FullIsOn(w)'
  BY <1>1, <1>5, FullWipe DEF RunsInv
<1> QED BY <1>1, <1>2, <1>4, <1>5, <1>6, StepKeeps

LEMMA LoadKeeps ==
  ASSUME RunsInv, TypedInv', NEW w \in Indexers, Load(w) PROVE RunsInv'
<1>1. PICK t \in {"symbols", "relationships"} :
         Step(w, "load", t, [loaded[w] EXCEPT ![t] = index[t]])
  BY DEF Load
<1>2. /\ lone' = lone /\ before' = before /\ trust' = trust
      /\ UNCHANGED <<index, snapshot, call, built>>
  BY DEF Load, shared, readHistory
<1>3. trust = "none" /\ At(w, "load", t) /\ LocalTyped
  BY <1>1, NotTrusted, StepIs, TypedIs DEF RunsInv, TypedInv
<1>4. Calm' /\ CallStands'
  BY <1>2, <1>3, CallIsOpen DEF Calm, RunsInv
<1>5. work[w].kind = "full"
  BY <1>3, KindOf
<1>6. FullIsOn(w) => FullIsOn(w)'
  BY <1>1, <1>2, <1>5, FullLoad DEF RunsInv
<1> QED BY <1>1, <1>2, <1>4, <1>5, <1>6, StepKeeps

LEMMA CollectKeeps ==
  ASSUME RunsInv, TypedInv', NEW w \in Indexers, CollectUids(w) PROVE RunsInv'
<1> DEFINE rows == [loaded[w] EXCEPT !.symbols = OfFiles(w, index["symbols"])]
<1>1. Step(w, "collect", "symbols", rows)
  BY DEF CollectUids
<1> HIDE DEF rows
<1>2. /\ lone' = lone /\ before' = before /\ trust' = trust
      /\ UNCHANGED <<index, snapshot, call, built>>
  BY DEF CollectUids, shared, readHistory
<1>3. trust = "none" /\ At(w, "collect", "symbols") /\ LocalTyped
  BY <1>1, NotTrusted, StepIs, TypedIs DEF RunsInv, TypedInv
<1>4. Calm' /\ CallStands'
  BY <1>2, <1>3, CallIsOpen DEF Calm, RunsInv
<1>5. work[w].kind # "full"
  BY <1>3, KindOf
<1>6. UpdateIsOn(w) => UpdateIsOn(w)'
  BY <1>5, UpdateCollect DEF RunsInv
<1> QED BY <1>1, <1>2, <1>4, <1>5, <1>6, StepKeeps

LEMMA DropKeeps ==
  ASSUME RunsInv, TypedInv', NEW w \in Indexers, Drop(w) PROVE RunsInv'
<1> DEFINE left(t) == index[t] \ IF t = "relationships" THEN Touching(w, index[t])
                                 ELSE OfFiles(w, index[t])
<1>1. PICK t \in {"symbols", "files", "relationships"} :
         Step(w, "drop", t, loaded[w]) /\ Write(t, left(t))
  BY DEF Drop
<1>2. lone' = lone /\ before' = before /\ EndUpdate(w) /\ UNCHANGED <<built, saved>>
  BY DEF Drop
<1>3. trust = "none" /\ At(w, "drop", t) /\ LocalTyped
  BY <1>1, NotTrusted, StepIs, TypedIs DEF RunsInv, TypedInv
<1>4. work[w].kind # "full"
  BY <1>3, KindOf
<1>5. UpdateIsOn(w) => (~AtLast(w) => UpdateIsOn(w)') /\ (AtLast(w) => Coherent')
  BY <1>1, <1>2, <1>4, UpdateDrop DEF RunsInv
<1>6. snapshot' = snapshot /\ call' = NoCall
  BY <1>1 DEF Write
<1>7. Calm'
  <2>1. CASE ~AtLast(w)
    BY <1>2, <1>3, <2>1 DEF Calm, EndUpdate
  <2>2. CASE AtLast(w)
    <3>1. ASSUME lone = w, before # "none" PROVE Coherent' /\ (saved' => snapshot' = built')
      <4>1. UpdateIsOn(w)
        BY <1>1, <1>4, <3>1 DEF RunsInv, RunIsOn, RunFacts, Step
      <4>2. saved => snapshot = built
        BY <4>1 DEF UpdateIsOn
      <4> QED BY <1>2, <1>5, <1>6, <2>2, <4>1, <4>2
    <3> QED BY <1>1, <1>2, <1>3, <1>4, <2>2, <3>1, UpdateEnds
  <2> QED BY <2>1, <2>2
<1>8. CallStands'
  BY <1>6, CallIsClosed
<1> QED BY <1>1, <1>2, <1>4, <1>5, <1>7, <1>8, StepKeeps

LEMMA StoreKeeps ==
  ASSUME RunsInv, TypedInv', NEW w \in Indexers, Store(w) PROVE RunsInv'
<1> DEFINE all(t) == index[t] \cup IF t = "relationships" THEN Each(Found(w)) ELSE Found(w)
<1>1. PICK t \in {"symbols", "files", "relationships"} :
         Step(w, "store", t, loaded[w]) /\ Write(t, all(t))
  BY DEF Store
<1>2. lone' = lone /\ before' = before /\ EndUpdate(w) /\ UNCHANGED <<built, saved>>
  BY DEF Store
<1>3. /\ trust = "none" /\ At(w, "store", t) /\ LocalTyped
      /\ AtLast(w) <=> stage[w] = CASE work[w].kind = "full" -> 13
                                    [] work[w].kind = "update" -> 7
                                    [] OTHER -> 4
  BY <1>1, NotTrusted, StepIs, TypedIs DEF RunsInv, TypedInv
<1>4. work[w].kind = "full" => ~AtLast(w)
  <2>1. SUFFICES ASSUME work[w].kind = "full" PROVE stage[w] # 13
    BY <1>3
  <2> QED BY <1>3, <2>1, FullAt DEF At
<1>5. /\ work[w].kind = "full" /\ FullIsOn(w) => FullIsOn(w)'
      /\ work[w].kind # "full" /\ UpdateIsOn(w) =>
            (~AtLast(w) => UpdateIsOn(w)') /\ (AtLast(w) => Coherent')
  BY <1>1, <1>2, FullStore, UpdateStore DEF RunsInv
<1>6. snapshot' = snapshot /\ call' = NoCall
  BY <1>1 DEF Write
<1>7. Calm'
  <2>1. CASE ~AtLast(w)
    BY <1>2, <1>3, <2>1 DEF Calm, EndUpdate
  <2>2. CASE AtLast(w)
    <3>0. work[w].kind # "full"
      BY <1>4, <2>2
    <3>1. ASSUME lone = w, before # "none" PROVE Coherent' /\ (saved' => snapshot' = built')
      <4>1. UpdateIsOn(w)
        BY <1>1, <3>0, <3>1 DEF RunsInv, RunIsOn, RunFacts, Step
      <4>2. saved => snapshot = built
        BY <4>1 DEF UpdateIsOn
      <4> QED BY <1>2, <1>5, <1>6, <2>2, <3>0, <4>1, <4>2
    <3> QED BY <1>1, <1>2, <1>3, <2>2, <3>0, <3>1, UpdateEnds
  <2> QED BY <2>1, <2>2
<1>8. CallStands'
  BY <1>6, CallIsClosed
<1> QED BY <1>1, <1>2, <1>5, <1>7, <1>8, StepKeeps

LEMMA DeriveKeeps ==
  ASSUME RunsInv, TypedInv', NEW w \in Indexers, Derive(w) PROVE RunsInv'
<1> DEFINE all(t) == index[t] \cup ({Members(w, t)} \ {{}})
<1>1. PICK t \in {"communities", "processes"} :
         Step(w, "derive", t, loaded[w]) /\ Write(t, all(t))
  BY DEF Derive
<1>2. lone' = lone /\ before' = before
  BY DEF Derive
<1>3. trust = "none" /\ At(w, "derive", t) /\ LocalTyped /\ (AtLast(w) => stage[w] = 13)
  BY <1>1, NotTrusted, StepIs, TypedIs, KindOf DEF RunsInv, TypedInv
<1>4. work[w].kind = "full"
  BY <1>3, KindOf
<1>5. Steps(w) = FullRun /\ FullRun[stage[w]] = <<"derive", t>>
      /\ stage[w] = IF t = "communities" THEN 11 ELSE 12
  BY <1>3, <1>4, Lengths, FullAt DEF Steps, At
<1>6. Steps(w)[stage[w]] = <<"derive", "processes">> <=> t = "processes"
  BY <1>5
<1>7. IF t = "processes" /\ lone = w THEN trust' = "whole" /\ built' = loaded[w] /\ saved' = FALSE
      ELSE UNCHANGED <<trust, built, saved>>
  BY <1>6 DEF Derive
<1>8. lone = w => FullIsOn(w)
  BY <1>1, <1>4 DEF RunsInv, RunIsOn, RunFacts, Step
<1>9. lone = w => FullIsOn(w)' /\ (t = "processes" => Kept("whole")')
  BY <1>1, <1>4, <1>7, <1>8, FullDerive DEF RunsInv
<1>10. CallStands'
  BY <1>1, CallIsClosed DEF Write
<1>11. Calm'
  <2> SUFFICES ASSUME trust' # "none" PROVE Calm'
    BY DEF Calm
  <2>1. t = "processes" /\ lone = w /\ trust' = "whole" /\ saved' = FALSE
    BY <1>3, <1>7
  <2>2. /\ stage'[w] = 13 /\ work'[w] = work[w]
        /\ \A v \in Indexers : v # w => stage'[v] = stage[v] /\ stage[v] = 0
    <3>1. stage[w] = 12 /\ ~AtLast(w)
      BY <1>3, <1>5, <2>1
    <3> QED BY <1>1, <1>3, <2>1, <3>1, StepMoves DEF RunsInv, LoneIsAlone
  <2>3. \A v \in Indexers : stage'[v] # 0 =>
           lone' = v /\ work'[v].kind = "full" /\ stage'[v] = 13
    BY <1>2, <1>4, <2>1, <2>2
  <2>4. Kept("whole")'
    BY <1>9, <2>1
  <2> QED BY <2>1, <2>3, <2>4 DEF Calm, Kept
<1> QED BY <1>1, <1>2, <1>4, <1>9, <1>10, <1>11, StepKeeps

\* A run that is alone saves what it loaded from its own graph.
LEMMA SaveKeeps ==
  ASSUME RunsInv, TypedInv', NEW w \in Indexers, Save(w) PROVE RunsInv'
<1>1. /\ Step(w, "save", "snapshot", loaded[w]) /\ snapshot' = loaded[w] /\ call' = NoCall
      /\ saved' = (saved \/ lone = w)
      /\ UNCHANGED <<index, lone, trust, before, built>>
  BY DEF Save
<1>2. /\ At(w, "save", "snapshot") /\ LocalTyped
      /\ work[w].kind = "full" /\ stage[w] = 13 /\ AtLast(w)
  <2>1. At(w, "save", "snapshot") /\ LocalTyped
    BY <1>1, StepIs, TypedIs DEF RunsInv, TypedInv
  <2>2. work[w].kind = "full"
    BY <2>1, KindOf
  <2>3. stage[w] = 13
    BY <2>1, <2>2, FullAt DEF At
  <2> QED BY <1>1, <2>1, <2>2, <2>3, StepIs DEF RunsInv, TypedInv
<1>3. CallStands'
  BY <1>1, CallIsClosed
<1>4. Calm'
  <2> SUFFICES ASSUME trust' # "none" PROVE Calm'
    BY DEF Calm
  <2>1. lone = w /\ Kept(trust)
    BY <1>1, <1>2 DEF RunsInv, Calm
  <2>2. loaded[w] = built
    BY <1>2, <2>1 DEF RunsInv, RunIsOn, RunFacts, FullIsOn
  <2>3. Kept(trust)'
    BY <1>1, <2>1 DEF Kept, Coherent, GroupsKnown, Graph
  <2>4. stage'[w] = 0 /\ \A v \in Indexers : v # w => stage'[v] = 0
    BY <1>1, <1>2, <2>1, StepMoves DEF RunsInv, LoneIsAlone
  <2> QED BY <1>1, <2>2, <2>3, <2>4 DEF Calm
<1> QED BY <1>1, <1>2, <1>3, <1>4, StepKeeps

\* A run that stops without a write leaves what was trusted as it was.
LEMMA StopKeeps ==
  ASSUME RunsInv, TypedInv', NEW w \in Indexers, stage[w] # 0,
         \A v \in Indexers : v # w => /\ stage'[v] = stage[v] /\ work'[v] = work[v]
                                      /\ loaded'[v] = loaded[v],
         stage'[w] = 0, UNCHANGED <<index, snapshot, call, lone, trust, before, built, saved>>
  PROVE  RunsInv'
<1>1. LoneIsAlone' /\ RunIsOn'
  BY EndKeeps, TypedIs DEF RunsInv, TypedInv
<1>2. CallStands'
  BY CallIsOpen DEF RunsInv
<1>3. Calm'
  <2> SUFFICES ASSUME trust' # "none" PROVE Calm'
    BY DEF Calm
  <2>1. Kept(trust)' /\ (saved' => snapshot' = built')
    BY DEF RunsInv, Calm, Kept, Coherent, GroupsKnown, Graph
  <2>2. \A v \in Indexers : stage'[v] # 0 =>
           lone' = v /\ work'[v].kind = "full" /\ stage'[v] = 13
    BY DEF RunsInv, Calm
  <2> QED BY <2>1, <2>2 DEF Calm
<1> QED BY <1>1, <1>2, <1>3 DEF RunsInv

LEMMA SaveFailsKeeps ==
  ASSUME RunsInv, TypedInv', NEW w \in Indexers, SaveFails(w) PROVE RunsInv'
<1>1. Step(w, "save", "snapshot", loaded[w]) /\ LocalTyped
  BY TypedIs DEF SaveFails, RunsInv, TypedInv
<1>2. AtLast(w)
  <2>1. At(w, "save", "snapshot")
    BY <1>1, StepIs DEF RunsInv, TypedInv
  <2>2. work[w].kind = "full" /\ stage[w] = 13
    BY <1>1, <2>1, KindOf, FullAt DEF At
  <2> QED BY <1>1, <2>2, StepIs DEF RunsInv, TypedInv
<1>3. /\ stage[w] # 0 /\ stage'[w] = 0
      /\ \A v \in Indexers : v # w => /\ stage'[v] = stage[v] /\ work'[v] = work[v]
                                      /\ loaded'[v] = loaded[v]
  BY <1>1, <1>2, StepMoves DEF Step
<1>4. UNCHANGED <<index, snapshot, call, lone, trust, before, built, saved>>
  BY DEF SaveFails, shared
<1> QED BY <1>3, <1>4, StopKeeps

\* A save that was cut takes the snapshot along, and with it what was asked of it.
LEMMA SaveTornKeeps ==
  ASSUME RunsInv, TypedInv', NEW w \in Indexers, SaveTorn(w) PROVE RunsInv'
<1>1. /\ Step(w, "save", "snapshot", loaded[w]) /\ call' = NoCall /\ saved' = FALSE
      /\ UNCHANGED <<index, lone, trust, before, built>>
  BY DEF SaveTorn
<1>2. /\ At(w, "save", "snapshot") /\ LocalTyped
      /\ work[w].kind = "full" /\ stage[w] = 13 /\ AtLast(w)
  <2>1. At(w, "save", "snapshot") /\ LocalTyped
    BY <1>1, StepIs, TypedIs DEF RunsInv, TypedInv
  <2>2. work[w].kind = "full"
    BY <2>1, KindOf
  <2>3. stage[w] = 13
    BY <2>1, <2>2, FullAt DEF At
  <2> QED BY <1>1, <2>1, <2>2, <2>3, StepIs DEF RunsInv, TypedInv
<1>3. CallStands'
  BY <1>1, CallIsClosed
<1>4. Calm'
  <2> SUFFICES ASSUME trust' # "none" PROVE Calm'
    BY DEF Calm
  <2>1. lone = w /\ Kept(trust)
    BY <1>1, <1>2 DEF RunsInv, Calm
  <2>2. Kept(trust)'
    BY <1>1, <2>1 DEF Kept, Coherent, GroupsKnown, Graph
  <2>3. stage'[w] = 0 /\ \A v \in Indexers : v # w => stage'[v] = 0
    BY <1>1, <1>2, <2>1, StepMoves DEF RunsInv, LoneIsAlone
  <2> QED BY <1>1, <2>2, <2>3 DEF Calm
<1> QED BY <1>1, <1>2, <1>3, <1>4, StepKeeps

LEMMA CutOffKeeps ==
  ASSUME RunsInv, TypedInv', NEW w \in Indexers, CutOff(w) PROVE RunsInv'
<1>1. /\ stage[w] # 0 /\ stage'[w] = 0
      /\ \A v \in Indexers : v # w => /\ stage'[v] = stage[v] /\ work'[v] = work[v]
                                      /\ loaded'[v] = loaded[v]
  BY TypedIs DEF CutOff, EndRun, RunsInv, TypedInv, LocalTyped
<1>2. UNCHANGED <<index, snapshot, call, lone, trust, before, built, saved>>
  BY DEF CutOff, shared, readHistory
<1> QED BY <1>1, <1>2, StopKeeps

\* A call changes nothing but itself.
LEMMA CallKeeps ==
  ASSUME RunsInv, TypedInv', UNCHANGED <<shared, runState, readHistory>>, CallStands'
  PROVE  RunsInv'
<1>1. /\ UNCHANGED <<index, snapshot, stage, work, loaded>>
      /\ UNCHANGED <<lone, trust, before, built, saved>>
  BY DEF shared, runState, readHistory
<1>2. LoneIsAlone'
  BY <1>1 DEF RunsInv, LoneIsAlone
<1>3. Calm'
  <2> SUFFICES ASSUME trust' # "none" PROVE Calm'
    BY DEF Calm
  <2>1. Kept(trust)' /\ (saved' => snapshot' = built')
    BY <1>1 DEF RunsInv, Calm, Kept, Coherent, GroupsKnown, Graph
  <2> QED BY <1>1, <2>1 DEF RunsInv, Calm
<1>4. RunIsOn'
  <2>1. ASSUME NEW w \in Indexers, lone = w, stage[w] # 0 PROVE RunFacts(w)'
    <3>1. FullIsOn(w) => FullIsOn(w)'
      BY <1>1 DEF FullIsOn, Found
    <3>2. UpdateIsOn(w) => UpdateIsOn(w)'
      BY <1>1 DEF UpdateIsOn, Found, Coherent, OfFiles
    <3>3. RunFacts(w)
      BY <2>1 DEF RunsInv, RunIsOn
    <3> QED BY <1>1, <3>1, <3>2, <3>3 DEF RunFacts
  <2> QED BY <1>1, <2>1 DEF RunIsOn
<1> QED BY <1>2, <1>3, <1>4 DEF RunsInv

\* What is added to what the call has seen is so now.
IsSo(x) == \/ x[1] \in Tables /\ x = <<x[1], index[x[1]]>>
           \/ x = <<"snapshot", snapshot>>

LEMMA CallGoesOn ==
  ASSUME CallStands, call.open, UNCHANGED <<index, snapshot, built>>,
         call'.trust = call.trust, call'.saved = call.saved,
         ~call'.holes => ~call.holes /\ \A x \in call'.seen : x \in call.seen \/ IsSo(x)
  PROVE  CallStands'
<1>1. call'.trust # "none" /\ Kept(call.trust)' /\ (call'.saved => snapshot' = built')
  BY DEF CallStands, Kept, Coherent, GroupsKnown, Graph
<1>2. ASSUME ~call'.holes, NEW x \in call'.seen
      PROVE  \/ x[1] \in Tables /\ x = <<x[1], index'[x[1]]>>
             \/ x = <<"snapshot", snapshot'>>
  BY <1>2 DEF CallStands, IsSo
<1> QED BY <1>1, <1>2 DEF CallStands

LEMMA ReadingKeeps ==
  ASSUME RunsInv, TypedInv', Ask \/ Read \/ ReadFails \/ ReadSnapshot \/ ReadVersions \/ Answer
  PROVE  RunsInv'
<1>0. CallStands /\ CallTyped
  BY DEF RunsInv, TypedInv
<1>1. UNCHANGED <<shared, runState, readHistory>>
  BY DEF Ask, Read, ReadFails, ReadSnapshot, ReadVersions, Answer
<1>2. UNCHANGED <<index, snapshot, built, trust, saved>>
  BY <1>1 DEF shared, readHistory
<1>3. CallStands'
  <2>1. CASE Ask
    <3>1. /\ call'.trust = trust /\ call'.saved = saved /\ call'.seen = {} /\ trust # "none"
      BY <2>1 DEF Ask, NoCall
    <3>2. Kept(trust) /\ (saved => snapshot = built)
      BY <3>1 DEF RunsInv, Calm
    <3>3. Kept(call.trust)'
      BY <1>2, <3>1, <3>2 DEF Kept, Coherent, GroupsKnown, Graph
    <3> QED BY <1>2, <3>1, <3>2, <3>3 DEF CallStands
  <2>2. CASE Read
    <3>1. PICK t \in Tables :
             Reads(t) /\ call' = [AfterRead EXCEPT !.seen = @ \cup {<<t, index[t]>>}]
      BY <2>2 DEF Read
    <3>2. /\ call.open /\ call'.trust = call.trust /\ call'.saved = call.saved
          /\ call'.holes = call.holes /\ call'.seen = call.seen \cup {<<t, index[t]>>}
      BY <1>0, <3>1 DEF Reads, AfterRead, CallTyped
    <3>3. IsSo(<<t, index[t]>>)
      BY DEF IsSo
    <3> QED BY <1>0, <1>2, <3>2, <3>3, CallGoesOn
  <2>3. CASE ReadFails
    <3>1. PICK t \in Tables :
             /\ Reads(t)
             /\ call' = IF call.lenient = 0 THEN NoCall
                        ELSE [AfterRead EXCEPT !.seen = @ \cup {<<t, {}>>}, !.holes = TRUE]
      BY <2>3 DEF ReadFails
    <3>2. CASE call.lenient # 0
      <4>1. /\ call.open /\ call'.trust = call.trust /\ call'.saved = call.saved
            /\ call'.holes = TRUE
        BY <1>0, <3>1, <3>2 DEF Reads, AfterRead, CallTyped
      <4> QED BY <1>0, <1>2, <4>1, CallGoesOn
    <3> QED BY <3>1, <3>2, CallIsClosed
  <2>4. CASE ReadSnapshot
    <3>1. CASE snapshot # NoSnapshot
      <4>1. /\ call.open /\ call'.trust = call.trust /\ call'.saved = call.saved
            /\ call'.holes = call.holes
            /\ call'.seen = call.seen \cup {<<"snapshot", snapshot>>}
        BY <1>0, <2>4, <3>1 DEF ReadSnapshot, Reads, AfterRead, CallTyped
      <4>2. IsSo(<<"snapshot", snapshot>>)
        BY DEF IsSo
      <4> QED BY <1>0, <1>2, <4>1, <4>2, CallGoesOn
    <3> QED BY <2>4, <3>1, CallIsClosed DEF ReadSnapshot
  <2>5. CASE ReadVersions
    <3>1. /\ call.open /\ call'.trust = call.trust /\ call'.saved = call.saved
          /\ call'.holes = call.holes /\ call'.seen = call.seen
      BY <1>0, <2>5 DEF ReadVersions, Reads, AfterRead, CallTyped
    <3> QED BY <1>0, <1>2, <3>1, CallGoesOn
  <2>6. CASE Answer
    BY <2>6, CallIsClosed DEF Answer
  <2> QED BY <2>1, <2>2, <2>3, <2>4, <2>5, <2>6
<1> QED BY <1>1, <1>3, CallKeeps

LEMMA RunsInvStep == RunsInv /\ [ReadersNext]_readerVars => RunsInv'
<1> SUFFICES ASSUME RunsInv, [ReadersNext]_readerVars PROVE RunsInv'
  OBVIOUS
<1>0. TypedInv'
  BY ReadTypedStep DEF RunsInv
<1>1. ASSUME NEW w \in Indexers, LaunchFull(w) \/ LaunchUpdate(w) \/ LaunchRemoval(w)
      PROVE  RunsInv'
  <2>1. PICK kind \in {"full", "update", "removal"}, files \in SUBSET CodeFiles :
           Launch(w, kind, files)
    BY <1>1 DEF LaunchFull, LaunchUpdate, LaunchRemoval
  <2> QED BY <1>0, <2>1, LaunchKeeps
<1>2. ASSUME UNCHANGED readerVars PROVE RunsInv'
  <2>1. UNCHANGED <<shared, runState, call, readHistory>>
    BY <1>2 DEF readerVars
  <2>2. CallStands'
    BY <2>1, CallIsOpen DEF shared, readHistory, RunsInv
  <2> QED BY <1>0, <2>1, <2>2, CallKeeps
<1> QED BY <1>0, <1>1, <1>2, WipeKeeps, StoreKeeps, LoadKeeps, DeriveKeeps, SaveKeeps,
           SaveFailsKeeps, SaveTornKeeps, CollectKeeps, DropKeeps, CutOffKeeps, ReadingKeeps
        DEF ReadersNext

\* Runs and updates of any number of processes, in any order of their steps, keep the
\* invariant: what a lone run built is there until the next one starts.
THEOREM RunsAreKept == ReadersSpec => []RunsInv
<1> QED BY RunsInvInit, RunsInvStep, PTL DEF ReadersSpec

\* The tables hold rows of the runs that were started, the snapshot and what runs have in
\* memory are graphs of such rows.
THEOREM TypeCorrect == ReadersSpec => []ReadersTypeOK
<1>1. RunsInv => ReadersTypeOK
  BY DEF RunsInv, TypedInv
<1> QED BY <1>1, RunsAreKept, PTL

\* A call that is still open has seen the tables as they are.
LEMMA WhatIsSeen ==
  ASSUME CallStands, call.open, ~call.holes
  PROVE  /\ \A x, y \in call.seen : x[1] = y[1] => x = y
         /\ \A t \in Tables : \A rows \in Seen(t) : rows = index[t]
         /\ \A shot \in Seen("snapshot") : shot = snapshot
<1> DEFINE Now(x) == \/ x[1] \in Tables /\ x = <<x[1], index[x[1]]>>
                     \/ x = <<"snapshot", snapshot>>
<1>1. \A x \in call.seen : Now(x)
  BY DEF CallStands
<1>2. "snapshot" \notin Tables
  BY DEF Tables
<1>3. ASSUME NEW x \in call.seen, NEW y \in call.seen, x[1] = y[1] PROVE x = y
  <2>1. Now(x) /\ Now(y)
    BY <1>1
  <2> QED BY <1>2, <1>3, <2>1
<1>4. ASSUME NEW t \in Tables, NEW rows \in Seen(t) PROVE rows = index[t]
  <2>1. PICK x \in call.seen : x[1] = t /\ rows = x[2]
    BY <1>4 DEF Seen
  <2>2. Now(x)
    BY <1>1
  <2> QED BY <1>2, <2>1, <2>2
<1>5. ASSUME NEW shot \in Seen("snapshot") PROVE shot = snapshot
  <2>1. PICK x \in call.seen : x[1] = "snapshot" /\ shot = x[2]
    BY <1>5 DEF Seen
  <2>2. Now(x)
    BY <1>1
  <2> QED BY <1>2, <2>1, <2>2
<1> QED BY <1>3, <1>4, <1>5

\* A call that no write fell into, on an index that its last run had to itself, answers
\* from one graph, whatever the number of writers, files and runs.
THEOREM AnswersAreCoherentAlways == ReadersSpec => []AnswersAreCoherent
<1>1. RunsInv => AnswersAreCoherent
  <2> SUFFICES ASSUME RunsInv, Answered, ~call.holes PROVE AnswersAreCoherent
    BY DEF AnswersAreCoherent
  <2>1. CallStands /\ call.open
    BY DEF RunsInv, Answered
  <2>2. Kept(call.trust) /\ call.trust # "none"
    BY <2>1 DEF CallStands
  <2>3. \A t \in Tables : \A rows \in Seen(t) : rows = index[t]
    BY <2>1, WhatIsSeen
  <2>4. \A x, y \in call.seen : x[1] = y[1] => x = y
    BY <2>1, WhatIsSeen
  <2>5. ASSUME NEW symbols \in Seen("symbols")
        PROVE  /\ \A edges \in Seen("relationships") : edges \subseteq Each(symbols)
               /\ \A files \in Seen("files") : symbols \subseteq files
    BY <2>2, <2>3 DEF Kept, Coherent, Tables
  <2>6. ASSUME NEW symbols \in Seen("symbols"), call.trust = "whole",
               NEW groups \in Seen("communities") \cup Seen("processes")
        PROVE  UNION groups \subseteq symbols
    <3>1. symbols = index["symbols"]
      BY <2>3 DEF Tables
    <3>2. \A g \in groups : g \subseteq index["symbols"]
      BY <2>2, <2>3, <2>6 DEF Kept, GroupsKnown, Tables
    <3> QED BY <3>1, <3>2
  <2> QED BY <2>4, <2>5, <2>6 DEF AnswersAreCoherent
<1> QED BY <1>1, RunsAreKept, PTL

\* What `myc diff` and get_graph_diff compare the index with is what the last full run
\* built, and right after that run the two are the same.
THEOREM DiffIsSinceFullRunAlways == ReadersSpec => []DiffIsSinceFullRun
<1>1. RunsInv => DiffIsSinceFullRun
  <2> SUFFICES ASSUME RunsInv, Answered, ~call.holes, call.saved,
                      NEW shot \in Seen("snapshot")
               PROVE  /\ shot = built
                      /\ call.trust = "whole" =>
                          /\ \A symbols \in Seen("symbols") : symbols = shot.symbols
                          /\ \A edges \in Seen("relationships") : edges = shot.relationships
    BY DEF DiffIsSinceFullRun
  <2>1. CallStands /\ call.open
    BY DEF RunsInv, Answered
  <2>2. Kept(call.trust) /\ snapshot = built
    BY <2>1 DEF CallStands
  <2>3. /\ \A t \in Tables : \A rows \in Seen(t) : rows = index[t]
        /\ shot = snapshot
    BY <2>1, WhatIsSeen
  <2>4. ASSUME call.trust = "whole"
        PROVE  shot.symbols = index["symbols"] /\ shot.relationships = index["relationships"]
    <3>1. Graph(index) = shot
      BY <2>2, <2>3, <2>4 DEF Kept
    <3> QED BY <3>1 DEF Graph
  <2> QED BY <2>2, <2>3, <2>4 DEF Tables
<1> QED BY <1>1, RunsAreKept, PTL
=============================================================================
