------------------------ MODULE EmbeddedIndex_proofs ------------------------
(***************************************************************************)
(* Proofs about EmbeddedIndex for any finite set of files, any embedders   *)
(* and any dimensions, and about StoredRows for any symbols, embeddings,   *)
(* teams and users and tables of any length.                               *)
(***************************************************************************)
EXTENDS EmbeddedIndex, StoredRows, FiniteSetTheorems, WellFoundedInduction, TLAPS

LEMMA BatchCount ==
  ASSUME NEW S \in SUBSET Files
  PROVE  Cardinality(S) \in Nat /\ (S # {} => Cardinality(S) > 0)
<1>1. IsFiniteSet(S)
  BY EmbedderAssumption, FS_Subset
<1>2. QED
  BY <1>1, FS_CardinalityType, FS_EmptySet

LEMMA DefaultDimInDims == DefaultDim \in {DimOf[e] : e \in Embedders}
BY EmbedderAssumption DEF DefaultDim

LEMMA TypeStep == TypeOK /\ [Next]_vars => TypeOK'
<1> SUFFICES ASSUME TypeOK, [Next]_vars PROVE TypeOK'
  OBVIOUS
<1> USE DefaultDimInDims DEF TypeOK, Steps, index, run
<1>1. CASE Configure
  BY <1>1 DEF Configure
<1>2. CASE Wipe
  BY <1>2 DEF Wipe, Blank
<1>3. CASE Prepare
  BY <1>3, EmbedderAssumption DEF Prepare, Blank, RunEmbedder, QueryEmbedder, Rebuilt, NoTable
<1>4. CASE Parse
  BY <1>4 DEF Parse
<1>5. ASSUME NEW s \in BOOLEAN, StartFull(s) PROVE TypeOK'
  BY <1>5 DEF StartFull
<1>6. ASSUME NEW s \in BOOLEAN, NEW T \in SUBSET Files, StartIncremental(s, T) PROVE TypeOK'
  BY <1>6 DEF StartIncremental
<1>7. ASSUME NEW f \in Files, Purge(f) PROVE TypeOK'
  BY <1>7 DEF Purge
<1>8. ASSUME NEW f \in Files, RemoveFile(f) PROVE TypeOK'
  BY <1>8 DEF RemoveFile
<1>9. ASSUME NEW part \in SUBSET Files, StoreSymbols(part) PROVE TypeOK'
  BY <1>9 DEF StoreSymbols
<1>10. CASE StoreRefused
  BY <1>10 DEF StoreRefused, EndRun
<1>11. CASE EmbedFails
  BY <1>11 DEF EmbedFails
<1>12. CASE EmbedStores
  <2>1. batch \subseteq Files /\ Cardinality(batch) \in Nat
    BY BatchCount
  <2>2. vector' \in [Files -> {NoRow, Zero} \cup Embedders]
    BY <1>12 DEF EmbedStores
  <2>3. symDim' \in {NoTable} \cup {DimOf[e] : e \in Embedders}
    BY <1>12 DEF EmbedStores
  <2>4. count' \in Nat
    BY <1>12, <2>1 DEF EmbedStores
  <2>5. pc' \in Steps
    BY <1>12 DEF EmbedStores
  <2>6. QED
    BY <1>12, <2>2, <2>3, <2>4, <2>5 DEF EmbedStores
<1>13. CASE EmbedSkipped
  BY <1>13 DEF EmbedSkipped
<1>14. CASE RecordMeta
  BY <1>14 DEF RecordMeta
<1>15. CASE Account
  <2> DEFINE b == [total |-> Cardinality(batch), embedded |-> count]
  <2>1. b \in [total : Nat, embedded : Nat]
    BY BatchCount
  <2>2. Merged(b) \in [total : Nat, embedded : Nat]
    <3>1. CASE stats = NoStats
      BY <2>1, <3>1 DEF Merged
    <3>2. CASE stats # NoStats
      BY <2>1, <3>2 DEF Merged
    <3>3. QED
      BY <3>1, <3>2
  <2>3. stats' \in {b, Merged(b), stats}
    BY <1>15 DEF Account
  <2>4. stats' \in {NoStats} \cup [total : Nat, embedded : Nat]
    BY <2>1, <2>2, <2>3
  <2>5. QED
    BY <1>15, <2>4 DEF Account
<1>16. CASE Finish
  BY <1>16 DEF Finish, EndRun
<1>17. CASE Interrupt
  BY <1>17 DEF Interrupt, EndRun
<1>18. CASE UNCHANGED vars
  BY <1>18 DEF vars, index, run
<1>19. QED
  BY <1>1, <1>2, <1>3, <1>4, <1>5, <1>6, <1>7, <1>8, <1>9,
     <1>10, <1>11, <1>12, <1>13, <1>14, <1>15, <1>16, <1>17, <1>18 DEF Next

(* Every variable keeps the type of its declaration; in particular the        *)
(* dimension of the table and of a store handle is always that of an embedder. *)
THEOREM TypeCorrect == Spec => []TypeOK
<1>1. ASSUME Init PROVE TypeOK
  <2>1. vector \in [Files -> {NoRow, Zero} \cup Embedders]
    BY <1>1 DEF Init
  <2>2. symDim \in {NoTable} \cup {DimOf[e] : e \in Embedders}
    BY <1>1 DEF Init
  <2>3. QED
    BY <1>1, <2>1, <2>2, DefaultDimInDims DEF Init, TypeOK, Steps
<1>2. QED
  BY <1>1, TypeStep, PTL DEF Spec

-----------------------------------------------------------------------------
\* Steps of a run between prepare_embeddings and the record of its embedder.
Working == {"purge", "parse", "store", "embed", "meta"}

\* The vectors of the table have the table's dimension.
VectorsFit == \A f \in Files : vector[f] \in Embedders => DimOf[vector[f]] = symDim

\* A run that embeds owns a table of its dimension (or none), and an
\* incremental one works in the space of the query path.
RunFits ==
    pc \in Working /\ emb # NoMeta =>
        /\ dim = DimOf[emb]
        /\ symDim \in {NoTable, dim}
        /\ kind = "incremental" => emb = QueryEmbedder

\* A full run has no vector in the table until it stores its own.
FullRunStartsBare ==
    kind = "full" =>
        /\ pc = "prepare" => vector = Blank
        /\ pc \in {"parse", "store", "embed"} => \A f \in Files : vector[f] \notin Embedders

\* Between the vectors and their record, the vectors are the run's.
VectorsOfTheRun ==
    pc = "meta" => /\ emb # NoMeta
                   /\ ~orphaned => \A f \in Files : vector[f] \in Embedders => vector[f] = emb

PurgeIsIncremental == pc = "purge" => kind = "incremental"

\* The inductive invariant: OneVectorSpace alone says nothing about the run
\* that is about to write vectors and then their record.
SpaceInv == /\ TypeOK /\ OneVectorSpace /\ VectorsFit /\ RunFits
            /\ FullRunStartsBare /\ VectorsOfTheRun /\ PurgeIsIncremental

LEMMA SpaceInvInit == Init => SpaceInv
<1> SUFFICES ASSUME Init PROVE SpaceInv
  OBVIOUS
<1>1. TypeOK
  BY EmbedderAssumption, DefaultDimInDims DEF Init, TypeOK, Steps, NoTable
<1>2. QED
  BY <1>1, EmbedderAssumption DEF Init, SpaceInv, OneVectorSpace, VectorsFit, RunFits,
     FullRunStartsBare, VectorsOfTheRun, PurgeIsIncremental, Working, Blank

LEMMA SpaceStep == SpaceInv /\ [Next]_vars => SpaceInv'
<1> SUFFICES ASSUME SpaceInv, [Next]_vars PROVE SpaceInv'
  OBVIOUS
<1>0. TypeOK /\ TypeOK'
  BY TypeStep DEF SpaceInv
<1> DEFINE Rest == /\ OneVectorSpace /\ VectorsFit /\ RunFits
                   /\ FullRunStartsBare /\ VectorsOfTheRun /\ PurgeIsIncremental
<1> SUFFICES ASSUME Rest PROVE Rest'
  BY <1>0 DEF SpaceInv
<1> USE <1>0, EmbedderAssumption DEF TypeOK, OneVectorSpace, VectorsFit, RunFits,
    FullRunStartsBare, VectorsOfTheRun, PurgeIsIncremental, Working, QueryEmbedder,
    NoTable, index, run
<1>1. CASE Configure
  BY <1>1 DEF Configure
<1>2. CASE Wipe
  BY <1>2 DEF Wipe, Blank
<1>3. CASE Prepare
  BY <1>3 DEF Prepare, Blank, RunEmbedder, Rebuilt
<1>4. CASE Parse
  BY <1>4 DEF Parse
<1>5. ASSUME NEW s \in BOOLEAN, StartFull(s) PROVE Rest'
  BY <1>5 DEF StartFull
<1>6. ASSUME NEW s \in BOOLEAN, NEW T \in SUBSET Files, StartIncremental(s, T) PROVE Rest'
  BY <1>6 DEF StartIncremental
<1>7. ASSUME NEW f \in Files, Purge(f) PROVE Rest'
  BY <1>7 DEF Purge
<1>8. ASSUME NEW f \in Files, RemoveFile(f) PROVE Rest'
  BY <1>8 DEF RemoveFile
<1>9. ASSUME NEW part \in SUBSET Files, StoreSymbols(part) PROVE Rest'
  BY <1>9 DEF StoreSymbols
<1>10. CASE StoreRefused
  BY <1>10 DEF StoreRefused, EndRun
<1>11. CASE EmbedFails
  BY <1>11 DEF EmbedFails
<1>12. CASE EmbedStores
  BY <1>12, BatchCount DEF EmbedStores, Rows
<1>13. CASE EmbedSkipped
  BY <1>13 DEF EmbedSkipped
<1>14. CASE RecordMeta
  BY <1>14 DEF RecordMeta
<1>15. CASE Account
  BY <1>15 DEF Account
<1>16. CASE Finish
  BY <1>16 DEF Finish, EndRun
<1>17. CASE Interrupt
  BY <1>17 DEF Interrupt, EndRun
<1>18. CASE UNCHANGED vars
  BY <1>18 DEF vars, index, run
<1>19. QED
  BY <1>1, <1>2, <1>3, <1>4, <1>5, <1>6, <1>7, <1>8, <1>9,
     <1>10, <1>11, <1>12, <1>13, <1>14, <1>15, <1>16, <1>17, <1>18 DEF Next

(* Outside the gap between its vectors and their record, and unless an        *)
(* earlier run lost that record, every stored vector is in the space of the   *)
(* embedder the query paths resolve (embeddings.rs:938-961).                  *)
THEOREM VectorsShareASpace == Spec => []OneVectorSpace
<1>1. SpaceInv => OneVectorSpace
  BY DEF SpaceInv
<1>2. QED
  BY SpaceInvInit, SpaceStep, <1>1, PTL DEF Spec

(* store_symbols and store_embeddings of a run that embeds never meet a       *)
(* symbols table of another dimension (store.rs:128-159), and the table has   *)
(* the dimension of the vectors in it.                                        *)
THEOREM EmbeddingRunsFit == Spec => []EmbeddingRunFits
<1>1. SpaceInv => EmbeddingRunFits
  BY DEF SpaceInv, EmbeddingRunFits, RunFits, VectorsFit, Working
<1>2. QED
  BY SpaceInvInit, SpaceStep, <1>1, PTL DEF Spec

-----------------------------------------------------------------------------
\* What a run was given bounds what it works on.
WorkIsGiven ==
    /\ pc = "wipe" => kind = "full"
    /\ pc \in {"idle", "wipe", "prepare"} => batch = {} /\ count = 0
    /\ pc \in {"idle", "wipe"} \/ (pc = "prepare" /\ kind = "full") => targets = {}
    /\ kind = "incremental" /\ pc # "prepare" => batch \subseteq targets /\ todo \subseteq targets
    /\ pc = "store" => todo \subseteq batch

\* A file is stored once: its rows were purged, and part of a batch is only
\* stored in a table of the handle's dimension.
StoredOnce ==
    /\ pc = "purge" => (targets \ todo) \cap Rows = {}
    /\ pc = "parse" => targets \cap Rows = {}
    /\ pc = "store" => todo \cap Rows = {} /\ batch \ todo \subseteq Rows /\ (todo # batch => symDim = dim)
    /\ pc \in {"embed", "meta", "account"} => batch \subseteq Rows

\* A full run has the table to itself: all rows are its own, and once they are
\* embedded they have the run's vectors.
FullRunOwns ==
    kind = "full" =>
        /\ pc \in {"prepare", "parse"} => Rows = {}
        /\ pc = "store" => Rows \subseteq batch
        /\ pc \in {"embed", "meta", "account", "finish"} => Rows \subseteq batch /\ batch \subseteq Rows
        /\ pc \in {"meta", "account", "finish"} /\ emb # NoMeta /\ count > 0 =>
               /\ \A f \in batch : vector[f] = emb
               /\ symDim = DimOf[emb]
               /\ pc # "meta" /\ ~orphaned => QueryEmbedder = emb
               /\ pc = "finish" /\ ~hidden => stats = [total |-> Cardinality(batch), embedded |-> count]

\* What a run is about to account for: nothing or all of its batch was embedded.
CountsTheBatch ==
    /\ stats # NoStats => stats.embedded <= stats.total
    /\ pc = "meta" => count > 0
    /\ pc \in {"meta", "account"} => count \in {0, Cardinality(batch)}
    /\ pc \in {"meta", "account"} /\ count > 0 => \A f \in batch : vector[f] # Zero
    /\ pc = "finish" /\ kind = "full" => count \in {0, Cardinality(batch)}

\* Placeholders outside the batch whose accounting is to come are reported.
Pending == IF Unaccounted THEN batch ELSE {}

OthersAreReported ==
    ~hidden /\ (stats = NoStats \/ ~Partial) => \A f \in Files \ Pending : vector[f] # Zero

RunInv == SpaceInv /\ WorkIsGiven /\ StoredOnce /\ FullRunOwns /\ CountsTheBatch /\ OthersAreReported

LEMMA WorkStep ==
  ASSUME TypeOK, PurgeIsIncremental, WorkIsGiven, [Next]_vars
  PROVE  WorkIsGiven'
<1> USE EmbedderAssumption DEF TypeOK, PurgeIsIncremental, WorkIsGiven, index, run
<1>1. CASE Configure
  BY <1>1 DEF Configure
<1>2. CASE Wipe
  BY <1>2 DEF Wipe, Blank
<1>3. CASE Prepare
  BY <1>3 DEF Prepare, Blank, RunEmbedder, Rebuilt
<1>4. CASE Parse
  BY <1>4 DEF Parse
<1>5. ASSUME NEW s \in BOOLEAN, StartFull(s) PROVE WorkIsGiven'
  BY <1>5 DEF StartFull
<1>6. ASSUME NEW s \in BOOLEAN, NEW T \in SUBSET Files, StartIncremental(s, T) PROVE WorkIsGiven'
  BY <1>6 DEF StartIncremental
<1>7. ASSUME NEW f \in Files, Purge(f) PROVE WorkIsGiven'
  BY <1>7 DEF Purge
<1>8. ASSUME NEW f \in Files, RemoveFile(f) PROVE WorkIsGiven'
  BY <1>8 DEF RemoveFile
<1>9. ASSUME NEW part \in SUBSET Files, StoreSymbols(part) PROVE WorkIsGiven'
  BY <1>9 DEF StoreSymbols
<1>10. CASE StoreRefused
  BY <1>10 DEF StoreRefused, EndRun
<1>11. CASE EmbedFails
  BY <1>11 DEF EmbedFails
<1>12. CASE EmbedStores
  BY <1>12 DEF EmbedStores
<1>13. CASE EmbedSkipped
  BY <1>13 DEF EmbedSkipped
<1>14. CASE RecordMeta
  BY <1>14 DEF RecordMeta
<1>15. CASE Account
  BY <1>15 DEF Account, Merged
<1>16. CASE Finish
  BY <1>16 DEF Finish, EndRun
<1>17. CASE Interrupt
  BY <1>17 DEF Interrupt, EndRun
<1>18. CASE UNCHANGED vars
  BY <1>18 DEF vars, index, run
<1>19. QED
  BY <1>1, <1>2, <1>3, <1>4, <1>5, <1>6, <1>7, <1>8, <1>9,
     <1>10, <1>11, <1>12, <1>13, <1>14, <1>15, <1>16, <1>17, <1>18 DEF Next

LEMMA StoredStep ==
  ASSUME TypeOK, SpaceInv, WorkIsGiven, FullRunOwns, StoredOnce, [Next]_vars
  PROVE  StoredOnce'
<1> USE EmbedderAssumption DEF TypeOK, WorkIsGiven, StoredOnce, Rows, index, run
<1>1. CASE Configure
  BY <1>1 DEF Configure
<1>2. CASE Wipe
  BY <1>2 DEF Wipe, Blank
<1>3. CASE Prepare
  BY <1>3 DEF Prepare, Blank, RunEmbedder, Rebuilt
<1>4. CASE Parse
  BY <1>4 DEF Parse, FullRunOwns
<1>5. ASSUME NEW s \in BOOLEAN, StartFull(s) PROVE StoredOnce'
  BY <1>5 DEF StartFull
<1>6. ASSUME NEW s \in BOOLEAN, NEW T \in SUBSET Files, StartIncremental(s, T) PROVE StoredOnce'
  BY <1>6 DEF StartIncremental
<1>7. ASSUME NEW f \in Files, Purge(f) PROVE StoredOnce'
  BY <1>7 DEF Purge
<1>8. ASSUME NEW f \in Files, RemoveFile(f) PROVE StoredOnce'
  BY <1>8 DEF RemoveFile
<1>9. ASSUME NEW part \in SUBSET Files, StoreSymbols(part) PROVE StoredOnce'
  BY <1>9 DEF StoreSymbols
<1>10. CASE StoreRefused
  BY <1>10 DEF StoreRefused, EndRun
<1>11. CASE EmbedFails
  BY <1>11 DEF EmbedFails
<1>12. CASE EmbedStores
  BY <1>12 DEF EmbedStores
<1>13. CASE EmbedSkipped
  BY <1>13 DEF EmbedSkipped
<1>14. CASE RecordMeta
  BY <1>14 DEF RecordMeta
<1>15. CASE Account
  BY <1>15 DEF Account, Merged
<1>16. CASE Finish
  BY <1>16 DEF Finish, EndRun
<1>17. CASE Interrupt
  BY <1>17 DEF Interrupt, EndRun
<1>18. CASE UNCHANGED vars
  BY <1>18 DEF vars, index, run
<1>19. QED
  BY <1>1, <1>2, <1>3, <1>4, <1>5, <1>6, <1>7, <1>8, <1>9,
     <1>10, <1>11, <1>12, <1>13, <1>14, <1>15, <1>16, <1>17, <1>18 DEF Next

LEMMA OwnStep ==
  ASSUME TypeOK, SpaceInv, SpaceInv', WorkIsGiven, StoredOnce, FullRunOwns, CountsTheBatch, [Next]_vars
  PROVE  FullRunOwns'
<1> USE EmbedderAssumption DEF TypeOK, SpaceInv, FullRunStartsBare, RunFits, Working, PurgeIsIncremental, WorkIsGiven, StoredOnce, FullRunOwns, Rows, QueryEmbedder, index, run
<1>1. CASE Configure
  BY <1>1 DEF Configure
<1>2. CASE Wipe
  BY <1>2 DEF Wipe, Blank
<1>3. CASE Prepare
  BY <1>3 DEF Prepare, Blank, RunEmbedder, Rebuilt
<1>4. CASE Parse
  BY <1>4 DEF Parse
<1>5. ASSUME NEW s \in BOOLEAN, StartFull(s) PROVE FullRunOwns'
  BY <1>5 DEF StartFull
<1>6. ASSUME NEW s \in BOOLEAN, NEW T \in SUBSET Files, StartIncremental(s, T) PROVE FullRunOwns'
  BY <1>6 DEF StartIncremental
<1>7. ASSUME NEW f \in Files, Purge(f) PROVE FullRunOwns'
  BY <1>7 DEF Purge
<1>8. ASSUME NEW f \in Files, RemoveFile(f) PROVE FullRunOwns'
  BY <1>8 DEF RemoveFile
<1>9. ASSUME NEW part \in SUBSET Files, StoreSymbols(part) PROVE FullRunOwns'
  BY <1>9 DEF StoreSymbols
<1>10. CASE StoreRefused
  BY <1>10 DEF StoreRefused, EndRun
<1>11. CASE EmbedFails
  BY <1>11 DEF EmbedFails
<1>12. CASE EmbedStores
  BY <1>12, BatchCount DEF EmbedStores
<1>13. CASE EmbedSkipped
  BY <1>13 DEF EmbedSkipped
<1>14. CASE RecordMeta
  BY <1>14 DEF RecordMeta
<1>15. CASE Account
  <2>1. count > 0 => batch # {}
    BY <1>15, FS_EmptySet DEF Account, CountsTheBatch
  <2>2. pc' = "finish" /\ count > 0 /\ kind = "full" /\ ~hidden' =>
            stats' = [total |-> Cardinality(batch), embedded |-> count]
    BY <1>15, <2>1 DEF Account
  <2>3. QED
    BY <1>15, <2>2 DEF Account
<1>16. CASE Finish
  BY <1>16 DEF Finish, EndRun
<1>17. CASE Interrupt
  BY <1>17 DEF Interrupt, EndRun
<1>18. CASE UNCHANGED vars
  BY <1>18 DEF vars, index, run
<1>19. QED
  BY <1>1, <1>2, <1>3, <1>4, <1>5, <1>6, <1>7, <1>8, <1>9,
     <1>10, <1>11, <1>12, <1>13, <1>14, <1>15, <1>16, <1>17, <1>18 DEF Next

LEMMA CountStep ==
  ASSUME TypeOK, WorkIsGiven, StoredOnce, CountsTheBatch, [Next]_vars
  PROVE  CountsTheBatch'
<1> USE EmbedderAssumption DEF TypeOK, WorkIsGiven, StoredOnce, CountsTheBatch, Rows, index, run
<1>1. CASE Configure
  BY <1>1 DEF Configure
<1>2. CASE Wipe
  BY <1>2 DEF Wipe, Blank
<1>3. CASE Prepare
  BY <1>3 DEF Prepare, Blank, RunEmbedder, Rebuilt
<1>4. CASE Parse
  BY <1>4 DEF Parse
<1>5. ASSUME NEW s \in BOOLEAN, StartFull(s) PROVE CountsTheBatch'
  BY <1>5 DEF StartFull
<1>6. ASSUME NEW s \in BOOLEAN, NEW T \in SUBSET Files, StartIncremental(s, T) PROVE CountsTheBatch'
  BY <1>6 DEF StartIncremental
<1>7. ASSUME NEW f \in Files, Purge(f) PROVE CountsTheBatch'
  BY <1>7 DEF Purge
<1>8. ASSUME NEW f \in Files, RemoveFile(f) PROVE CountsTheBatch'
  BY <1>8 DEF RemoveFile
<1>9. ASSUME NEW part \in SUBSET Files, StoreSymbols(part) PROVE CountsTheBatch'
  BY <1>9 DEF StoreSymbols
<1>10. CASE StoreRefused
  BY <1>10 DEF StoreRefused, EndRun
<1>11. CASE EmbedFails
  BY <1>11 DEF EmbedFails
<1>12. CASE EmbedStores
  BY <1>12, BatchCount DEF EmbedStores
<1>13. CASE EmbedSkipped
  BY <1>13 DEF EmbedSkipped
<1>14. CASE RecordMeta
  BY <1>14 DEF RecordMeta
<1>15. CASE Account
  <2> DEFINE b == [total |-> Cardinality(batch), embedded |-> count]
  <2>1. Cardinality(batch) \in Nat /\ count \in {0, Cardinality(batch)}
    BY <1>15, BatchCount DEF Account
  <2>2. b.embedded <= b.total /\ b \in [total : Nat, embedded : Nat]
    BY <2>1
  <2>3. Merged(b).embedded <= Merged(b).total
    <3>1. CASE stats = NoStats
      BY <2>2, <3>1 DEF Merged
    <3>2. CASE stats # NoStats
      BY <2>2, <3>2 DEF Merged
    <3>3. QED
      BY <3>1, <3>2
  <2>4. stats' \in {b, Merged(b), stats}
    BY <1>15 DEF Account
  <2>5. stats' # NoStats => stats'.embedded <= stats'.total
    BY <2>2, <2>3, <2>4
  <2>6. QED
    BY <1>15, <2>1, <2>5 DEF Account
<1>16. CASE Finish
  BY <1>16 DEF Finish, EndRun
<1>17. CASE Interrupt
  BY <1>17 DEF Interrupt, EndRun
<1>18. CASE UNCHANGED vars
  BY <1>18 DEF vars, index, run
<1>19. QED
  BY <1>1, <1>2, <1>3, <1>4, <1>5, <1>6, <1>7, <1>8, <1>9,
     <1>10, <1>11, <1>12, <1>13, <1>14, <1>15, <1>16, <1>17, <1>18 DEF Next

LEMMA OthersStep ==
  ASSUME TypeOK, TypeOK', SpaceInv, WorkIsGiven, StoredOnce, FullRunOwns, CountsTheBatch, OthersAreReported, [Next]_vars
  PROVE  OthersAreReported'
<1> USE EmbedderAssumption DEF TypeOK, WorkIsGiven, StoredOnce, FullRunOwns, OthersAreReported, Pending, Unaccounted, Partial, Rows, index, run
<1>1. CASE Configure
  BY <1>1 DEF Configure
<1>2. CASE Wipe
  BY <1>2 DEF Wipe, Blank
<1>3. CASE Prepare
  BY <1>3 DEF Prepare, Blank, RunEmbedder, Rebuilt
<1>4. CASE Parse
  BY <1>4 DEF Parse
<1>5. ASSUME NEW s \in BOOLEAN, StartFull(s) PROVE OthersAreReported'
  BY <1>5 DEF StartFull
<1>6. ASSUME NEW s \in BOOLEAN, NEW T \in SUBSET Files, StartIncremental(s, T) PROVE OthersAreReported'
  BY <1>6 DEF StartIncremental
<1>7. ASSUME NEW f \in Files, Purge(f) PROVE OthersAreReported'
  BY <1>7 DEF Purge
<1>8. ASSUME NEW f \in Files, RemoveFile(f) PROVE OthersAreReported'
  BY <1>8 DEF RemoveFile
<1>9. ASSUME NEW part \in SUBSET Files, StoreSymbols(part) PROVE OthersAreReported'
  BY <1>9 DEF StoreSymbols
<1>10. CASE StoreRefused
  BY <1>10 DEF StoreRefused, EndRun
<1>11. CASE EmbedFails
  BY <1>11 DEF EmbedFails, CountsTheBatch
<1>12. CASE EmbedStores
  BY <1>12, BatchCount DEF EmbedStores, CountsTheBatch
<1>13. CASE EmbedSkipped
  BY <1>13 DEF EmbedSkipped
<1>14. CASE RecordMeta
  BY <1>14 DEF RecordMeta, CountsTheBatch
<1>15. CASE Account
  BY <1>15, BatchCount DEF Account, Merged, CountsTheBatch
<1>16. CASE Finish
  BY <1>16 DEF Finish, EndRun
<1>17. CASE Interrupt
  BY <1>17 DEF Interrupt, EndRun
<1>18. CASE UNCHANGED vars
  BY <1>18 DEF vars, index, run
<1>19. QED
  BY <1>1, <1>2, <1>3, <1>4, <1>5, <1>6, <1>7, <1>8, <1>9,
     <1>10, <1>11, <1>12, <1>13, <1>14, <1>15, <1>16, <1>17, <1>18 DEF Next

LEMMA RunInvInit == Init => RunInv
<1> SUFFICES ASSUME Init PROVE RunInv
  OBVIOUS
<1>1. SpaceInv
  BY SpaceInvInit
<1>2. Rows = {}
  BY DEF Init, Rows
<1>3. \A f \in Files : vector[f] # Zero
  BY EmbedderAssumption DEF Init
<1>4. QED
  BY <1>1, <1>2, <1>3 DEF Init, RunInv, WorkIsGiven, StoredOnce, FullRunOwns, CountsTheBatch,
     OthersAreReported

LEMMA RunStep == RunInv /\ [Next]_vars => RunInv'
BY SpaceStep, WorkStep, StoredStep, OwnStep, CountStep, OthersStep DEF RunInv, SpaceInv

(* A full run whose vectors and records were all written leaves exactly the   *)
(* parsed files, all in the space of the query path, and accounting that      *)
(* calls the index complete, whatever it found (analyzer.rs:974-1130).        *)
THEOREM FullRunHealsAlways == Spec => []FullRunHeals
<1>1. ASSUME RunInv PROVE FullRunHeals
  <2> SUFFICES ASSUME pc = "finish", kind = "full", emb # NoMeta, count > 0, ~orphaned, ~hidden
               PROVE  /\ Rows = batch
                      /\ \A f \in batch : vector[f] = emb
                      /\ QueryEmbedder = emb /\ symDim = DimOf[emb]
                      /\ ~Partial
    BY DEF FullRunHeals
  <2>1. /\ Rows = batch
        /\ \A f \in batch : vector[f] = emb
        /\ QueryEmbedder = emb /\ symDim = DimOf[emb]
        /\ stats = [total |-> Cardinality(batch), embedded |-> count]
    BY <1>1 DEF RunInv, FullRunOwns
  <2>2. count = Cardinality(batch) /\ count \in Nat
    BY <1>1 DEF RunInv, SpaceInv, TypeOK, CountsTheBatch
  <2>3. QED
    BY <2>1, <2>2 DEF Partial
<1>2. QED
  BY RunInvInit, RunStep, <1>1, PTL DEF Spec

(* Strict mode may trust accounting that is not partial (main.rs:1204): there *)
(* is no placeholder left, as long as no run left rows without accounting.    *)
THEOREM StrictIsSoundAlways == Spec => []StrictIsSound
<1>1. RunInv => StrictIsSound
  BY DEF RunInv, OthersAreReported, StrictIsSound, Pending, Unaccounted
<1>2. QED
  BY RunInvInit, RunStep, <1>1, PTL DEF Spec

-----------------------------------------------------------------------------
\* The table of the index has the dimension its embedder needs.
RightDim == symDim \in {NoTable, DimOf[QueryEmbedder]}

(* An incremental run leaves the rows of the files it was not given alone,    *)
(* as long as the table has the dimension of the recorded embedder            *)
(* (analyzer.rs:1253-1310).                                                   *)
THEOREM IncrementalKeeps == Spec => IncrementalKeepsOthers
<1>1. ASSUME RunInv, [Next]_vars, RightDim PROVE KeepsOthers
  <2> SUFFICES ASSUME kind = "incremental", pc # "idle",
                      NEW f \in Files \ targets, vector[f] # NoRow
               PROVE  vector'[f] = vector[f]
    BY DEF KeepsOthers
  <2> USE <1>1 DEF RunInv, SpaceInv, TypeOK, WorkIsGiven
  <2>1. CASE Prepare
    BY <2>1 DEF Prepare, RunEmbedder, Rebuilt, RightDim
  <2>2. ASSUME NEW g \in Files, Purge(g) PROVE vector'[f] = vector[f]
    BY <2>2 DEF Purge
  <2>3. ASSUME NEW part \in SUBSET Files, StoreSymbols(part) PROVE vector'[f] = vector[f]
    BY <2>3 DEF StoreSymbols
  <2>4. CASE EmbedStores
    BY <2>4 DEF EmbedStores
  <2>5. CASE \/ Configure \/ Wipe \/ Parse \/ StoreRefused \/ EmbedFails \/ EmbedSkipped
             \/ RecordMeta \/ Account \/ Finish \/ Interrupt \/ UNCHANGED vars
    BY <2>5 DEF Configure, Wipe, Parse, StoreRefused, EmbedFails, EmbedSkipped, RecordMeta,
       Account, Finish, Interrupt, index, vars
  <2>6. CASE \/ \E s \in BOOLEAN : StartFull(s)
             \/ \E s \in BOOLEAN, T \in SUBSET Files : StartIncremental(s, T)
             \/ \E g \in Files : RemoveFile(g)
    BY <2>6 DEF StartFull, StartIncremental, RemoveFile
  <2>7. QED
    BY <2>1, <2>2, <2>3, <2>4, <2>5, <2>6 DEF Next
<1>2. ASSUME RunInv, [Next]_vars PROVE [RightDim => KeepsOthers]_vars
  BY <1>1, <1>2
<1>3. QED
  BY RunInvInit, RunStep, <1>2, PTL DEF Spec, IncrementalKeepsOthers, RightDim

-----------------------------------------------------------------------------
\* StoredRows.  A set of numbers that is not empty has a least one.
LEMMA LeastNumber ==
  ASSUME NEW T, T \subseteq Nat, T # {}
  PROVE  \E m \in T : \A n \in T : m <= n
<1> DEFINE R == {ss \in Nat \X Nat : ss[1] < ss[2]}
<1>1. IsWellFoundedOn(R, Nat)
  BY NatLessThanWellFounded DEF OpToRel
<1>2. \E m \in T : \A n \in T : ~(<<n, m>> \in R)
  <2> HIDE DEF R
  <2> QED BY <1>1, WFMin
<1>3. PICK m \in T : \A n \in T : ~(<<n, m>> \in R)
  BY <1>2
<1>4. ASSUME NEW n \in T PROVE m <= n
  <2>1. m \in Nat /\ n \in Nat /\ ~(<<n, m>> \in R)
    BY <1>3
  <2>2. ~(n < m)
    BY <2>1
  <2> HIDE DEF R
  <2> QED BY <2>1, <2>2
<1> QED BY <1>4

\* A set of numbers that has 0 and the successor of each of its own has all of them.
LEMMA Counting ==
  ASSUME NEW T, T \subseteq Nat, 0 \in T, \A n \in T : n + 1 \in T
  PROVE  \A n \in Nat : n \in T
<1> SUFFICES ASSUME NEW k \in Nat, k \notin T PROVE FALSE
  OBVIOUS
<1>1. PICK m \in Nat \ T : \A n \in Nat \ T : m <= n
  BY LeastNumber
<1>2. m # 0 /\ m - 1 \in Nat
  BY <1>1
<1>3. m - 1 \in T
  BY <1>1, <1>2
<1> QED BY <1>1, <1>2, <1>3

-----------------------------------------------------------------------------
GivenSymbols == [uid : RowUids, kind : GivenKinds \cup {Newer}, body : Bodies, meta : {Null, "", "{}"}]
SymbolRows == [uid : RowUids, kind : SymbolTexts \cup {Newer}, body : Bodies, meta : {Null, "", "{}"},
               vector : Embeddings \cup {ZeroVector}]
Teams == [uid : TeamUids, owner : Users]
Members == [team : TeamUids, user : Users, role : {"admin", "viewer"}]
EdgeKinds == {"Calls", "Mentions"}

RowsTypeOK ==
    /\ rows \in Seq(SymbolRows) /\ given \in Seq(GivenSymbols)
    /\ Len(rows) = Len(given)
    /\ edgesGiven \in Seq(EdgeKinds)
    /\ edgeRows = [i \in DOMAIN edgesGiven |-> RelationshipText[edgesGiven[i]]]
    /\ embedded \in [RowUids -> Embeddings \cup {Null}]
    /\ teams \in Seq(Teams) /\ members \in Seq(Members)

\* The text a kind was stored as, or that of a variable when the kind was not known.
KindIsKept(i) ==
    IF given[i].kind # Newer THEN rows[i].kind = SymbolText[given[i].kind]
    ELSE rows[i].kind = IF embedded[given[i].uid] = Null THEN Newer ELSE "Variable"

MetaIsKept(i) ==
    \/ rows[i].meta = given[i].meta
    \/ rows[i].meta = Null /\ given[i].meta = ""

VectorIsKept(i) ==
    rows[i].vector = IF embedded[given[i].uid] = Null THEN ZeroVector ELSE embedded[given[i].uid]

\* A row whose uid was stored once is what was stored.
RowIsKept(i) ==
    rows[i].body = given[i].body /\ KindIsKept(i) /\ MetaIsKept(i) /\ VectorIsKept(i)

RowsKept ==
    \A i \in 1..Len(given) :
        /\ rows[i].uid = given[i].uid
        /\ OnlyRow(i) => RowIsKept(i)

\* A team has one row, and who joined has one as well.
TeamsAreDistinct == \A i, j \in 1..Len(teams) : teams[i].uid = teams[j].uid => i = j
JoinedAreMembers == joined = {<<m.team, m.user, m.role>> : m \in Range(members)}

RowsInv == RowsTypeOK /\ RowsKept /\ TeamsAreDistinct /\ JoinedAreMembers

-----------------------------------------------------------------------------
\* Texts.
LEMMA TextsOfKinds ==
  /\ SymbolTexts = SymbolKinds
  /\ \A k \in SymbolKinds : SymbolText[k] = k
  /\ Newer \notin SymbolKinds /\ "Variable" \in SymbolKinds
BY DEF SymbolTexts, SymbolKinds, SymbolText, Newer

LEMMA KindsAreRead ==
  \A t : ParseSymbolKind(t) \in SymbolKinds /\ (t \in SymbolKinds => ParseSymbolKind(t) = t)
         /\ (t \notin SymbolKinds => ParseSymbolKind(t) = "Variable")
BY TextsOfKinds DEF ParseSymbolKind

LEMMA KindsSurviveAlways == KindsSurvive
<1>1. \A k \in SymbolKinds : ParseSymbolKind(SymbolText[k]) = k
  BY TextsOfKinds, KindsAreRead
<1>2. \A k \in DOMAIN RelationshipText : ParseRelationshipKind(RelationshipText[k]) = k
  <2>1. DOMAIN RelationshipText =
            {"Calls", "ContainedBy", "MemberOf", "StepInProcess", "Imports", "References",
             "RationaleFor", "ReplyTo", "SentBy", "ReceivedBy", "HasAttachment",
             "PartOfConversation", "Mentions"}
    BY DEF RelationshipText
  <2>2. /\ RelationshipText.Calls = "CALLS"
        /\ RelationshipText.ContainedBy = "CONTAINED_BY"
        /\ RelationshipText.MemberOf = "MEMBER_OF"
        /\ RelationshipText.StepInProcess = "STEP_IN_PROCESS"
        /\ RelationshipText.Imports = "IMPORTS"
        /\ RelationshipText.References = "REFERENCES"
        /\ RelationshipText.RationaleFor = "RATIONALE_FOR"
        /\ RelationshipText.ReplyTo = "REPLY_TO"
        /\ RelationshipText.SentBy = "SENT_BY"
        /\ RelationshipText.ReceivedBy = "RECEIVED_BY"
        /\ RelationshipText.HasAttachment = "HAS_ATTACHMENT"
        /\ RelationshipText.PartOfConversation = "PART_OF_CONVERSATION"
        /\ RelationshipText.Mentions = "MENTIONS"
    BY DEF RelationshipText
  <2>3. ParseRelationshipKind("CALLS") = "Calls"
    BY DEF ParseRelationshipKind
  <2>4. ParseRelationshipKind("CONTAINED_BY") = "ContainedBy"
    BY DEF ParseRelationshipKind
  <2>5. ParseRelationshipKind("MEMBER_OF") = "MemberOf"
    BY DEF ParseRelationshipKind
  <2>6. ParseRelationshipKind("STEP_IN_PROCESS") = "StepInProcess"
    BY DEF ParseRelationshipKind
  <2>7. ParseRelationshipKind("IMPORTS") = "Imports"
    BY DEF ParseRelationshipKind
  <2>8. ParseRelationshipKind("REFERENCES") = "References"
    BY DEF ParseRelationshipKind
  <2>9. ParseRelationshipKind("RATIONALE_FOR") = "RationaleFor"
    BY DEF ParseRelationshipKind
  <2>10. ParseRelationshipKind("REPLY_TO") = "ReplyTo"
    BY DEF ParseRelationshipKind
  <2>11. ParseRelationshipKind("SENT_BY") = "SentBy"
    BY DEF ParseRelationshipKind
  <2>12. ParseRelationshipKind("RECEIVED_BY") = "ReceivedBy"
    BY DEF ParseRelationshipKind
  <2>13. ParseRelationshipKind("HAS_ATTACHMENT") = "HasAttachment"
    BY DEF ParseRelationshipKind
  <2>14. ParseRelationshipKind("PART_OF_CONVERSATION") = "PartOfConversation"
    BY DEF ParseRelationshipKind
  <2>15. ParseRelationshipKind("MENTIONS") = "Mentions"
    BY DEF ParseRelationshipKind
  <2> QED BY <2>1, <2>2, <2>3, <2>4, <2>5, <2>6, <2>7, <2>8, <2>9, <2>10, <2>11, <2>12, <2>13, <2>14,
             <2>15
<1>3. \A r \in Roles : ParseRole(r) = r
  BY DEF Roles, ParseRole
<1> QED BY <1>1, <1>2, <1>3 DEF KindsSurvive

-----------------------------------------------------------------------------
\* The last row with a uid.
LastRow(u) == SelectLastInSeq(rows, LAMBDA r : r.uid = u)

LEMMA GreatestNumber ==
  ASSUME NEW S, NEW bound \in Nat, \A u \in S : u \in 0..bound, S # {}
  PROVE  \E u \in S : \A v \in S : v <= u
<1> DEFINE T == {k \in Nat : bound - k \in S}
<1>1. ASSUME NEW u \in S PROVE u \in 0..bound /\ bound - u \in T
  <2>1. u \in 0..bound /\ bound - (bound - u) = u /\ bound - u \in Nat
    OBVIOUS
  <2>2. bound - (bound - u) \in S
    BY <2>1
  <2> QED BY <2>1, <2>2
<1>2. T # {} /\ T \subseteq Nat
  BY <1>1
<1>3. PICK t \in T : \A n \in T : t <= n
  <2> HIDE DEF T
  <2> QED BY <1>2, LeastNumber
<1>4. bound - t \in S /\ t \in Nat
  BY <1>3
<1>5. ASSUME NEW v \in S PROVE v <= bound - t
  <2>1. v \in 0..bound /\ t <= bound - v
    BY <1>1, <1>3
  <2> QED BY <1>4, <2>1
<1> QED BY <1>4, <1>5

LEMMA LastRowIs ==
  ASSUME RowsTypeOK, NEW u
  PROVE  /\ LastRow(u) # 0 => LastRow(u) \in 1..Len(rows) /\ rows[LastRow(u)].uid = u
         /\ \A i \in 1..Len(rows) : rows[i].uid = u => LastRow(u) # 0
<1> DEFINE I == {i \in 1..Len(rows) : rows[i].uid = u}
<1>1. LastRow(u) = IF I # {} THEN Max(I) ELSE 0
  BY DEF LastRow, SelectLastInSeq
<1>2. ASSUME I # {} PROVE Max(I) \in I
  <2>1. Len(rows) \in Nat /\ I \subseteq 1..Len(rows)
    BY DEF RowsTypeOK
  <2>2. PICK m \in I : \A n \in I : n <= m
    <3>1. \A i \in I : i \in 0..Len(rows)
      BY <2>1
    <3> HIDE DEF I
    <3> QED BY <1>2, <2>1, <3>1, GreatestNumber
  <2> HIDE DEF I
  <2> QED BY <2>2 DEF Max
<1>3. I = {} \/ Max(I) \in I
  BY <1>2
<1>4. 0 \notin I
  OBVIOUS
<1>5. LastRow(u) # 0 => LastRow(u) \in I
  <2> HIDE DEF I
  <2> QED BY <1>1, <1>3
<1>6. \A i \in I : LastRow(u) # 0
  <2> HIDE DEF I
  <2> QED BY <1>1, <1>3, <1>4
<1> QED BY <1>5, <1>6

LEMMA TeamAtIs ==
  ASSUME RowsTypeOK, NEW u
  PROVE  /\ TeamAt(u) # 0 => TeamAt(u) \in 1..Len(teams) /\ teams[TeamAt(u)].uid = u
         /\ \A i \in 1..Len(teams) : teams[i].uid = u => TeamAt(u) # 0
<1> DEFINE I == {i \in 1..Len(teams) : teams[i].uid = u}
<1>1. TeamAt(u) = IF I # {} THEN Min(I) ELSE 0
  BY DEF TeamAt, SelectInSeq
<1>2. ASSUME I # {} PROVE Min(I) \in I
  <2>1. I \subseteq Nat
    OBVIOUS
  <2>2. PICK m \in I : \A n \in I : m <= n
    BY <1>2, <2>1, LeastNumber
  <2> HIDE DEF I
  <2> QED BY <2>2 DEF Min
<1>3. I = {} \/ Min(I) \in I
  BY <1>2
<1>4. 0 \notin I
  OBVIOUS
<1>5. TeamAt(u) # 0 => TeamAt(u) \in I
  <2> HIDE DEF I
  <2> QED BY <1>1, <1>3
<1>6. \A i \in I : TeamAt(u) # 0
  <2> HIDE DEF I
  <2> QED BY <1>1, <1>3, <1>4
<1> QED BY <1>5, <1>6

-----------------------------------------------------------------------------
\* Steps.
LEMMA RowsInvInit == RowsInit => RowsInv
<1> SUFFICES ASSUME RowsInit PROVE RowsInv
  OBVIOUS
<1>1. RowsTypeOK
  <2>1. edgeRows = [i \in DOMAIN edgesGiven |-> RelationshipText[edgesGiven[i]]]
    BY DEF RowsInit
  <2> QED BY <2>1 DEF RowsInit, RowsTypeOK
<1>2. RowsKept /\ TeamsAreDistinct
  BY DEF RowsInit, RowsKept, TeamsAreDistinct
<1>3. JoinedAreMembers
  BY DEF RowsInit, JoinedAreMembers, Range
<1> QED BY <1>1, <1>2, <1>3 DEF RowsInv

\* A new row of a uid, without a vector.
LEMMA NewRowKept ==
  ASSUME RowsInv, NEW u \in RowUids, NEW r \in SymbolRows, NEW s \in GivenSymbols,
         r.uid = u, s.uid = u, r.body = s.body, r.meta = s.meta, r.vector = ZeroVector,
         r.kind = IF s.kind = Newer THEN Newer ELSE SymbolText[s.kind],
         rows' = Append(rows, r), given' = Append(given, s),
         embedded' = [embedded EXCEPT ![u] = Null],
         UNCHANGED <<edgeRows, indexed, edgesGiven, teamVars>>
  PROVE  RowsInv'
<1> PICK n : n = Len(given)
  OBVIOUS
<1>1. /\ rows \in Seq(SymbolRows) /\ given \in Seq(GivenSymbols) /\ Len(rows) = n /\ n \in Nat
      /\ embedded \in [RowUids -> Embeddings \cup {Null}]
  BY DEF RowsInv, RowsTypeOK
<1>2. /\ rows' \in Seq(SymbolRows) /\ given' \in Seq(GivenSymbols)
      /\ Len(rows') = n + 1 /\ Len(given') = n + 1
      /\ \A i \in 1..n : rows'[i] = rows[i] /\ given'[i] = given[i]
      /\ rows'[n + 1] = r /\ given'[n + 1] = s
  BY <1>1
<1>3. /\ embedded' \in [RowUids -> Embeddings \cup {Null}] /\ embedded'[u] = Null
      /\ \A v \in RowUids : v # u => embedded'[v] = embedded[v]
  BY <1>1
<1>4. RowsTypeOK'
  BY <1>2, <1>3 DEF RowsInv, RowsTypeOK, teamVars
<1>5. TeamsAreDistinct' /\ JoinedAreMembers'
  BY DEF RowsInv, TeamsAreDistinct, JoinedAreMembers, teamVars
<1>6. ASSUME NEW i \in 1..n
      PROVE  /\ rows'[i].uid = given'[i].uid
             /\ OnlyRow(i)' => RowIsKept(i)'
  <2>1. i \in 1..Len(given) /\ i \in DOMAIN given /\ given[i].uid \in RowUids
    <3>1. i \in 1..Len(given) /\ i \in DOMAIN given /\ given[i] \in GivenSymbols
      BY <1>1
    <3> QED BY <3>1 DEF GivenSymbols
  <2>2. rows[i].uid = given[i].uid /\ (OnlyRow(i) => RowIsKept(i))
    BY <2>1 DEF RowsInv, RowsKept
  <2>3. rows'[i] = rows[i] /\ given'[i] = given[i]
    BY <1>2
  <2>4. ASSUME OnlyRow(i)' PROVE RowIsKept(i)'
    <3>1. n + 1 \in DOMAIN given' /\ n + 1 # i
      BY <1>1, <1>2
    <3>2. given'[i].uid # u
      BY <1>2, <2>4, <3>1 DEF OnlyRow
    <3>3. OnlyRow(i)
      <4>1. ASSUME NEW j \in DOMAIN given, given[j].uid = given[i].uid PROVE j = i
        <5>1. j \in 1..n /\ j \in DOMAIN given'
          BY <1>1, <1>2
        <5>2. given'[j].uid = given'[i].uid
          BY <1>2, <2>3, <4>1, <5>1
        <5> QED BY <2>4, <5>1, <5>2 DEF OnlyRow
      <4> QED BY <4>1 DEF OnlyRow
    <3>4. embedded'[given'[i].uid] = embedded[given[i].uid]
      BY <1>3, <2>1, <2>3, <3>2
    <3> QED BY <2>2, <2>3, <3>3, <3>4 DEF RowIsKept, KindIsKept, MetaIsKept, VectorIsKept
  <2> QED BY <2>2, <2>3, <2>4
<1>7. rows'[n + 1].uid = given'[n + 1].uid /\ RowIsKept(n + 1)'
  <2>1. PICK e \in Nat : e = n + 1
    BY <1>1
  <2>2. rows'[e] = r /\ given'[e] = s /\ embedded'[s.uid] = Null
    BY <1>2, <1>3, <2>1
  <2>3. KindIsKept(e)'
    BY <2>2 DEF KindIsKept
  <2>4. MetaIsKept(e)' /\ VectorIsKept(e)' /\ rows'[e].body = given'[e].body
    BY <2>2 DEF MetaIsKept, VectorIsKept
  <2>5. RowIsKept(e)'
    BY <2>3, <2>4 DEF RowIsKept
  <2> QED BY <1>2, <2>1, <2>5
<1>8. RowsKept'
  <2> SUFFICES ASSUME NEW i \in 1..Len(given')
               PROVE  rows'[i].uid = given'[i].uid /\ (OnlyRow(i)' => RowIsKept(i)')
    BY DEF RowsKept
  <2>1. i \in 1..n \/ i = n + 1
    BY <1>1, <1>2
  <2> QED BY <1>6, <1>7, <2>1
<1> QED BY <1>4, <1>5, <1>8 DEF RowsInv

LEMMA StoreSymbolStep == RowsInv /\ StoreSymbol => RowsInv'
<1> SUFFICES ASSUME RowsInv, StoreSymbol PROVE RowsInv'
  OBVIOUS
<1>1. PICK u \in RowUids, k \in GivenKinds, b \in Bodies, m \in {Null, "", "{}"} :
        LET s == [uid |-> u, kind |-> k, body |-> b, meta |-> m]
        IN  /\ rows' = Append(rows, SymbolRow(s))
            /\ given' = Append(given, s)
            /\ embedded' = [embedded EXCEPT ![u] = Null]
  BY DEF StoreSymbol
<1> DEFINE s == [uid |-> u, kind |-> k, body |-> b, meta |-> m]
<1>2. k \in SymbolKinds /\ k # Newer /\ SymbolText[k] = k
  BY RowsAssumption, TextsOfKinds
<1>3. s \in GivenSymbols /\ SymbolRow(s) \in SymbolRows
  BY <1>2, TextsOfKinds DEF GivenSymbols, SymbolRows, SymbolRow
<1>4. /\ s.uid = u /\ s.kind = k /\ SymbolRow(s).uid = u /\ SymbolRow(s).body = s.body
      /\ SymbolRow(s).meta = s.meta /\ SymbolRow(s).vector = ZeroVector
      /\ SymbolRow(s).kind = SymbolText[s.kind]
  BY DEF SymbolRow
<1>5. UNCHANGED <<edgeRows, indexed, edgesGiven, teamVars>>
  BY DEF StoreSymbol
<1>6. /\ rows' = Append(rows, SymbolRow(s)) /\ given' = Append(given, s)
      /\ embedded' = [embedded EXCEPT ![u] = Null]
  BY <1>1
<1> HIDE DEF s
<1> QED BY <1>2, <1>3, <1>4, <1>5, <1>6, NewRowKept

LEMMA StoreNewerStep == RowsInv /\ StoreNewer => RowsInv'
<1> SUFFICES ASSUME RowsInv, StoreNewer PROVE RowsInv'
  OBVIOUS
<1>1. PICK u \in RowUids, b \in Bodies :
        /\ rows' = Append(rows, [uid |-> u, kind |-> Newer, body |-> b, meta |-> Null,
                                 vector |-> ZeroVector])
        /\ given' = Append(given, [uid |-> u, kind |-> Newer, body |-> b, meta |-> Null])
        /\ embedded' = [embedded EXCEPT ![u] = Null]
  BY DEF StoreNewer
<1> DEFINE s == [uid |-> u, kind |-> Newer, body |-> b, meta |-> Null]
           r == [uid |-> u, kind |-> Newer, body |-> b, meta |-> Null, vector |-> ZeroVector]
<1>2. s \in GivenSymbols /\ r \in SymbolRows
  BY DEF GivenSymbols, SymbolRows
<1>3. /\ s.uid = u /\ s.kind = Newer /\ r.uid = u /\ r.body = s.body /\ r.meta = s.meta
      /\ r.vector = ZeroVector /\ r.kind = Newer
  OBVIOUS
<1>4. UNCHANGED <<edgeRows, indexed, edgesGiven, teamVars>>
  BY DEF StoreNewer
<1>5. rows' = Append(rows, r) /\ given' = Append(given, s) /\ embedded' = [embedded EXCEPT ![u] = Null]
  BY <1>1
<1> HIDE DEF s, r
<1> QED BY <1>2, <1>3, <1>4, <1>5, NewRowKept

LEMMA StoreRelationshipStep == RowsInv /\ StoreRelationship => RowsInv'
<1> SUFFICES ASSUME RowsInv, StoreRelationship PROVE RowsInv'
  OBVIOUS
<1>1. PICK k \in EdgeKinds :
        edgeRows' = Append(edgeRows, RelationshipText[k]) /\ edgesGiven' = Append(edgesGiven, k)
  BY DEF StoreRelationship, EdgeKinds
<1>2. UNCHANGED <<rows, indexed, given, embedded, teamVars>>
  BY DEF StoreRelationship
<1>3. edgesGiven \in Seq(EdgeKinds) /\ edgeRows = [i \in DOMAIN edgesGiven |-> RelationshipText[edgesGiven[i]]]
  BY DEF RowsInv, RowsTypeOK
<1>4. edgesGiven' \in Seq(EdgeKinds)
  BY <1>1, <1>3
<1>5. edgeRows' = [i \in DOMAIN edgesGiven' |-> RelationshipText[edgesGiven'[i]]]
  <2> PICK n, f : n = Len(edgesGiven) /\ f = [i \in 1..n |-> RelationshipText[edgesGiven[i]]]
    OBVIOUS
  <2>1. /\ n \in Nat /\ DOMAIN edgesGiven = 1..n /\ DOMAIN edgesGiven' = 1..(n + 1)
        /\ \A i \in 1..n : edgesGiven'[i] = edgesGiven[i]
        /\ edgesGiven'[n + 1] = k
    BY <1>1, <1>3
  <2>2. edgeRows = f /\ \A i \in 1..n : f[i] = RelationshipText[edgesGiven[i]]
    BY <1>3, <2>1
  <2>3. edgeRows \in Seq({f[i] : i \in 1..n}) /\ Len(edgeRows) = n
    BY <2>1, <2>2
  <2>4. /\ DOMAIN edgeRows' = 1..(n + 1) /\ edgeRows' = [i \in 1..(n + 1) |-> edgeRows'[i]]
        /\ \A i \in 1..n : edgeRows'[i] = f[i]
        /\ edgeRows'[n + 1] = RelationshipText[k]
    BY <1>1, <2>1, <2>2, <2>3
  <2>5. ASSUME NEW i \in 1..(n + 1) PROVE edgeRows'[i] = RelationshipText[edgesGiven'[i]]
    <3>1. CASE i \in 1..n
      <4>1. edgeRows'[i] = f[i] /\ f[i] = RelationshipText[edgesGiven[i]] /\ edgesGiven'[i] = edgesGiven[i]
        BY <2>1, <2>2, <2>4, <3>1
      <4> QED BY <4>1
    <3>2. CASE i = n + 1
      <4>1. edgeRows'[n + 1] = RelationshipText[edgesGiven'[n + 1]]
        BY <2>1, <2>4
      <4> QED BY <3>2, <4>1, Zenon
    <3> QED BY <2>1, <3>1, <3>2
  <2> QED BY <2>1, <2>4, <2>5
<1>6. RowsTypeOK'
  BY <1>2, <1>4, <1>5 DEF RowsInv, RowsTypeOK, teamVars
<1>7. RowsKept' /\ TeamsAreDistinct' /\ JoinedAreMembers'
  BY <1>2 DEF RowsInv, RowsKept, TeamsAreDistinct, JoinedAreMembers, teamVars, OnlyRow, RowIsKept,
              KindIsKept, MetaIsKept, VectorIsKept
<1> QED BY <1>6, <1>7 DEF RowsInv

\* The row a uid gets with its vector, from what was read back.
RowAnew(u, v) ==
    [uid |-> u, kind |-> SymbolText[ReadSymbol(rows[LastRow(u)]).kind],
     body |-> ReadSymbol(rows[LastRow(u)]).body, meta |-> ReadSymbol(rows[LastRow(u)]).meta,
     vector |-> v]

LEMMA RowAnewIs ==
  ASSUME RowsTypeOK, NEW u \in RowUids, NEW v \in Embeddings, LastRow(u) # 0
  PROVE  /\ RowAnew(u, v) \in SymbolRows
         /\ RowAnew(u, v).uid = u /\ RowAnew(u, v).vector = v
         /\ RowAnew(u, v).kind = ParseSymbolKind(rows[LastRow(u)].kind)
         /\ RowAnew(u, v).body = rows[LastRow(u)].body
         /\ RowAnew(u, v).meta = IF rows[LastRow(u)].meta = "" THEN Null ELSE rows[LastRow(u)].meta
<1>1. PICK r : r = rows[LastRow(u)]
  OBVIOUS
<1>2. r \in SymbolRows
  BY <1>1, LastRowIs DEF RowsTypeOK
<1>3. PICK k : k = ParseSymbolKind(r.kind)
  OBVIOUS
<1>4. k \in SymbolTexts /\ SymbolText[k] = k
  BY <1>3, KindsAreRead, TextsOfKinds
<1>5. PICK m : m = IF r.meta = "" THEN Null ELSE r.meta
  OBVIOUS
<1>6. r.body \in Bodies /\ m \in {Null, "", "{}"}
  BY <1>2, <1>5 DEF SymbolRows
<1>7. RowAnew(u, v) = [uid |-> u, kind |-> k, body |-> r.body, meta |-> m, vector |-> v]
  BY <1>1, <1>3, <1>4, <1>5 DEF RowAnew, ReadSymbol
<1>8. RowAnew(u, v) \in SymbolRows
  <2>1. k \in SymbolTexts \cup {Newer} /\ v \in Embeddings \cup {ZeroVector}
    BY <1>4
  <2>2. PICK K, M, V : K = SymbolTexts \cup {Newer} /\ M = {Null, "", "{}"} /\ V = Embeddings \cup {ZeroVector}
    OBVIOUS
  <2>3. SymbolRows = [uid : RowUids, kind : K, body : Bodies, meta : M, vector : V]
    BY <2>2 DEF SymbolRows
  <2>4. k \in K /\ m \in M /\ v \in V /\ r.body \in Bodies
    BY <1>6, <2>1, <2>2
  <2> QED BY ONLY <1>7, <2>3, <2>4, u \in RowUids
<1>9. /\ RowAnew(u, v).uid = u /\ RowAnew(u, v).vector = v /\ RowAnew(u, v).kind = k
      /\ RowAnew(u, v).body = r.body /\ RowAnew(u, v).meta = m
  BY <1>7
<1> QED BY <1>1, <1>3, <1>5, <1>8, <1>9

\* A row that is written anew for the last time its uid was stored.
LEMMA RowAnewKept ==
  ASSUME RowsInv, NEW i \in 1..Len(given), OnlyRow(i), NEW v \in Embeddings,
         LastRow(given[i].uid) # 0,
         rows'[i] = RowAnew(given[i].uid, v), given'[i] = given[i],
         embedded'[given[i].uid] = v
  PROVE  RowIsKept(i)'
<1>1. PICK u : u = given[i].uid
  OBVIOUS
<1>2. RowsTypeOK /\ given[i] \in GivenSymbols /\ u \in RowUids
  <2>1. RowsTypeOK /\ given[i] \in GivenSymbols
    BY DEF RowsInv, RowsTypeOK
  <2> QED BY <1>1, <2>1 DEF GivenSymbols
<1>3. LastRow(u) \in 1..Len(given) /\ rows[LastRow(u)].uid = u
  BY <1>1, <1>2, LastRowIs DEF RowsTypeOK
<1>4. given[LastRow(u)].uid = u
  BY <1>3 DEF RowsInv, RowsKept
<1>5. LastRow(u) = i
  BY <1>1, <1>2, <1>3, <1>4 DEF OnlyRow, RowsTypeOK
<1>6. RowIsKept(i)
  BY DEF RowsInv, RowsKept
<1>7. /\ rows'[i].vector = v
      /\ rows'[i].kind = ParseSymbolKind(rows[i].kind)
      /\ rows'[i].body = rows[i].body
      /\ rows'[i].meta = IF rows[i].meta = "" THEN Null ELSE rows[i].meta
  <2>1. LastRow(u) # 0
    BY <1>1
  <2>2. /\ RowAnew(u, v).uid = u /\ RowAnew(u, v).vector = v
        /\ RowAnew(u, v).kind = ParseSymbolKind(rows[i].kind)
        /\ RowAnew(u, v).body = rows[i].body
        /\ RowAnew(u, v).meta = IF rows[i].meta = "" THEN Null ELSE rows[i].meta
    BY <1>2, <1>5, <2>1, RowAnewIs
  <2>3. rows'[i] = RowAnew(u, v)
    BY <1>1
  <2> QED BY <2>2, <2>3
<1>8. v # Null /\ v # ZeroVector /\ embedded'[given'[i].uid] = v
  BY RowsAssumption
<1>9. KindIsKept(i)'
  <2>1. CASE given[i].kind = Newer
    <3>1. rows[i].kind = Newer \/ rows[i].kind = "Variable"
      BY <1>6, <2>1 DEF RowIsKept, KindIsKept
    <3>2. rows'[i].kind = "Variable"
      BY <1>7, <3>1, KindsAreRead, TextsOfKinds
    <3> QED BY <1>8, <2>1, <3>2 DEF KindIsKept
  <2>2. CASE given[i].kind # Newer
    <3>1. given[i].kind \in SymbolKinds
      BY <1>2, <2>2, RowsAssumption DEF GivenSymbols
    <3>2. rows[i].kind = given[i].kind
      BY <1>6, <2>2, <3>1, TextsOfKinds DEF RowIsKept, KindIsKept
    <3>3. rows'[i].kind = given[i].kind
      BY <1>7, <3>1, <3>2, KindsAreRead
    <3> QED BY <2>2, <3>1, <3>3, TextsOfKinds DEF KindIsKept
  <2> QED BY <2>1, <2>2
<1>10. MetaIsKept(i)'
  BY <1>6, <1>7 DEF RowIsKept, MetaIsKept
<1>11. VectorIsKept(i)'
  BY <1>7, <1>8 DEF VectorIsKept
<1> QED BY <1>6, <1>7, <1>9, <1>10, <1>11 DEF RowIsKept

LEMMA StoreEmbeddingsStep == RowsInv /\ StoreEmbeddings => RowsInv'
<1> SUFFICES ASSUME RowsInv, StoreEmbeddings PROVE RowsInv'
  OBVIOUS
<1>1. PICK ids \in (SUBSET RowUids) \ {{}}, v \in Embeddings :
        /\ rows' = [i \in DOMAIN rows |->
                      IF rows[i].uid \in {u \in ids : LastRow(u) # 0} THEN RowAnew(rows[i].uid, v)
                      ELSE rows[i]]
        /\ embedded' = [u \in RowUids |-> IF u \in {w \in ids : LastRow(w) # 0} THEN v ELSE embedded[u]]
  BY Zenon DEF StoreEmbeddings, RowAnew, LastRow
<1> PICK known : known = {u \in ids : LastRow(u) # 0}
  OBVIOUS
<1>2. UNCHANGED <<edgeRows, given, edgesGiven, teamVars>>
  BY DEF StoreEmbeddings
<1>3. known \subseteq RowUids /\ \A u \in known : LastRow(u) # 0
  BY <1>1
<1>4. rows' = [i \in DOMAIN rows |-> IF rows[i].uid \in known THEN RowAnew(rows[i].uid, v) ELSE rows[i]]
  BY <1>1
<1>5. embedded' = [u \in RowUids |-> IF u \in known THEN v ELSE embedded[u]]
  BY <1>1
<1>6. /\ RowsTypeOK /\ rows \in Seq(SymbolRows) /\ Len(rows) \in Nat /\ Len(rows) = Len(given)
      /\ given \in Seq(GivenSymbols) /\ embedded \in [RowUids -> Embeddings \cup {Null}]
  BY DEF RowsInv, RowsTypeOK
<1>7. ASSUME NEW i \in 1..Len(rows)
      PROVE  IF rows[i].uid \in known THEN RowAnew(rows[i].uid, v) \in SymbolRows ELSE rows[i] \in SymbolRows
  <2>1. rows[i] \in SymbolRows
    BY <1>6
  <2>2. CASE rows[i].uid \in known
    <3>1. PICK u \in RowUids : u = rows[i].uid /\ LastRow(u) # 0
      BY <1>3, <2>2
    <3>2. RowAnew(u, v) \in SymbolRows
      BY <1>6, <3>1, RowAnewIs
    <3> QED BY <2>2, <3>1, <3>2
  <2> QED BY <2>1, <2>2
<1>8. rows' \in Seq(SymbolRows) /\ Len(rows') = Len(rows)
  <2>1. rows' \in [1..Len(rows) -> SymbolRows]
    BY <1>4, <1>6, <1>7
  <2> QED BY <1>6, <2>1
<1>9. embedded' \in [RowUids -> Embeddings \cup {Null}]
  BY <1>5, <1>6
<1>10. RowsTypeOK'
  BY <1>2, <1>6, <1>8, <1>9 DEF RowsInv, RowsTypeOK, teamVars
<1>11. TeamsAreDistinct' /\ JoinedAreMembers'
  BY <1>2 DEF RowsInv, TeamsAreDistinct, JoinedAreMembers, teamVars
<1>12. ASSUME NEW i \in 1..Len(given)
       PROVE  rows'[i].uid = given[i].uid /\ (OnlyRow(i) => RowIsKept(i)')
  <2>1. i \in 1..Len(rows) /\ i \in DOMAIN rows /\ given[i] \in GivenSymbols
    BY <1>6
  <2>2. rows[i].uid = given[i].uid /\ given[i].uid \in RowUids
    BY <2>1 DEF RowsInv, RowsKept, GivenSymbols
  <2>3. OnlyRow(i) => RowIsKept(i)
    BY DEF RowsInv, RowsKept
  <2>4. given'[i] = given[i]
    BY <1>2
  <2>5. CASE given[i].uid \in known
    <3>1. rows'[i] = RowAnew(given[i].uid, v)
      BY <1>4, <2>1, <2>2, <2>5
    <3>2. embedded'[given[i].uid] = v
      BY <1>5, <2>2, <2>5
    <3>3. LastRow(given[i].uid) # 0
      BY <1>3, <2>5
    <3>4. rows'[i].uid = given[i].uid
      <4>1. PICK u \in RowUids : u = given[i].uid /\ LastRow(u) # 0
        BY <2>2, <3>3
      <4>2. RowAnew(u, v).uid = u
        BY <1>6, <4>1, RowAnewIs
      <4> QED BY <3>1, <4>1, <4>2
    <3> QED BY <2>4, <3>1, <3>2, <3>3, <3>4, RowAnewKept
  <2>6. CASE given[i].uid \notin known
    <3>1. rows'[i] = rows[i] /\ embedded'[given'[i].uid] = embedded[given[i].uid]
      BY <1>4, <1>5, <2>1, <2>2, <2>4, <2>6
    <3> QED BY <2>2, <2>3, <2>4, <3>1 DEF RowIsKept, KindIsKept, MetaIsKept, VectorIsKept
  <2> QED BY <2>5, <2>6
<1>13. RowsKept'
  <2>1. \A i : OnlyRow(i)' => OnlyRow(i)
    BY <1>2 DEF OnlyRow
  <2> QED BY <1>2, <1>12, <2>1 DEF RowsKept
<1> QED BY <1>10, <1>11, <1>13 DEF RowsInv

LEMMA CreateTeamStep == RowsInv /\ CreateTeam => RowsInv'
<1> SUFFICES ASSUME RowsInv, CreateTeam PROVE RowsInv'
  OBVIOUS
<1>1. PICK t \in TeamUids, u \in Users :
        /\ \A x \in Range(teams) : x.uid # t
        /\ teams' = Append(teams, [uid |-> t, owner |-> u])
  BY DEF CreateTeam
<1>2. UNCHANGED <<codeVars, members, joined>>
  BY DEF CreateTeam
<1>3. teams \in Seq(Teams) /\ Len(teams) \in Nat
  BY DEF RowsInv, RowsTypeOK
<1>4. teams' \in Seq(Teams)
  BY <1>1, <1>3 DEF Teams
<1>5. RowsTypeOK'
  BY <1>2, <1>4 DEF RowsInv, RowsTypeOK, codeVars
<1>6. RowsKept' /\ JoinedAreMembers'
  BY <1>2 DEF RowsInv, RowsKept, JoinedAreMembers, codeVars, OnlyRow, RowIsKept,
              KindIsKept, MetaIsKept, VectorIsKept
<1>7. TeamsAreDistinct'
  <2>1. \A i \in 1..Len(teams) : teams[i].uid # t
    BY <1>1, <1>3 DEF Range
  <2>2. TeamsAreDistinct
    BY DEF RowsInv
  <2>3. /\ Len(teams') = Len(teams) + 1
        /\ \A i \in 1..Len(teams) : teams'[i] = teams[i]
        /\ teams'[Len(teams) + 1].uid = t
    BY <1>1, <1>3
  <2>4. ASSUME NEW i \in 1..Len(teams'), NEW j \in 1..Len(teams'), teams'[i].uid = teams'[j].uid
        PROVE  i = j
    <3>1. i \in 1..Len(teams) \/ i = Len(teams) + 1
      BY <1>3, <2>3
    <3>2. j \in 1..Len(teams) \/ j = Len(teams) + 1
      BY <1>3, <2>3
    <3> QED BY <2>1, <2>2, <2>3, <2>4, <3>1, <3>2 DEF TeamsAreDistinct
  <2> QED BY <2>4 DEF TeamsAreDistinct
<1> QED BY <1>5, <1>6, <1>7 DEF RowsInv

LEMMA AddMemberStep == RowsInv /\ AddMember => RowsInv'
<1> SUFFICES ASSUME RowsInv, AddMember PROVE RowsInv'
  OBVIOUS
<1>1. PICK t \in TeamUids, u \in Users, r \in {"admin", "viewer"} :
        /\ members' = Append(members, [team |-> t, user |-> u, role |-> r])
        /\ joined' = joined \cup {<<t, u, r>>}
  BY DEF AddMember
<1>2. UNCHANGED <<codeVars, teams>>
  BY DEF AddMember
<1> PICK m : m = [team |-> t, user |-> u, role |-> r]
  OBVIOUS
<1>3. members \in Seq(Members) /\ Len(members) \in Nat /\ m \in Members
  BY DEF RowsInv, RowsTypeOK, Members
<1>4. members' \in Seq(Members) /\ Range(members') = Range(members) \cup {m}
  <2>1. members' = Append(members, m)
    BY <1>1
  <2>2. /\ DOMAIN members' = 1..(Len(members) + 1) /\ members' \in Seq(Members)
        /\ DOMAIN members = 1..Len(members)
        /\ \A i \in 1..Len(members) : members'[i] = members[i]
        /\ members'[Len(members) + 1] = m
    BY <1>3, <2>1
  <2>3. 1..(Len(members) + 1) = 1..Len(members) \cup {Len(members) + 1}
    BY <1>3
  <2> QED BY <2>2, <2>3 DEF Range
<1>5. RowsTypeOK'
  BY <1>2, <1>4 DEF RowsInv, RowsTypeOK, codeVars
<1>6. RowsKept' /\ TeamsAreDistinct'
  BY <1>2 DEF RowsInv, RowsKept, TeamsAreDistinct, codeVars, OnlyRow, RowIsKept,
              KindIsKept, MetaIsKept, VectorIsKept
<1>7. JoinedAreMembers'
  <2>1. joined = {<<x.team, x.user, x.role>> : x \in Range(members)}
    BY DEF RowsInv, JoinedAreMembers
  <2>2. <<m.team, m.user, m.role>> = <<t, u, r>>
    OBVIOUS
  <2> QED BY <1>1, <1>4, <2>1, <2>2 DEF JoinedAreMembers
<1> QED BY <1>5, <1>6, <1>7 DEF RowsInv

LEMMA RowsInvStutter == RowsInv /\ UNCHANGED rowVars => RowsInv'
<1> SUFFICES ASSUME RowsInv, UNCHANGED rowVars PROVE RowsInv'
  OBVIOUS
<1>1. RowsTypeOK'
  BY DEF RowsInv, RowsTypeOK, rowVars
<1>2. RowsKept'
  BY DEF RowsInv, RowsKept, rowVars, OnlyRow, RowIsKept, KindIsKept, MetaIsKept, VectorIsKept
<1>3. TeamsAreDistinct' /\ JoinedAreMembers'
  BY DEF RowsInv, TeamsAreDistinct, JoinedAreMembers, rowVars
<1> QED BY <1>1, <1>2, <1>3 DEF RowsInv

(* The tables and what they were given go together, row by row: the argument  *)
(* for RowsSurviveAlways.                                                     *)
THEOREM RowsInvAlways == RowsSpec => []RowsInv
<1>1. RowsInv /\ [RowsNext]_rowVars => RowsInv'
  BY StoreSymbolStep, StoreNewerStep, StoreRelationshipStep, StoreEmbeddingsStep, CreateTeamStep,
     AddMemberStep, RowsInvStutter DEF RowsNext
<1> QED BY <1>1, RowsInvInit, PTL DEF RowsSpec

-----------------------------------------------------------------------------
\* What a function over 0..n that is given step by step is.
GoesBySteps(f, Q, n, b, G) ==
    f \in [0..n -> Q] /\ f[0] = b /\ \A i \in 1..n : f[i] = G[<<f[i - 1], i>>]
StepMaps(Q, n) == [Q \X (1..n) -> Q]

LEMMA StepsExist ==
  ASSUME NEW Q, NEW n \in Nat, NEW b \in Q, NEW G \in StepMaps(Q, n)
  PROVE  \E f : GoesBySteps(f, Q, n, b, G)
<1> DEFINE good(f, k) == f \in [0..k -> Q] /\ f[0] = b /\ \A i \in 1..k : f[i] = G[<<f[i - 1], i>>]
           T == {k \in Nat : k <= n => \E f : good(f, k)}
<1>1. 0 \in T
  <2> DEFINE f == [i \in 0..0 |-> b]
  <2>1. f \in [0..0 -> Q] /\ f[0] = b /\ 1..0 = {}
    OBVIOUS
  <2> QED BY <2>1
<1>2. ASSUME NEW k \in T PROVE k + 1 \in T
  <2> SUFFICES ASSUME k + 1 <= n PROVE \E f : good(f, k + 1)
    OBVIOUS
  <2>1. k \in Nat /\ k + 1 \in 1..n /\ k \in 0..k
    OBVIOUS
  <2>2. PICK g : good(g, k)
    OBVIOUS
  <2> PICK q : q = G[<<g[k], k + 1>>]
    OBVIOUS
  <2>3. q \in Q
    BY <2>1, <2>2 DEF StepMaps
  <2> DEFINE h == [i \in 0..(k + 1) |-> IF i <= k THEN g[i] ELSE q]
  <2>4. /\ h \in [0..(k + 1) -> Q]
        /\ \A i \in 0..k : h[i] = g[i]
        /\ h[k + 1] = q
    BY <2>1, <2>2, <2>3
  <2> HIDE DEF h
  <2>5. ASSUME NEW i \in 1..(k + 1) PROVE h[i] = G[<<h[i - 1], i>>]
    <3>1. CASE i <= k
      <4>1. i \in 1..k /\ i \in 0..k /\ i - 1 \in 0..k
        BY <2>1, <3>1
      <4>2. h[i] = g[i] /\ h[i - 1] = g[i - 1] /\ g[i] = G[<<g[i - 1], i>>]
        BY <2>2, <2>4, <4>1
      <4> QED BY <4>2
    <3>2. CASE ~(i <= k)
      <4>1. i = k + 1 /\ i - 1 = k
        BY <2>1, <3>2
      <4>2. h[k] = g[k]
        BY <2>1, <2>4
      <4> QED BY <2>4, <4>1, <4>2
    <3> QED BY <3>1, <3>2
  <2>6. h[0] = b
    BY <2>1, <2>2, <2>4
  <2>7. good(h, k + 1)
    BY <2>4, <2>5, <2>6
  <2> HIDE DEF good
  <2> QED BY <2>7
<1>3. \A k \in Nat : k \in T
  <2>1. T \subseteq Nat
    OBVIOUS
  <2> HIDE DEF T
  <2> QED BY <1>1, <1>2, <2>1, Counting
<1>4. PICK f : good(f, n)
  <2>1. n \in T
    BY <1>3
  <2> HIDE DEF good
  <2> QED BY <2>1
<1> QED BY <1>4 DEF GoesBySteps

\* No two teams of a list have the same uid.
Distinct(s) == \A i, j \in 1..Len(s) : s[i].uid = s[j].uid => i = j
Uids(s) == {t.uid : t \in Range(s)}

LEMMA ListWithOneMore ==
  ASSUME NEW s \in Seq(Teams), Distinct(s), NEW t \in Teams, t.uid \notin Uids(s)
  PROVE  /\ Append(s, t) \in Seq(Teams) /\ Distinct(Append(s, t))
         /\ Uids(Append(s, t)) = Uids(s) \cup {t.uid}
<1> PICK n, z : n = Len(s) /\ z = Append(s, t)
  OBVIOUS
<1>1. /\ n \in Nat /\ z \in Seq(Teams) /\ Len(z) = n + 1 /\ DOMAIN z = 1..(n + 1) /\ DOMAIN s = 1..n
      /\ \A i \in 1..n : z[i] = s[i]
      /\ z[n + 1] = t
  OBVIOUS
<1>2. \A i \in 1..n : s[i].uid # t.uid
  BY <1>1 DEF Uids, Range
<1>3. ASSUME NEW i \in 1..(n + 1), NEW j \in 1..(n + 1), z[i].uid = z[j].uid PROVE i = j
  <2>1. i \in 1..n \/ i = n + 1
    BY <1>1
  <2>2. j \in 1..n \/ j = n + 1
    BY <1>1
  <2> QED BY <1>1, <1>2, <1>3, <2>1, <2>2 DEF Distinct
<1>4. Range(z) = Range(s) \cup {t}
  <2>1. 1..(n + 1) = 1..n \cup {n + 1}
    BY <1>1
  <2> QED BY <1>1, <2>1 DEF Range
<1>5. Uids(z) = Uids(s) \cup {t.uid}
  BY <1>4 DEF Uids
<1> QED BY <1>1, <1>3, <1>5 DEF Distinct

-----------------------------------------------------------------------------
\* The teams a user owns.
OwnedAre(f, u) ==
    f = [i \in 0..Len(teams) |->
            IF i = 0 THEN <<>>
            ELSE IF teams[i].owner = u THEN Append(f[i - 1], teams[i]) ELSE f[i - 1]]

LEMMA OwnedExist ==
  ASSUME RowsTypeOK, NEW u
  PROVE  \E f : OwnedAre(f, u)
<1>1. teams \in Seq(Teams) /\ Len(teams) \in Nat
  BY DEF RowsTypeOK
<1> DEFINE Q == Seq(Teams)
           G == [x \in Q \X (1..Len(teams)) |->
                    IF teams[x[2]].owner = u THEN Append(x[1], teams[x[2]]) ELSE x[1]]
<1>2. G \in StepMaps(Q, Len(teams))
  <2>1. ASSUME NEW x \in Q \X (1..Len(teams))
        PROVE  (IF teams[x[2]].owner = u THEN Append(x[1], teams[x[2]]) ELSE x[1]) \in Q
    BY <1>1
  <2> QED BY <2>1 DEF StepMaps
<1>3. <<>> \in Q
  OBVIOUS
<1>4. PICK f : GoesBySteps(f, Q, Len(teams), <<>>, G)
  <2> HIDE DEF Q, G
  <2> QED BY <1>1, <1>2, <1>3, StepsExist
<1>5. ASSUME NEW i \in 1..Len(teams)
      PROVE  f[i] = IF teams[i].owner = u THEN Append(f[i - 1], teams[i]) ELSE f[i - 1]
  <2>1. i - 1 \in 0..Len(teams) /\ f[i - 1] \in Q
    <3> HIDE DEF Q, G
    <3>1. i - 1 \in 0..Len(teams)
      BY <1>1
    <3>2. f \in [0..Len(teams) -> Q]
      BY <1>4 DEF GoesBySteps
    <3> QED BY <3>1, <3>2
  <2>2. <<f[i - 1], i>> \in Q \X (1..Len(teams)) /\ <<f[i - 1], i>>[1] = f[i - 1] /\ <<f[i - 1], i>>[2] = i
    BY <2>1
  <2>3. G[<<f[i - 1], i>>] = IF teams[i].owner = u THEN Append(f[i - 1], teams[i]) ELSE f[i - 1]
    <3> HIDE DEF Q
    <3> QED BY <2>2
  <2> QED
    <3> HIDE DEF Q, G
    <3> QED BY <1>4, <2>3 DEF GoesBySteps
<1>6. ASSUME NEW i \in 0..Len(teams)
      PROVE  f[i] = IF i = 0 THEN <<>>
                    ELSE IF teams[i].owner = u THEN Append(f[i - 1], teams[i]) ELSE f[i - 1]
  <2>1. i = 0 \/ i \in 1..Len(teams)
    BY <1>1
  <2>2. f[0] = <<>>
    BY <1>4 DEF GoesBySteps
  <2> QED BY <1>5, <2>1, <2>2
<1>7. f = [i \in 0..Len(teams) |-> f[i]]
  <2> HIDE DEF Q, G
  <2> QED BY <1>4 DEF GoesBySteps
<1> QED BY <1>6, <1>7 DEF OwnedAre

LEMMA OwnedList ==
  ASSUME RowsInv, NEW u, NEW f, OwnedAre(f, u)
  PROVE  /\ f[Len(teams)] \in Seq(Teams) /\ Distinct(f[Len(teams)])
         /\ Range(f[Len(teams)]) \subseteq Range(teams)
         /\ Uids(f[Len(teams)]) = {t.uid : t \in {x \in Range(teams) : x.owner = u}}
<1>1. teams \in Seq(Teams) /\ Len(teams) \in Nat /\ TeamsAreDistinct
  BY DEF RowsInv, RowsTypeOK
<1> DEFINE T == {k \in Nat : k <= Len(teams) =>
                    /\ f[k] \in Seq(Teams) /\ Distinct(f[k])
                    /\ Range(f[k]) \subseteq Range(teams)
                    /\ Uids(f[k]) = {teams[i].uid : i \in {j \in 1..k : teams[j].owner = u}}}
<1>2. 0 \in T
  <2>1. f[0] = <<>>
    BY <1>1 DEF OwnedAre
  <2>2. Distinct(<<>>) /\ Uids(<<>>) = {} /\ Range(<<>>) = {} /\ 1..0 = {}
    BY DEF Distinct, Uids, Range
  <2>3. {teams[i].uid : i \in {j \in 1..0 : teams[j].owner = u}} = {}
    OBVIOUS
  <2>4. /\ f[0] \in Seq(Teams) /\ Distinct(f[0])
        /\ Range(f[0]) \subseteq Range(teams)
        /\ Uids(f[0]) = {teams[i].uid : i \in {j \in 1..0 : teams[j].owner = u}}
    BY <2>1, <2>2, <2>3
  <2> QED BY <2>4
<1>3. ASSUME NEW k \in T PROVE k + 1 \in T
  <2> SUFFICES ASSUME k + 1 <= Len(teams)
               PROVE  /\ f[k + 1] \in Seq(Teams) /\ Distinct(f[k + 1])
                      /\ Range(f[k + 1]) \subseteq Range(teams)
                      /\ Uids(f[k + 1]) = {teams[i].uid : i \in {j \in 1..(k + 1) : teams[j].owner = u}}
    OBVIOUS
  <2>1. k \in Nat /\ k + 1 \in 1..Len(teams) /\ k + 1 \in 0..Len(teams) /\ (k + 1) - 1 = k
    BY <1>1
  <2>2. /\ f[k] \in Seq(Teams) /\ Distinct(f[k])
        /\ Range(f[k]) \subseteq Range(teams)
        /\ Uids(f[k]) = {teams[i].uid : i \in {j \in 1..k : teams[j].owner = u}}
    BY <1>1
  <2>3. f[k + 1] = IF teams[k + 1].owner = u THEN Append(f[k], teams[k + 1]) ELSE f[k]
    <3> DEFINE v(i) == IF i = 0 THEN <<>>
                       ELSE IF teams[i].owner = u THEN Append(f[i - 1], teams[i]) ELSE f[i - 1]
    <3>1. f = [i \in 0..Len(teams) |-> v(i)]
      BY DEF OwnedAre
    <3>2. f[k + 1] = v(k + 1)
      <4> HIDE DEF v
      <4> QED BY <2>1, <3>1
    <3>3. k + 1 # 0
      BY <2>1
    <3> HIDE DEF T
    <3> QED BY <2>1, <3>2, <3>3
  <2> HIDE DEF T
  <2>4. 1..(k + 1) = 1..k \cup {k + 1}
    BY <2>1
  <2>5. CASE teams[k + 1].owner = u
    <3>1. {j \in 1..(k + 1) : teams[j].owner = u} = {j \in 1..k : teams[j].owner = u} \cup {k + 1}
      BY <2>4, <2>5
    <3>2. teams[k + 1] \in Teams /\ teams[k + 1] \in Range(teams)
      BY <1>1, <2>1 DEF Range
    <3>3. teams[k + 1].uid \notin Uids(f[k])
      <4>1. ASSUME NEW i \in 1..k, teams[i].uid = teams[k + 1].uid PROVE FALSE
        <5>1. i \in 1..Len(teams) /\ i # k + 1
          BY <1>1, <2>1
        <5> QED BY <1>1, <2>1, <4>1, <5>1 DEF TeamsAreDistinct
      <4> QED BY <2>2, <4>1
    <3>4. /\ f[k + 1] \in Seq(Teams) /\ Distinct(f[k + 1])
          /\ Uids(f[k + 1]) = Uids(f[k]) \cup {teams[k + 1].uid}
      BY <2>2, <2>3, <2>5, <3>2, <3>3, ListWithOneMore
    <3>5. Range(f[k + 1]) \subseteq Range(teams)
      <4>1. f[k + 1] = Append(f[k], teams[k + 1])
        BY <2>3, <2>5
      <4>2. \A i \in DOMAIN f[k + 1] : f[k + 1][i] = teams[k + 1] \/ (i \in DOMAIN f[k] /\ f[k + 1][i] = f[k][i])
        BY <2>2, <4>1
      <4> QED BY <2>2, <3>2, <4>2 DEF Range
    <3> QED BY <2>2, <3>1, <3>4, <3>5
  <2>6. CASE teams[k + 1].owner # u
    <3>1. {j \in 1..(k + 1) : teams[j].owner = u} = {j \in 1..k : teams[j].owner = u}
      BY <2>4, <2>6
    <3> QED BY <2>2, <2>3, <2>6, <3>1
  <2> QED BY <2>5, <2>6
<1>4. \A k \in Nat : k \in T
  <2>1. T \subseteq Nat
    OBVIOUS
  <2> HIDE DEF T
  <2> QED BY <1>2, <1>3, <2>1, Counting
<1>5. Len(teams) \in T
  BY <1>1, <1>4
<1>6. {teams[i].uid : i \in {j \in 1..Len(teams) : teams[j].owner = u}}
        = {t.uid : t \in {x \in Range(teams) : x.owner = u}}
  <2>1. DOMAIN teams = 1..Len(teams)
    BY <1>1
  <2> QED BY <2>1 DEF Range
<1> QED BY <1>1, <1>5, <1>6

-----------------------------------------------------------------------------
\* The teams a user was added to, after those in b.
IsNew(s, i, u) ==
    /\ members[i].user = u
    /\ TeamAt(members[i].team) # 0
    /\ \A t \in Range(s) : t.uid # members[i].team

FoundAre(f, b, u) ==
    f = [i \in 0..Len(members) |->
            IF i = 0 THEN b
            ELSE IF IsNew(f[i - 1], i, u) THEN Append(f[i - 1], teams[TeamAt(members[i].team)])
                 ELSE f[i - 1]]

LEMMA FoundExist ==
  ASSUME RowsTypeOK, NEW u, NEW b \in Seq(Teams)
  PROVE  \E f : FoundAre(f, b, u)
<1>1. teams \in Seq(Teams) /\ members \in Seq(Members) /\ Len(members) \in Nat
  BY DEF RowsTypeOK
<1> DEFINE Q == Seq(Teams)
           next(s, i) == IF IsNew(s, i, u) THEN Append(s, teams[TeamAt(members[i].team)]) ELSE s
           G == [x \in Q \X (1..Len(members)) |-> next(x[1], x[2])]
<1>2. G \in StepMaps(Q, Len(members))
  <2>1. ASSUME NEW s \in Q, NEW i \in 1..Len(members) PROVE next(s, i) \in Q
    <3>1. CASE IsNew(s, i, u)
      <4>1. teams[TeamAt(members[i].team)] \in Teams
        BY <1>1, <3>1, TeamAtIs DEF IsNew
      <4>2. Append(s, teams[TeamAt(members[i].team)]) \in Q
        BY <4>1
      <4> QED BY <3>1, <4>2
    <3>2. CASE ~IsNew(s, i, u)
      BY <3>2
    <3> QED BY <3>1, <3>2
  <2>2. ASSUME NEW x \in Q \X (1..Len(members)) PROVE next(x[1], x[2]) \in Q
    <3>1. x[1] \in Q /\ x[2] \in 1..Len(members)
      OBVIOUS
    <3> HIDE DEF next, Q
    <3> QED BY <2>1, <3>1
  <2> HIDE DEF next, Q
  <2> QED BY <2>2 DEF StepMaps
<1>3. b \in Q
  OBVIOUS
<1>4. PICK f : GoesBySteps(f, Q, Len(members), b, G)
  <2> HIDE DEF Q, G
  <2> QED BY <1>1, <1>2, <1>3, StepsExist
<1>5. ASSUME NEW i \in 1..Len(members)
      PROVE  f[i] = next(f[i - 1], i)
  <2>1. i - 1 \in 0..Len(members) /\ f[i - 1] \in Q
    <3> HIDE DEF Q, G
    <3>1. i - 1 \in 0..Len(members)
      BY <1>1
    <3>2. f \in [0..Len(members) -> Q]
      BY <1>4 DEF GoesBySteps
    <3> QED BY <3>1, <3>2
  <2>2. /\ <<f[i - 1], i>> \in Q \X (1..Len(members))
        /\ <<f[i - 1], i>>[1] = f[i - 1] /\ <<f[i - 1], i>>[2] = i
    BY <2>1
  <2>3. G[<<f[i - 1], i>>] = next(f[i - 1], i)
    <3> HIDE DEF Q, next
    <3> QED BY <2>2
  <2> HIDE DEF Q, G, next
  <2> QED BY <1>4, <2>3 DEF GoesBySteps
<1>6. ASSUME NEW i \in 0..Len(members)
      PROVE  f[i] = IF i = 0 THEN b ELSE next(f[i - 1], i)
  <2>1. i = 0 \/ i \in 1..Len(members)
    BY <1>1
  <2>2. f[0] = b
    BY <1>4 DEF GoesBySteps
  <2>3. i \in 1..Len(members) => i # 0
    OBVIOUS
  <2> HIDE DEF next, G, Q
  <2> QED BY <1>5, <2>1, <2>2, <2>3
<1>7. f = [i \in 0..Len(members) |-> f[i]]
  <2> HIDE DEF Q, G
  <2> QED BY <1>4 DEF GoesBySteps
<1>8. f = [i \in 0..Len(members) |-> IF i = 0 THEN b ELSE next(f[i - 1], i)]
  <2> HIDE DEF next
  <2> QED BY <1>6, <1>7
<1> QED BY <1>8, Zenon DEF FoundAre

\* The uids of the teams that are known and that the user was added to in the first k members.
Joins(k, u) == {members[i].team : i \in {j \in 1..k : members[j].user = u /\ TeamAt(members[j].team) # 0}}

LEMMA FoundList ==
  ASSUME RowsInv, NEW u, NEW b \in Seq(Teams), Distinct(b), Range(b) \subseteq Range(teams),
         NEW f, FoundAre(f, b, u)
  PROVE  /\ f[Len(members)] \in Seq(Teams) /\ Distinct(f[Len(members)])
         /\ Uids(f[Len(members)]) = Uids(b) \cup Joins(Len(members), u)
<1>1. teams \in Seq(Teams) /\ members \in Seq(Members) /\ Len(members) \in Nat /\ RowsTypeOK
  BY DEF RowsInv, RowsTypeOK
<1> DEFINE T == {k \in Nat : k <= Len(members) =>
                    /\ f[k] \in Seq(Teams) /\ Distinct(f[k])
                    /\ Uids(f[k]) = Uids(b) \cup Joins(k, u)}
<1>2. 0 \in T
  <2>1. f[0] = b
    BY <1>1 DEF FoundAre
  <2>2. Joins(0, u) = {}
    BY DEF Joins
  <2>3. /\ f[0] \in Seq(Teams) /\ Distinct(f[0])
        /\ Uids(f[0]) = Uids(b) \cup Joins(0, u)
    BY <2>1, <2>2
  <2> QED BY <2>3
<1>3. ASSUME NEW k \in T PROVE k + 1 \in T
  <2> SUFFICES ASSUME k + 1 <= Len(members)
               PROVE  /\ f[k + 1] \in Seq(Teams) /\ Distinct(f[k + 1])
                      /\ Uids(f[k + 1]) = Uids(b) \cup Joins(k + 1, u)
    OBVIOUS
  <2>1. k \in Nat /\ k + 1 \in 1..Len(members) /\ k + 1 \in 0..Len(members) /\ (k + 1) - 1 = k
    BY <1>1
  <2>2. /\ f[k] \in Seq(Teams) /\ Distinct(f[k])
        /\ Uids(f[k]) = Uids(b) \cup Joins(k, u)
    BY <1>1
  <2> PICK m : m = members[k + 1].team
    OBVIOUS
  <2>3. f[k + 1] = IF IsNew(f[k], k + 1, u) THEN Append(f[k], teams[TeamAt(m)]) ELSE f[k]
    <3> DEFINE v(i) == IF i = 0 THEN b
                       ELSE IF IsNew(f[i - 1], i, u) THEN Append(f[i - 1], teams[TeamAt(members[i].team)])
                            ELSE f[i - 1]
    <3>1. f = [i \in 0..Len(members) |-> v(i)]
      BY DEF FoundAre
    <3>2. f[k + 1] = v(k + 1)
      <4> HIDE DEF v
      <4> QED BY <2>1, <3>1
    <3>3. k + 1 # 0
      BY <2>1
    <3> HIDE DEF T
    <3> QED BY <2>1, <3>2, <3>3
  <2> HIDE DEF T
  <2>4. 1..(k + 1) = 1..k \cup {k + 1}
    BY <2>1
  <2>5. Joins(k + 1, u) = IF members[k + 1].user = u /\ TeamAt(m) # 0 THEN Joins(k, u) \cup {m} ELSE Joins(k, u)
    <3>1. CASE members[k + 1].user = u /\ TeamAt(m) # 0
      <4>1. {j \in 1..(k + 1) : members[j].user = u /\ TeamAt(members[j].team) # 0}
              = {j \in 1..k : members[j].user = u /\ TeamAt(members[j].team) # 0} \cup {k + 1}
        BY <2>4, <3>1
      <4> QED BY <3>1, <4>1 DEF Joins
    <3>2. CASE ~(members[k + 1].user = u /\ TeamAt(m) # 0)
      <4>1. {j \in 1..(k + 1) : members[j].user = u /\ TeamAt(members[j].team) # 0}
              = {j \in 1..k : members[j].user = u /\ TeamAt(members[j].team) # 0}
        BY <2>4, <3>2
      <4> QED BY <3>2, <4>1 DEF Joins
    <3> QED BY <3>1, <3>2
  <2>6. CASE IsNew(f[k], k + 1, u)
    <3>1. members[k + 1].user = u /\ TeamAt(m) # 0 /\ \A t \in Range(f[k]) : t.uid # m
      BY <2>6 DEF IsNew
    <3>2. TeamAt(m) \in 1..Len(teams) /\ teams[TeamAt(m)].uid = m
      BY <1>1, <3>1, TeamAtIs
    <3>3. teams[TeamAt(m)] \in Teams
      BY <1>1, <3>2
    <3>4. teams[TeamAt(m)].uid \notin Uids(f[k])
      BY <3>1, <3>2 DEF Uids
    <3>5. f[k + 1] = Append(f[k], teams[TeamAt(m)])
      BY <2>3, <2>6
    <3>6. /\ f[k + 1] \in Seq(Teams) /\ Distinct(f[k + 1])
          /\ Uids(f[k + 1]) = Uids(f[k]) \cup {m}
      BY <2>2, <3>2, <3>3, <3>4, <3>5, ListWithOneMore
    <3> QED BY <2>2, <2>5, <3>1, <3>6
  <2>7. CASE ~IsNew(f[k], k + 1, u)
    <3>1. f[k + 1] = f[k]
      BY <2>3, <2>7
    <3>2. CASE members[k + 1].user = u /\ TeamAt(m) # 0
      <4>1. m \in Uids(f[k])
        BY <2>7, <3>2 DEF IsNew, Uids
      <4> QED BY <2>2, <2>5, <3>1, <3>2, <4>1
    <3>3. CASE ~(members[k + 1].user = u /\ TeamAt(m) # 0)
      BY <2>2, <2>5, <3>1, <3>3
    <3> QED BY <3>2, <3>3
  <2> QED BY <2>6, <2>7
<1>4. \A k \in Nat : k \in T
  <2>1. T \subseteq Nat
    OBVIOUS
  <2> HIDE DEF T
  <2> QED BY <1>2, <1>3, <2>1, Counting
<1>5. Len(members) \in T
  BY <1>1, <1>4
<1> QED BY <1>1, <1>5

LEMMA TeamsForUserIs ==
  ASSUME RowsInv, NEW u
  PROVE  /\ TeamsForUser(u) \in Seq(Teams) /\ Distinct(TeamsForUser(u))
         /\ Uids(TeamsForUser(u))
               = {t.uid : t \in {x \in Range(teams) : x.owner = u}} \cup Joins(Len(members), u)
<1> DEFINE f == CHOOSE f : OwnedAre(f, u)
           b == f[Len(teams)]
           g == CHOOSE g : FoundAre(g, b, u)
<1>1. RowsTypeOK
  BY DEF RowsInv
<1>2. OwnedAre(f, u)
  BY <1>1, OwnedExist
<1>3. TeamsForUser(u) = g[Len(members)]
  BY Zenon DEF TeamsForUser, OwnedAre, FoundAre, IsNew
<1> HIDE DEF f
<1>4. /\ b \in Seq(Teams) /\ Distinct(b) /\ Range(b) \subseteq Range(teams)
      /\ Uids(b) = {t.uid : t \in {x \in Range(teams) : x.owner = u}}
  BY <1>2, OwnedList
<1> HIDE DEF b
<1>5. FoundAre(g, b, u)
  BY <1>1, <1>4, FoundExist
<1> HIDE DEF g
<1> QED BY <1>3, <1>4, <1>5, FoundList

-----------------------------------------------------------------------------
\* What the invariant says about the answers.
LEMMA WholeTeams == RowsInv => TeamsAreWhole
<1> SUFFICES ASSUME RowsInv, NEW u \in Users
             PROVE  /\ {t.uid : t \in Range(TeamsForUser(u))}
                          = {t.uid : t \in {x \in Range(teams) :
                                x.owner = u \/ \E j \in joined : j[1] = x.uid /\ j[2] = u}}
                    /\ IsInjective(TeamsForUser(u))
                    /\ \A t \in TeamUids : {m \in GetMembers(t) : m.user = u}
                          = {[user |-> u, role |-> j[3]] : j \in {x \in joined : x[1] = t /\ x[2] = u}}
  BY DEF TeamsAreWhole
<1>1. /\ teams \in Seq(Teams) /\ members \in Seq(Members) /\ RowsTypeOK
      /\ joined = {<<m.team, m.user, m.role>> : m \in Range(members)}
  BY DEF RowsInv, RowsTypeOK, JoinedAreMembers
<1>2. Range(members) \subseteq Members /\ Range(members) = {members[i] : i \in 1..Len(members)}
  BY <1>1 DEF Range
<1>3. Range(teams) = {teams[i] : i \in 1..Len(teams)}
  BY <1>1 DEF Range
<1>4. Joins(Len(members), u) = {t.uid : t \in {x \in Range(teams) : \E j \in joined : j[1] = x.uid /\ j[2] = u}}
  <2>1. ASSUME NEW i \in 1..Len(members), members[i].user = u, TeamAt(members[i].team) # 0
        PROVE  \E x \in Range(teams) : x.uid = members[i].team /\ \E j \in joined : j[1] = x.uid /\ j[2] = u
    <3>1. PICK x \in Range(teams) : x.uid = members[i].team
      BY <1>1, <1>3, <2>1, TeamAtIs
    <3>2. <<members[i].team, members[i].user, members[i].role>> \in joined
      BY <1>1, <1>2
    <3> QED BY <2>1, <3>1, <3>2
  <2>2. ASSUME NEW x \in Range(teams), NEW j \in joined, j[1] = x.uid, j[2] = u
        PROVE  \E i \in 1..Len(members) : members[i].user = u /\ TeamAt(members[i].team) # 0
                                           /\ members[i].team = x.uid
    <3>1. PICK m \in Range(members) : j = <<m.team, m.user, m.role>>
      BY <1>1
    <3>2. PICK i \in 1..Len(members) : m = members[i]
      BY <1>2
    <3>3. m.team = x.uid /\ m.user = u
      BY <2>2, <3>1
    <3>4. TeamAt(x.uid) # 0
      BY <1>1, <1>3, TeamAtIs
    <3> QED BY <3>2, <3>3, <3>4
  <2> QED BY <2>1, <2>2 DEF Joins
<1>5. Uids(TeamsForUser(u)) = {t.uid : t \in {x \in Range(teams) : x.owner = u}} \cup Joins(Len(members), u)
  BY TeamsForUserIs
<1>6. {t.uid : t \in Range(TeamsForUser(u))}
         = {t.uid : t \in {x \in Range(teams) :
               x.owner = u \/ \E j \in joined : j[1] = x.uid /\ j[2] = u}}
  BY <1>4, <1>5 DEF Uids
<1>7. IsInjective(TeamsForUser(u))
  BY TeamsForUserIs DEF Distinct, IsInjective
<1>8. ASSUME NEW t \in TeamUids
      PROVE  {m \in GetMembers(t) : m.user = u}
               = {[user |-> u, role |-> j[3]] : j \in {x \in joined : x[1] = t /\ x[2] = u}}
  <2>1. \A m \in Range(members) : ParseRole(m.role) = m.role
    BY <1>2 DEF ParseRole, Members
  <2>2. ASSUME NEW m \in Range(members), m.team = t, m.user = u
        PROVE  \E j \in joined : j[1] = t /\ j[2] = u /\ j[3] = m.role
    <3>1. <<m.team, m.user, m.role>> \in joined
      BY <1>1
    <3> QED BY <2>2, <3>1
  <2>3. ASSUME NEW j \in joined, j[1] = t, j[2] = u
        PROVE  \E m \in Range(members) : m.team = t /\ m.user = u /\ m.role = j[3]
    BY <1>1, <2>3
  <2>4. {m \in GetMembers(t) : m.user = u}
          = {[user |-> u, role |-> m.role] : m \in {x \in Range(members) : x.team = t /\ x.user = u}}
    <3>1. ASSUME NEW x, x \in {m \in GetMembers(t) : m.user = u}
          PROVE  x \in {[user |-> u, role |-> m.role] : m \in {y \in Range(members) : y.team = t /\ y.user = u}}
      <4>1. PICK m \in Range(members) : m.team = t /\ x = [user |-> m.user, role |-> ParseRole(m.role)]
        BY <3>1 DEF GetMembers
      <4>2. x.user = u /\ x.user = m.user
        BY <3>1, <4>1
      <4> QED BY <2>1, <4>1, <4>2
    <3>2. ASSUME NEW m \in Range(members), m.team = t, m.user = u
          PROVE  [user |-> u, role |-> m.role] \in {x \in GetMembers(t) : x.user = u}
      <4>1. [user |-> m.user, role |-> ParseRole(m.role)] \in GetMembers(t)
        BY <3>2 DEF GetMembers
      <4> QED BY <2>1, <3>2, <4>1
    <3> QED BY <3>1, <3>2
  <2>5. {m.role : m \in {x \in Range(members) : x.team = t /\ x.user = u}}
          = {j[3] : j \in {x \in joined : x[1] = t /\ x[2] = u}}
    <3>1. ASSUME NEW m \in Range(members), m.team = t, m.user = u
          PROVE  m.role \in {j[3] : j \in {x \in joined : x[1] = t /\ x[2] = u}}
      BY <2>2, <3>1
    <3>2. ASSUME NEW j \in joined, j[1] = t, j[2] = u
          PROVE  j[3] \in {m.role : m \in {x \in Range(members) : x.team = t /\ x.user = u}}
      BY <2>3, <3>2
    <3> QED BY <3>1, <3>2
  <2>6. {m \in GetMembers(t) : m.user = u}
          = {[user |-> u, role |-> x] : x \in {m.role : m \in {x \in Range(members) : x.team = t /\ x.user = u}}}
    BY <2>4, Zenon
  <2>7. {[user |-> u, role |-> j[3]] : j \in {x \in joined : x[1] = t /\ x[2] = u}}
          = {[user |-> u, role |-> x] : x \in {j[3] : j \in {x \in joined : x[1] = t /\ x[2] = u}}}
    BY Zenon
  <2> QED BY <2>5, <2>6, <2>7
<1> QED BY <1>6, <1>7, <1>8

LEMMA ReadRows == RowsInv => RowsAreRead
<1> SUFFICES ASSUME RowsInv PROVE RowsAreRead
  OBVIOUS
<1>1. /\ rows \in Seq(SymbolRows) /\ given \in Seq(GivenSymbols)
      /\ Len(rows) = Len(given) /\ Len(given) \in Nat
      /\ edgesGiven \in Seq(EdgeKinds) /\ Len(edgesGiven) \in Nat
      /\ edgeRows = [i \in DOMAIN edgesGiven |-> RelationshipText[edgesGiven[i]]]
  BY DEF RowsInv, RowsTypeOK
<1>2. DOMAIN GetSymbols = 1..Len(given) /\ DOMAIN given = 1..Len(given)
  <2>1. GetSymbols = [i \in 1..Len(given) |-> ReadSymbol(rows[i])]
    BY <1>1 DEF GetSymbols
  <2> QED BY <1>1, <2>1
<1>3. ASSUME NEW i \in DOMAIN given
      PROVE  /\ GetSymbols[i].uid = given[i].uid
             /\ OnlyRow(i) =>
                   GetSymbols[i] =
                       [uid  |-> given[i].uid,
                        kind |-> IF given[i].kind = Newer THEN "Variable" ELSE given[i].kind,
                        body |-> given[i].body,
                        meta |-> IF given[i].meta = "" THEN Null ELSE given[i].meta]
  <2>1. i \in 1..Len(given) /\ i \in DOMAIN rows /\ given[i] \in GivenSymbols
    BY <1>1
  <2>2. rows[i].uid = given[i].uid /\ (OnlyRow(i) => RowIsKept(i))
    BY <2>1 DEF RowsInv, RowsKept
  <2> PICK k, m : k = ParseSymbolKind(rows[i].kind) /\ m = IF rows[i].meta = "" THEN Null ELSE rows[i].meta
    OBVIOUS
  <2>3. GetSymbols[i] = [uid |-> rows[i].uid, kind |-> k, body |-> rows[i].body, meta |-> m]
    BY <2>1 DEF GetSymbols, ReadSymbol
  <2>4. ASSUME OnlyRow(i)
        PROVE  GetSymbols[i] =
                   [uid  |-> given[i].uid,
                    kind |-> IF given[i].kind = Newer THEN "Variable" ELSE given[i].kind,
                    body |-> given[i].body,
                    meta |-> IF given[i].meta = "" THEN Null ELSE given[i].meta]
    <3>1. RowIsKept(i)
      BY <2>2, <2>4
    <3>2. k = IF given[i].kind = Newer THEN "Variable" ELSE given[i].kind
      <4>1. CASE given[i].kind = Newer
        <5>1. rows[i].kind = Newer \/ rows[i].kind = "Variable"
          BY <3>1, <4>1 DEF RowIsKept, KindIsKept
        <5> QED BY <4>1, <5>1, KindsAreRead, TextsOfKinds
      <4>2. CASE given[i].kind # Newer
        <5>1. given[i].kind \in SymbolKinds
          BY <2>1, <4>2, RowsAssumption DEF GivenSymbols
        <5>2. rows[i].kind = given[i].kind
          BY <3>1, <4>2, <5>1, TextsOfKinds DEF RowIsKept, KindIsKept
        <5> QED BY <4>2, <5>1, <5>2, KindsAreRead
      <4> QED BY <4>1, <4>2
    <3>3. m = IF given[i].meta = "" THEN Null ELSE given[i].meta
      <4>1. Null # ""
        BY DEF Null
      <4> QED BY <3>1, <4>1 DEF RowIsKept, MetaIsKept
    <3>4. rows[i].body = given[i].body
      BY <3>1 DEF RowIsKept
    <3>5. rows[i].uid = given[i].uid
      BY <2>2
    <3> QED BY ONLY <2>3, <3>2, <3>3, <3>4, <3>5
  <2>5. GetSymbols[i].uid = given[i].uid
    <3>1. rows[i].uid = given[i].uid
      BY <2>2
    <3> QED BY ONLY <2>3, <3>1
  <2> QED BY <2>4, <2>5
<1>4. GetRelationships = edgesGiven
  <2>1. DOMAIN edgeRows = DOMAIN edgesGiven
    BY <1>1
  <2>2. ASSUME NEW i \in DOMAIN edgesGiven PROVE ParseRelationshipKind(edgeRows[i]) = edgesGiven[i]
    <3>1. edgesGiven[i] \in EdgeKinds /\ edgeRows[i] = RelationshipText[edgesGiven[i]]
      BY <1>1
    <3>2. EdgeKinds \subseteq DOMAIN RelationshipText
      BY DEF EdgeKinds, RelationshipText
    <3> QED BY <3>1, <3>2, KindsSurviveAlways DEF KindsSurvive
  <2>3. edgesGiven = [i \in DOMAIN edgesGiven |-> edgesGiven[i]]
    BY <1>1
  <2> QED BY <2>1, <2>2, <2>3 DEF GetRelationships
<1> PICK read : read = GetSymbols
  OBVIOUS
<1>5. {s.uid : s \in Range(read)} = {g.uid : g \in Range(given)}
  <2>1. \A i \in 1..Len(given) : read[i].uid = given[i].uid
    BY <1>2, <1>3
  <2>2. DOMAIN read = 1..Len(given) /\ DOMAIN given = 1..Len(given)
    BY <1>2
  <2> QED BY ONLY <2>1, <2>2 DEF Range
<1>6. ASSUME NEW i \in DOMAIN given, OnlyRow(i)
      PROVE  {s \in Range(read) : s.uid = given[i].uid} =
                 {[uid  |-> given[i].uid,
                   kind |-> IF given[i].kind = Newer THEN "Variable" ELSE given[i].kind,
                   body |-> given[i].body,
                   meta |-> IF given[i].meta = "" THEN Null ELSE given[i].meta]}
  <2> PICK s : s = [uid  |-> given[i].uid,
                    kind |-> IF given[i].kind = Newer THEN "Variable" ELSE given[i].kind,
                    body |-> given[i].body,
                    meta |-> IF given[i].meta = "" THEN Null ELSE given[i].meta]
    OBVIOUS
  <2>1. read[i] = s /\ s.uid = given[i].uid
    BY <1>3, <1>6
  <2>2. \A j \in DOMAIN given : read[j].uid = given[i].uid => j = i
    BY <1>3, <1>6 DEF OnlyRow
  <2>3. DOMAIN read = DOMAIN given
    BY <1>2
  <2>4. {x \in Range(read) : x.uid = given[i].uid} = {s}
    BY <2>1, <2>2, <2>3 DEF Range
  <2> QED BY <2>4
<1> QED BY <1>4, <1>5, <1>6 DEF RowsAreRead

\* The row of what was stored once.
LEMMA TheRow ==
  ASSUME RowsInv, NEW i \in DOMAIN given, OnlyRow(i)
  PROVE  RowsOf(given[i].uid) = {i}
<1>1. DOMAIN rows = 1..Len(given) /\ DOMAIN given = 1..Len(given)
  BY DEF RowsInv, RowsTypeOK
<1>2. \A n \in 1..Len(given) : rows[n].uid = given[n].uid
  BY DEF RowsInv, RowsKept
<1> QED BY <1>1, <1>2 DEF RowsOf, OnlyRow

LEMMA LastVectors == RowsInv => VectorsAreLast
<1> SUFFICES ASSUME RowsInv, NEW i \in DOMAIN given, OnlyRow(i)
             PROVE  GetVector(i) = embedded[given[i].uid]
  BY TheRow DEF VectorsAreLast
<1>1. i \in 1..Len(given) /\ given[i] \in GivenSymbols /\ embedded \in [RowUids -> Embeddings \cup {Null}]
  BY DEF RowsInv, RowsTypeOK
<1>2. VectorIsKept(i)
  BY <1>1 DEF RowsInv, RowsKept, RowIsKept
<1>3. given[i].uid \in RowUids
  BY <1>1 DEF GivenSymbols
<1>4. embedded[given[i].uid] \in Embeddings \cup {Null}
  BY <1>1, <1>3
<1> QED BY <1>2, <1>4, RowsAssumption DEF GetVector, VectorIsKept

LEMMA NewerKept == RowsInv => NewerIsKept
<1> SUFFICES ASSUME RowsInv, NEW i \in DOMAIN given, given[i].kind = Newer, OnlyRow(i)
             PROVE  rows[i].kind = (IF embedded[given[i].uid] = Null THEN Newer ELSE "Variable")
  BY TheRow DEF NewerIsKept
<1>1. i \in 1..Len(given)
  BY DEF RowsInv, RowsTypeOK
<1>2. KindIsKept(i)
  BY <1>1 DEF RowsInv, RowsKept, RowIsKept
<1> QED BY <1>2 DEF KindIsKept

LEMMA SearchFinds == SearchFindsEmbedded
<1> SUFFICES ASSUME NEW q \in Embeddings, NEW i \in DOMAIN rows, rows[i].vector = q
             PROVE  [ReadSymbol(rows[i]) EXCEPT !.meta = Null] \in VectorSearch(q, 1)
  BY DEF SearchFindsEmbedded
<1>1. \A j \in DOMAIN rows : Score(j, q) \in {0, 1, 2}
  BY DEF Score
<1>2. Score(i, q) = 2
  BY RowsAssumption DEF Score
<1>3. {j \in DOMAIN rows : Score(j, q) > Score(i, q)} = {}
  BY <1>1, <1>2
<1>4. Cardinality({j \in DOMAIN rows : Score(j, q) > Score(i, q)}) < 1
  BY <1>3, FS_EmptySet
<1> QED BY <1>4 DEF VectorSearch

(* What is read of a row is what was stored in it, and the vector it was last *)
(* given; what was embedded is found; and the teams and members of a user are *)
(* those that were put in: store_symbols, get_symbols, store_embeddings and   *)
(* vector_search (store.rs:205-1026), and the tables of team_store.rs.        *)
THEOREM RowsSurviveAlways == RowsSpec => []RowsSurvive
<1>1. RowsInv => RowsSurvive
  BY KindsSurviveAlways, ReadRows, LastVectors, NewerKept, SearchFinds, WholeTeams DEF RowsSurvive
<1> QED BY <1>1, RowsInvAlways, PTL
=============================================================================
