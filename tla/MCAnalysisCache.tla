--------------------------- MODULE MCAnalysisCache ---------------------------
(***************************************************************************)
(* AnalysisCache with one structural file, the manifest, and two others    *)
(* that are interchangeable; all are there at first, with one content.     *)
(***************************************************************************)
EXTENDS AnalysisCache, TLC

CONSTANTS manifest, f1, f2, text1, text2

MCFirstTrees == {[f \in Files |-> text1]}
\* fresh, and set back, which the cast makes too old
MCAges       == {-1, 0}
MCSymmetry   == Permutations(Files \ Structural)
=============================================================================
