CONSTANTS
    Files = {manifest, f1, f2}
    Contents = {text1, text2}
    manifest = manifest
    f1 = f1
    f2 = f2
    Structural = {manifest}
    NoFile = NoFile
    NoCommit = NoCommit
    NoEntry = NoEntry
    MaxChanged = 1
    MaxChanges = 2
    MaxAge = 1
    Wide = 8
    Ages <- MCAges
    text1 = text1
    text2 = text2
    FirstTrees <- MCFirstTrees
SPECIFICATION Spec
SYMMETRY MCSymmetry
INVARIANTS ReusedIndexIsThere
