CONSTANTS
    Files = {manifest, f1, f2}
    Contents = {text1, text2}
    manifest = manifest
    f1 = f1
    f2 = f2
    Structural = {manifest}
    Callers = {c1, c2, c3}
    Repos = {r1, r2}
    Handles = {h1, h2, h3}
    None = None
    NoFile = NoFile
    NoCommit = NoCommit
    NoEntry = NoEntry
    MaxChanged = 1
    MaxChanges = 2
    MaxAge = 1
    Wide = 8
    Refusal = Refusal
    NoCommunity = NoCommunity
    Tables <- MCTables
    Groupings <- MCGroupings
    Kinds = {"Calls", "Mentions"}
    Gone = "u0"
    TestFiles <- MCTestFiles
    MaxEdges = 3
    MaxLines = 2
    FileUid <- MCFileUid
    MaxParted = 5
    MaxDepth = 3
    ManyCallers = 2
    FewCallers = 1
    ManySymbols = 2
    MaxTop = 2
    PerPage = {1, 2}
    Ages <- MCAges
    text1 = text1
    text2 = text2
    FirstTrees <- MCFirstTrees
SPECIFICATION AnswersSpec
SYMMETRY MCSymmetry
INVARIANTS LabelsMatch
