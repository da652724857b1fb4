CONSTANTS
    Writers = {cli, watch}
    WalkOrder <- MCWalkOrder
    Symbols = {login, check, alias, handler}
    People = {ann}
    Text = Text
    Node = Node
    Contents <- MCContents
    NoFile = NoFile
    FirstTrees <- MCFirstTrees
    MaxRuns = 2
    MaxEdits = 1
    f1 = f1
    f2 = f2
    login = login
    check = check
    alias = alias
    handler = handler
    ann = ann
    NoOne = NoOne
    NoSnapshot = NoSnapshot
    MaxStarts = 2
    Indexers = {cli, watch}
    CodeFiles = {f1, f2}
SPECIFICATION TablesSpec
SYMMETRY MCSymmetry
INVARIANTS SnapshotDiffAnswers
CHECK_DEADLOCK FALSE
