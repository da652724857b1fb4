CONSTANTS
    Writers = {cli, watch}
    WalkOrder <- MCWalkOrder
    Symbols = {login, check, alias, handler}
    People = {ann}
    Text = Text
    Node = Node
    Contents <- MCContents
    NoFile = NoFile
    FirstTrees <- MCMailTrees
    MaxRuns = 2
    MaxEdits = 1
    f1 = f1
    f2 = f2
    login = login
    check = check
    alias = alias
    handler = handler
    ann = ann
SPECIFICATION Spec
SYMMETRY MCSymmetry
INVARIANTS GraphStaysCurrent
CHECK_DEADLOCK FALSE
