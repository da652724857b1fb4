CONSTANTS
    Procs = {p1, p2}
    MayDelete = TRUE
    NoFile = NoFile
    Blank = Blank
    Watched = {f1, f2}
    Versions = {v1, v2}
    MaxChanges = 3
    MayFail = TRUE
    Missing = Missing
    Kinds = {symbolRows, edgeRows}
    BatchSize = 2
    Capacity = 2
    MaxRows = 4
    Threads = {t1, t2}
    Slots = {s1, s2}
    MaxEntries = 1
    MaxAnalyses = 1
    Nodes = {n1, n2, n3}
    NoNode = NoNode
    Uids = {n1, n2, n3}
    MaxEdges = 3
    MaxDepth = 2
    MaxCalls = 3
    MaxDeep = 2
    MaxTree = 3
SPECIFICATION ProcessesSpec
INVARIANTS OnlyTheftBreaksExclusion QuietMeansCurrent Accounted FaultsAreRaces SearchIsExact TraceIsFaithful
PROPERTIES AbandonedLockIsReclaimed CatchesUp WorkEnds
CHECK_DEADLOCK FALSE
