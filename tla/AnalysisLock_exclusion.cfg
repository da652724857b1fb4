CONSTANTS
    Procs = {p1, p2}
    MayDelete = FALSE
    NoFile = NoFile
    Blank = Blank
SPECIFICATION LockSpec
INVARIANTS MutualExclusion
CHECK_DEADLOCK FALSE
