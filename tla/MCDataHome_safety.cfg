CONSTANTS
    Procs = {p1, p2}
    Repos = {r1, r2}
    NoFile = NoFile
    Torn = Torn
    NoRepo = NoRepo
    Writers = {w1, w2}
    Entries = {theirs, other}
    Foreign = {other}
    LookAlikes = {other}
    Ours = Ours
    Absent = Absent
    Broken = Broken
    Odd = Odd
    MaxSaves = 1
    UserLines = {x, y}
    Shebang = Shebang
    HookBegin = HookBegin
    Body = Body
    HookEnd = HookEnd
    NoHook = NoHook
    MaxLines = 8
    MaxEdits = 3
    ByName <- MCByName
    LookNames <- MCLookNames
    Dirs <- MCDirs
    Syncs = {s1, s2}
    Folders <- MCFolders
    Malformed <- MCMalformed
    MaxUid = 2
    MaxGone = 1
    NoState = NoState
    TornState = TornState
SPECIFICATION HomeSpec
INVARIANTS ResolutionIsSound SavedAfterStored RetryNeverDuplicates
INVARIANTS LossNeedsOverlapOrCrash ListedHasIndex FilesKeepTheirLines
CHECK_DEADLOCK FALSE
