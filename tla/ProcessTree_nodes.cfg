CONSTANTS
    Uids = {n1, n2, n3}
    MaxCalls = 3
    MaxDeep = 2
    MaxTree = 3
SPECIFICATION ProcessSpec
INVARIANTS TracesStayWithinMax
CHECK_DEADLOCK FALSE
