CONSTANTS
    Callers = {c1, c2}
    Capacity = 1
    NoMsg = NoMsg
    Gone = Gone
SPECIFICATION FairSpec
CHECK_DEADLOCK FALSE
PROPERTIES
    FailureReachesCallers
