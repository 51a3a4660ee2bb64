CONSTANTS
    Callers = {c1, c2, c3}
    Capacity = 1
    NoMsg = NoMsg
    Gone = Gone
SPECIFICATION FairSpec
CHECK_DEADLOCK FALSE
INVARIANTS
    NoPanic
    CountsExact
PROPERTIES
    ImplementsRequestQueue
    Progress
