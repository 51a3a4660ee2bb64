CONSTANTS
    Keys = {k1, k2}
    Clients = {c1, c2, c3}
    Gens = {g1, g2}
    Vacant = Vacant
    Permanent = Permanent
    NoLock = NoLock
    NoKey = NoKey
    NoHandle = NoHandle
SPECIFICATION FairSpec
CHECK_DEADLOCK FALSE
INVARIANTS
    NoPanic
    OneValue
PROPERTIES
    EvictsOnlyIdle
    EvictsWhenIdle
