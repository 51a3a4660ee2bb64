SPECIFICATION Spec
CONSTANTS
    Addrs = {a1, a2, a3}
    Targets = {t1, t2}
    Loads = {0, 1}
    NoTarget = NoTarget
SYMMETRY Symmetry
CHECK_DEADLOCK FALSE
INVARIANTS
    EndpointsExact
PROPERTIES
    SelectionStable
    NeverMostLoaded
