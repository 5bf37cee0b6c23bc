SPECIFICATION Spec
CONSTANTS
    Refs = {r1, r2, r3, r4}
    NoRef = NoRef
    Capacity = 8
    MaxShares = 1
SYMMETRY Symmetry
INVARIANTS
    EveryOrderReachable
    UniqueRefs
PROPERTY
    EraseCountsDown
