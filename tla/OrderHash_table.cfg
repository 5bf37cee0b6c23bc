SPECIFICATION Spec
CONSTANTS
    Refs = {r1, r2, r3, r4}
    NoRef = NoRef
    Capacity = 4
    MaxShares = 2
INVARIANTS
    TypeOK
    SizeExact
    ProbesEnd
PROPERTIES
    TableAsPromised
    EraseCountsDown
    EraseReturns
