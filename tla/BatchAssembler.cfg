SPECIFICATION Spec
CONSTANTS
    Refs = {r1, r2, r3, r4}
    OldRefs = {r0}
    MaxShares = 2
    MaxOrders = 2
    MaxLive = 2
    Types = {"A", "X", "D", "U", "E"}
    MaxParsed = 7
    BATCH_MSGS = 2
SYMMETRY Symmetry
INVARIANTS
    TypeOK
    TableIsBook
    OrdersHeld
    TagsResolved
    UnresolvedExact
    UnknownExact
