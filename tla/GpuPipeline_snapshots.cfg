SPECIFICATION Spec
CONSTANTS
    NSlots = 3
    Interval = 1
    MaxBatches = 5
    SumCells <- MCSumCells
    WindowCells <- MCWindowCells
INVARIANTS
    TypeOK
    HandoffExclusive
PROPERTIES
    ReportsAsPromised
