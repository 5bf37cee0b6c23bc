SPECIFICATION Spec
CONSTANTS
    NSlots = 2
    Interval = 2
    MaxBatches = 4
    SumCells <- MCSumCells
    WindowCells <- MCWindowCells
INVARIANT
    NoDeadlock
PROPERTIES
    Returns
    SnapshotsPrinted
