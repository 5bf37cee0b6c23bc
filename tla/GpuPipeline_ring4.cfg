SPECIFICATION Spec
CONSTANTS
    NSlots = 4
    Interval = 3
    MaxBatches = 7
    SumCells <- MCSumCells
    WindowCells <- MCWindowCells
INVARIANTS
    SlotExclusive
    KernelExclusion
PROPERTIES
    ReportsAsPromised
