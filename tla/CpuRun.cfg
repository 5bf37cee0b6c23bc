SPECIFICATION Spec
CONSTANTS
    Interval = 2
    MaxBatches = 5
    SumCells <- MCSumCells
    WindowCells <- MCWindowCells
PROPERTIES
    ReportsAsPromised
