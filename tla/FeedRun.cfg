SPECIFICATION RunSpec
CONSTANTS
    Refs = {}
    OldRefs = {}
    MaxShares = 1
    MaxOrders = 1
    MaxLive = 1
    Types = {"P", "S", "R", "I"}
    MaxParsed = 8
    BATCH_MSGS = 2
    Interval = 2
    MaxMsgs = 7
INVARIANTS
    RowsExact
    NamesCurrent
    ReadsToTheEnd
    StatsExact
