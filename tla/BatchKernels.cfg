SPECIFICATION Spec
CONSTANTS
    Slots <- MCSlots
    BatchLen <- MCBatchLen
    MAX_SYMBOLS = 2
    U32 = 3
    U64 = 5
INVARIANTS
    TypeOK
    BitExact
