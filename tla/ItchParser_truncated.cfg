SPECIFICATION Spec
CONSTANTS
    NFrames = 3
    Lengths = {0, 1, 3, 4, 5}
    Types = {"A", "S"}
    TypeOf <- MCTypeOf
    BufBytes = 6
    MaxBytes = 21
INVARIANTS
    TruncationReported
